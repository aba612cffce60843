-------------------------------- MODULE ConnRW --------------------------------
(***************************************************************************)
(* One end of a TCP connection as two channels (tun/rw.go, tun/crw.go):    *)
(* the NetConnReader and the NetConnWriter goroutine, the channels between *)
(* them and the tunnel, and those who stop them.  The server's end has one *)
(* who stops, LongPoller.finish, and reports to nobody; the client's end   *)
(* has two, Chaser.Stop and the Chaser's monitor, and both goroutines      *)
(* report to the monitor when they end.                                    *)
(*                                                                         *)
(*   "top"     reader: IsStopRequested?     "take"   writer: next buffer   *)
(*   "read"    reader: conn.Read            "write"  writer: conn.Write    *)
(*   "send"    reader: send | reqStop       "check"  writer: timed out,    *)
(*   "finish"  the deferred finish()                 IsStopRequested?      *)
(*   "report"  select notifyDoneCh | 500 ms                                *)
(*   "done"    Done is closed             "panicked" writer: short write   *)
(*                                                                         *)
(* A buffer is its number; the writer's buffers are of Size units, so that *)
(* the kernel can take a part of one.                                      *)
(***************************************************************************)
EXTENDS Integers, Sequences

CONSTANTS
  MaxIn,    \* buffers the peer sends (bound)
  MaxOut,   \* buffers the tunnel sends to the peer (bound)
  ChanCap,  \* capacity of the channels, 1000 in the code
  Size,     \* units of a buffer
  SockCap   \* units the kernel takes ahead of the peer

ASSUME ConnAssumption ==
  /\ MaxIn \in Nat /\ MaxOut \in Nat
  /\ {ChanCap, Size, SockCap} \subseteq Nat \ {0}

Goroutine == {"reader", "writer"}
Stopper   == {"owner", "monitor"}

VARIABLES
  side,            \* whose end this is: "server" or "client"
  pc, stop, report,  \* per goroutine: position, reqStop closed, reportDone
  read, hold, inCh, got,   \* buffers read, the one in hand, the channel to the
                           \* tunnel (dnReadToUpWrite), what the tunnel took
  put, outCh, buf, left, n, late, out,
                   \* buffers sent by the tunnel, the channel upReadToDnWrite,
                   \* the writer's buffer, its units not taken by the kernel,
                   \* those taken in this Write, whether the deadline has
                   \* passed, all units taken by the kernel
  room, inEnd, outEnd,     \* kernel buffer; Read and Write meet an error
  closed,          \* conn.Close has been called
  at               \* per stopper: position in Stop

goVars   == <<pc, stop, report>>
inVars   == <<read, hold, inCh, got>>
bufVars  == <<buf, left, n, late>>
outVars  == <<put, outCh, out>>
connVars == <<room, inEnd, outEnd>>
stopVars == <<closed, at>>
vars == <<side, goVars, inVars, bufVars, outVars, connVars, stopVars>>

Place == {"top", "read", "send", "take", "write", "check", "finish", "report",
          "done", "panicked"}

StopPlace == {"none", "idle", "watch", "askReader", "awaitReader",
              "askWriter", "awaitWriter", "close", "done"}

TypeOK ==
  /\ side \in {"server", "client"}
  /\ pc \in [Goroutine -> Place]
  /\ stop \in [Goroutine -> BOOLEAN]
  /\ report \in [Goroutine -> BOOLEAN]
  /\ read \in Nat /\ hold \in Nat /\ inCh \in Seq(Nat) /\ got \in Seq(Nat)
  /\ Len(inCh) <= ChanCap
  /\ put \in Nat /\ outCh \in Seq(Nat) /\ buf \in Nat /\ out \in Seq(Nat)
  /\ Len(outCh) <= ChanCap
  /\ left \in 0..Size /\ n \in 0..Size
  /\ room \in 0..SockCap
  /\ late \in BOOLEAN /\ inEnd \in BOOLEAN /\ outEnd \in BOOLEAN
  /\ closed \in BOOLEAN
  /\ at \in [Stopper -> StopPlace]

Init ==
  /\ side \in {"server", "client"}
  /\ pc = [g \in Goroutine |-> IF g = "reader" THEN "top" ELSE "take"]
  /\ stop = [g \in Goroutine |-> FALSE]
  /\ report = [g \in Goroutine |-> side = "client"]
  /\ read = 0 /\ hold = 0 /\ inCh = <<>> /\ got = <<>>
  /\ put = 0 /\ outCh = <<>> /\ out = <<>>
  /\ buf = 0 /\ left = 0 /\ n = 0 /\ late = FALSE
  /\ room = SockCap /\ inEnd = FALSE /\ outEnd = FALSE
  /\ closed = FALSE
  /\ at = [s \in Stopper |->
             CASE s = "owner" -> "idle"
               [] side = "client" -> "watch"
               [] OTHER -> "none"]

\* Mutated Fits: one too many.
FitsOneMore(ch) == Len(ch) <= ChanCap

\* A send on a buffered channel goes through.
Fits(ch) == Len(ch) < ChanCap

Goto(g, place) == pc' = [pc EXCEPT ![g] = place]
Walk(s, place) == at' = [at EXCEPT ![s] = place]
-------------------------------------------------------------------------------
(***************************************************************************)
(* NetConnReader.Start                                                     *)
(***************************************************************************)

ReaderLooks ==
  /\ pc["reader"] = "top"
  /\ Goto("reader", IF stop["reader"] THEN "finish" ELSE "read")
  /\ UNCHANGED <<side, stop, report, inVars, bufVars, outVars, connVars,
                 stopVars>>

Read ==
  /\ pc["reader"] = "read" /\ ~inEnd
  /\ read < MaxIn
  /\ read' = read + 1 /\ hold' = read + 1
  /\ Goto("reader", "send")
  /\ UNCHANGED <<side, stop, report, inCh, got, bufVars, outVars, connVars,
                 stopVars>>

ReadTimesOut ==
  /\ pc["reader"] = "read" /\ ~inEnd
  /\ Goto("reader", "top")
  /\ UNCHANGED <<side, stop, report, inVars, bufVars, outVars, connVars,
                 stopVars>>

\* EOF, or another error
ReadFails ==
  /\ pc["reader"] = "read" /\ inEnd
  /\ Goto("reader", "finish")
  /\ UNCHANGED <<side, stop, report, inVars, bufVars, outVars, connVars,
                 stopVars>>

\* Mutated Send: no backpressure, a buffer that does not fit is let go.
SendOrDrop ==
  /\ pc["reader"] = "send"
  /\ inCh' = IF Fits(inCh) THEN Append(inCh, hold) ELSE inCh
  /\ hold' = 0
  /\ Goto("reader", "top")
  /\ UNCHANGED <<side, stop, report, read, got, bufVars, outVars, connVars,
                 stopVars>>

\* case s.dnReadToUpWrite <- buf
Send ==
  /\ pc["reader"] = "send"
  /\ Fits(inCh)
  /\ inCh' = Append(inCh, hold)
  /\ hold' = 0
  /\ Goto("reader", "top")
  /\ UNCHANGED <<side, stop, report, read, got, bufVars, outVars, connVars,
                 stopVars>>

\* case <-s.reqStop: the buffer in hand is let go.
SendQuits ==
  /\ pc["reader"] = "send" /\ stop["reader"]
  /\ hold' = 0
  /\ Goto("reader", "finish")
  /\ UNCHANGED <<side, stop, report, read, inCh, got, bufVars, outVars,
                 connVars, stopVars>>
-------------------------------------------------------------------------------
(***************************************************************************)
(* NetConnWriter.Start                                                     *)
(***************************************************************************)

\* case buf = <-s.upReadToDnWrite, and SetWriteDeadline
TakeBuffer ==
  /\ pc["writer"] = "take" /\ outCh # <<>>
  /\ buf' = Head(outCh) /\ outCh' = Tail(outCh)
  /\ left' = Size /\ n' = 0 /\ late' = FALSE
  /\ Goto("writer", "write")
  /\ UNCHANGED <<side, stop, report, inVars, put, out, connVars, stopVars>>

\* case <-s.reqStop
TakeQuits ==
  /\ pc["writer"] = "take" /\ stop["writer"]
  /\ Goto("writer", "finish")
  /\ UNCHANGED <<side, stop, report, inVars, bufVars, outVars, connVars,
                 stopVars>>

\* Inside conn.Write: the kernel takes a unit.
KernelTakes ==
  /\ pc["writer"] = "write" /\ ~outEnd /\ ~late
  /\ left > 0 /\ room > 0
  /\ out' = Append(out, buf)
  /\ left' = left - 1 /\ n' = n + 1 /\ room' = room - 1
  /\ UNCHANGED <<side, goVars, inVars, buf, late, put, outCh, inEnd, outEnd,
                 stopVars>>

\* conn.Write returns without an error: n has to be the size of the buffer
\* that was received.
WriteReturns ==
  /\ pc["writer"] = "write" /\ left = 0
  /\ Goto("writer", IF n = Size THEN "take" ELSE "panicked")
  /\ buf' = 0 /\ n' = 0 /\ late' = FALSE
  /\ UNCHANGED <<side, stop, report, inVars, left, outVars, connVars, stopVars>>

\* Mutated LateAfterTimeout: every try has a deadline of its own.
Renewed == FALSE

\* The deadline is set once per buffer: what has passed stays passed.
LateAfterTimeout == TRUE

\* conn.Write returns with a timeout; buf = buf[n:].  Once the deadline has
\* passed Write does not even look at the connection.
WriteTimesOut ==
  /\ pc["writer"] = "write" /\ left > 0
  /\ late \/ ~outEnd
  /\ late' = LateAfterTimeout
  /\ n' = 0
  /\ Goto("writer", "check")
  /\ UNCHANGED <<side, stop, report, inVars, buf, left, outVars, connVars,
                 stopVars>>

\* Mutated CheckAfterTimeout: a timeout is taken for an end of this buffer.
NextAfterTimeout == IF stop["writer"] THEN "finish" ELSE "take"

CheckAfterTimeout == IF stop["writer"] THEN "finish" ELSE "write"

WriterChecks ==
  /\ pc["writer"] = "check"
  /\ Goto("writer", CheckAfterTimeout)
  /\ UNCHANGED <<side, stop, report, inVars, bufVars, outVars, connVars,
                 stopVars>>

WriteFails ==
  /\ pc["writer"] = "write" /\ left > 0
  /\ outEnd /\ ~late
  /\ Goto("writer", "finish")
  /\ UNCHANGED <<side, stop, report, inVars, bufVars, outVars, connVars,
                 stopVars>>
-------------------------------------------------------------------------------
(***************************************************************************)
(* finish() and the monitor, for both goroutines.                          *)
(***************************************************************************)

\* RequestStop; the channel field is set to nil; is there somebody to tell?
Finish(g) ==
  /\ pc[g] = "finish"
  /\ stop' = [stop EXCEPT ![g] = TRUE]
  /\ Goto(g, IF report[g] THEN "report" ELSE "done")
  /\ UNCHANGED <<side, report, inVars, bufVars, outVars, connVars, stopVars>>

\* Mutated Reported: the monitor hears of the reader only.
ReportedByReader(g) ==
  /\ g = "reader" /\ pc[g] = "report" /\ at["monitor"] = "watch"
  /\ Goto(g, "done") /\ Walk("monitor", "askReader")
  /\ UNCHANGED <<side, stop, report, inVars, bufVars, outVars, connVars, closed>>

\* case s.notifyDoneCh <- s, and the monitor goes on to StopWithoutNotify.
Reported(g) ==
  /\ pc[g] = "report" /\ at["monitor"] = "watch"
  /\ Goto(g, "done") /\ Walk("monitor", "askReader")
  /\ UNCHANGED <<side, stop, report, inVars, bufVars, outVars, connVars, closed>>

\* Mutated ReportTimesOut: waits until somebody listens.
NoTimeout(g) == FALSE /\ UNCHANGED vars

\* case <-time.After(tryDur).  A monitor that waits in its select is there at
\* once, so only one that has left it is missed.
ReportTimesOut(g) ==
  /\ pc[g] = "report" /\ at["monitor"] # "watch"
  /\ Goto(g, "done")
  /\ UNCHANGED <<side, stop, report, inVars, bufVars, outVars, connVars,
                 stopVars>>
-------------------------------------------------------------------------------
(***************************************************************************)
(* Stop and StopWithoutNotify: first the reader, then the writer, then the *)
(* connection.                                                             *)
(***************************************************************************)

\* The LongPoller finishes, or somebody calls Chaser.Stop.
StopCalled ==
  /\ at["owner"] = "idle"
  /\ Walk("owner", "askReader")
  /\ UNCHANGED <<side, goVars, inVars, bufVars, outVars, connVars, closed>>

\* The monitor's case <-s.reqStop
MonitorSeesStop ==
  /\ at["monitor"] = "watch" /\ at["owner"] # "idle"
  /\ Walk("monitor", "askReader")
  /\ UNCHANGED <<side, goVars, inVars, bufVars, outVars, connVars, closed>>

\* What the monitor calls is StopWithoutNotify.
Ask(s, g, here, next) ==
  /\ at[s] = here
  /\ stop' = [stop EXCEPT ![g] = TRUE]
  /\ report' = [report EXCEPT ![g] = @ /\ s # "monitor"]
  /\ Walk(s, next)
  /\ UNCHANGED <<side, pc, inVars, bufVars, outVars, connVars, closed>>

Await(s, g, here, next) ==
  /\ at[s] = here
  /\ pc[g] = "done"
  /\ Walk(s, next)
  /\ UNCHANGED <<side, goVars, inVars, bufVars, outVars, connVars, closed>>

AskReader(s) == Ask(s, "reader", "askReader", "awaitReader")
AwaitReader(s) == Await(s, "reader", "awaitReader", "askWriter")

\* Mutated AskWriter: Stop does not wait for the writer.
AskWriterOnly(s) == Ask(s, "writer", "askWriter", "close")

AskWriter(s) == Ask(s, "writer", "askWriter", "awaitWriter")
AwaitWriter(s) == Await(s, "writer", "awaitWriter", "close")

CloseConn(s) ==
  /\ at[s] = "close"
  /\ closed' = TRUE
  /\ Walk(s, "done")
  /\ UNCHANGED <<side, goVars, inVars, bufVars, outVars, connVars>>
-------------------------------------------------------------------------------
(***************************************************************************)
(* The tunnel at the other end of the channels.  The Chaser has got them   *)
(* once and for all.  The LongPoller asks for them before each select, and *)
(* is given nil once a stop has been requested, but a select it is in goes *)
(* on with what it was given before: the module LongPoller tells the two   *)
(* apart, here the tunnel may use a channel for as long as it likes.       *)
(***************************************************************************)

TunnelTakes ==
  /\ inCh # <<>>
  /\ got' = Append(got, Head(inCh)) /\ inCh' = Tail(inCh)
  /\ UNCHANGED <<side, goVars, read, hold, bufVars, outVars, connVars, stopVars>>

TunnelPuts ==
  /\ put < MaxOut /\ Fits(outCh)
  /\ put' = put + 1 /\ outCh' = Append(outCh, put + 1)
  /\ UNCHANGED <<side, goVars, inVars, bufVars, out, connVars, stopVars>>

\* The peer: takes what the kernel holds, ends its stream, resets.
PeerTakes ==
  /\ room < SockCap /\ room' = room + 1
  /\ UNCHANGED <<side, goVars, inVars, bufVars, outVars, inEnd, outEnd, stopVars>>

PeerEnds ==
  /\ ~inEnd /\ inEnd' = TRUE
  /\ UNCHANGED <<side, goVars, inVars, bufVars, outVars, room, outEnd, stopVars>>

PeerResets ==
  /\ ~outEnd /\ inEnd' = TRUE /\ outEnd' = TRUE
  /\ UNCHANGED <<side, goVars, inVars, bufVars, outVars, room, stopVars>>
-------------------------------------------------------------------------------
Reader == ReaderLooks \/ Read \/ ReadTimesOut \/ ReadFails \/ Send \/ SendQuits

Writer ==
  \/ TakeBuffer \/ TakeQuits \/ KernelTakes \/ WriteReturns \/ WriteTimesOut
  \/ WriterChecks \/ WriteFails

End(g) == Finish(g) \/ Reported(g) \/ ReportTimesOut(g)

Stop(s) ==
  \/ AskReader(s) \/ AwaitReader(s) \/ AskWriter(s) \/ AwaitWriter(s)
  \/ CloseConn(s)

Tunnel == TunnelTakes \/ TunnelPuts
Peer == PeerTakes \/ PeerEnds \/ PeerResets

Next ==
  \/ Reader \/ Writer \/ \E g \in Goroutine : End(g)
  \/ StopCalled \/ MonitorSeesStop \/ \E s \in Stopper : Stop(s)
  \/ Tunnel \/ Peer

Spec == Init /\ [][Next]_vars

(***************************************************************************)
(* Fairness: the goroutines run, timeouts included, and a select that has  *)
(* the stop case takes it if it comes up again and again.  Nothing is      *)
(* assumed of the peer, the tunnel or the one who may call Stop.           *)
(***************************************************************************)
Fairness ==
  /\ WF_vars(Reader) /\ WF_vars(Writer)
  /\ SF_vars(SendQuits) /\ SF_vars(TakeQuits)
  /\ \A g \in Goroutine : WF_vars(End(g))
  /\ WF_vars(MonitorSeesStop)
  /\ \A s \in Stopper : WF_vars(Stop(s))

FairSpec == Spec /\ Fairness

\* A peer that goes on taking what the kernel holds for it, and a Write that
\* finds room again and again uses it in the end.
DrainingSpec == FairSpec /\ WF_vars(PeerTakes) /\ SF_vars(KernelTakes)
-------------------------------------------------------------------------------
(***************************************************************************)
(* Properties.                                                             *)
(***************************************************************************)

\* What the tunnel takes off the channel is what the peer sent, in order and
\* without a gap, with at most one buffer more than the channel holds under
\* way: NetConnReader and its channel are a pipe, also while they are stopped.
ReadPipe == INSTANCE Pipe WITH fed <- read, got <- got, Capacity <- ChanCap + 1
ReadIsPipe == ReadPipe!Spec

\* The buffers that the kernel has taken as a whole.
Written == [i \in 1..(Len(out) \div Size) |-> out[i * Size]]

\* The same of NetConnWriter: partial writes, timeouts and stops never leave
\* out a buffer or send one twice.
WritePipe == INSTANCE Pipe WITH fed <- put, got <- Written, Capacity <- ChanCap + 1
WriteIsPipe == WritePipe!Spec

\* A Write that succeeds is never taken for a short one, although buf has
\* shrunk and nbuf has not.
NoShortWrite == pc["writer"] # "panicked"

\* The connection is closed after both goroutines have ended, by whichever of
\* the two stoppers: setting a deadline on a closed connection fails, and both
\* goroutines panic if it does.
CloseComesLast == closed => \A g \in Goroutine : pc[g] = "done"

\* Stop returns: the reader may be blocked on a full channel, the writer on a
\* peer that takes nothing, and both on a monitor that waits for them.
StopReturns == (at["owner"] # "idle") ~> (at["owner"] = "done")

\* At the client's end the connection ends as a whole: if one goroutine leaves
\* its loop, the other one ends too and conn is closed.
EndsTogether ==
  (side = "client" /\ \E g \in Goroutine : pc[g] = "finish") ~> closed

\* A buffer that the writer has taken is written to a peer that takes what it
\* is sent, unless the writer ends.  Stated by the comment in the write loop:
\* "we never stop trying to deliver".
TakenIsWritten ==
  \A c \in 1..MaxOut :
    (pc["writer"] = "write" /\ buf = c)
      ~> (Len(Written) >= c \/ pc["writer"] \in {"finish", "report", "done"})
===============================================================================

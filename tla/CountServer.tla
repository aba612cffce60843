----------------------------- MODULE CountServer -----------------------------
(***************************************************************************)
(* The counting client and server of the tests (tun/countsrv.go).  They    *)
(* pass odd and even numbers in turn and panic, and with them the test, on *)
(* a number out of order.  The connection is a byte stream that may run    *)
(* through the tunnel: it delays, joins several messages to one read, of   *)
(* which only the first number counts, and may end at any time.  The tests *)
(* start one client; the sequence is the server's, not the connection's,   *)
(* and a second client would break it.                                     *)
(*                                                                         *)
(*   counter   the client: "off", "write", "read", "deliver" (MsgRecvd,    *)
(*             which has no buffer), "check", "done", "eof" (returned      *)
(*             without closing Done)                                       *)
(*   service   its goroutine at the server: "off", "backlog", "read",      *)
(*             "reply", "done"                                             *)
(***************************************************************************)
EXTENDS Naturals, Sequences

CONSTANT MaxCount   \* bounds the client's numbers, of which the first is 1

ASSUME CountAssumption == MaxCount \in Nat \ {0}

VARIABLES
  counter, lastCountSent, nextCountToSend, late,   \* late: a read timed out
  service, cliCount, lastCountRecv,                \* cliCount: the number read
  upBytes, downBytes, cut,                         \* the connection
  clientStop, serverStop, broken                   \* a goroutine has panicked

clientVars == <<counter, lastCountSent, nextCountToSend, late>>
serverVars == <<service, cliCount, lastCountRecv>>
countStops == <<clientStop, serverStop>>
countVars  == <<clientVars, serverVars, upBytes, downBytes, cut, countStops,
                broken>>

Numbers == 0..(MaxCount + 2)

CountTypeOK ==
  /\ counter \in {"off", "write", "read", "deliver", "check", "done", "eof"}
  /\ service \in {"off", "backlog", "read", "reply", "done"}
  /\ {lastCountSent, nextCountToSend, cliCount, lastCountRecv} \subseteq Numbers
  /\ {upBytes, downBytes} \subseteq Seq(Numbers)
  /\ {late, cut, clientStop, serverStop, broken} \subseteq BOOLEAN

CountInit ==
  /\ counter = "off" /\ lastCountSent = 0 /\ nextCountToSend = 1 /\ late = FALSE
  /\ service = "off" /\ cliCount = 0 /\ lastCountRecv = 0
  /\ upBytes = <<>> /\ downBytes = <<>> /\ cut = FALSE
  /\ clientStop = FALSE /\ serverStop = FALSE /\ broken = FALSE
-----------------------------------------------------------------------------
(***************************************************************************)
(* The client.                                                             *)
(***************************************************************************)

StartsCounter ==
  /\ counter = "off" /\ ~serverStop
  /\ counter' = "write" /\ service' = "backlog"
  /\ UNCHANGED <<lastCountSent, nextCountToSend, late, cliCount, lastCountRecv,
                 upBytes, downBytes, cut, countStops, broken>>

\* net.Dial fails, as nobody listens any more, and the client panics.
CounterRefused ==
  /\ counter = "off" /\ serverStop
  /\ broken' = TRUE
  /\ UNCHANGED <<clientVars, serverVars, upBytes, downBytes, cut, countStops>>

\* Mutated NextCount: every number in turn.
NextNumber(n) == n + 1

NextCount(n) == n + 2

WritesCount ==
  /\ counter = "write" /\ counter' = "read"
  /\ upBytes' = Append(upBytes, nextCountToSend)
  /\ lastCountSent' = nextCountToSend
  /\ nextCountToSend' = NextCount(nextCountToSend)
  /\ UNCHANGED <<late, serverVars, downBytes, cut, countStops, broken>>

\* panicOn(err), or the default of the switch after the read: the connection
\* was reset.
CountMeetsReset ==
  /\ counter \in {"write", "read"} /\ cut
  /\ broken' = TRUE
  /\ UNCHANGED <<clientVars, serverVars, upBytes, downBytes, cut, countStops>>

\* The first of the k messages that the read returns must answer the number
\* sent last.
ReadsCount ==
  /\ counter = "read"
  /\ \E k \in 1..Len(downBytes) :
       downBytes' = SubSeq(downBytes, k + 1, Len(downBytes))
  /\ IF Head(downBytes) = lastCountSent + 1
       THEN counter' = "deliver" /\ UNCHANGED broken
       ELSE broken' = TRUE /\ UNCHANGED counter
  /\ UNCHANGED <<lastCountSent, nextCountToSend, late, serverVars, upBytes, cut,
                 countStops>>

\* The 2 s are over: on to the next number, without this one's answer.
CountTimesOut ==
  /\ counter = "read" /\ counter' = "check"
  /\ late' = TRUE
  /\ UNCHANGED <<lastCountSent, nextCountToSend, serverVars, upBytes, downBytes,
                 cut, countStops, broken>>

CountMeetsEof ==
  /\ counter = "read" /\ cut /\ downBytes = <<>>
  /\ counter' = "eof"
  /\ UNCHANGED <<lastCountSent, nextCountToSend, late, serverVars, upBytes,
                 downBytes, cut, countStops, broken>>

\* cli.MsgRecvd <- cli.lastMsg, if the test listens
DeliversCount ==
  /\ counter = "deliver" /\ counter' = "check"
  /\ UNCHANGED <<lastCountSent, nextCountToSend, late, serverVars, upBytes,
                 downBytes, cut, countStops, broken>>

ChecksStop ==
  /\ counter = "check"
  /\ IF clientStop THEN counter' = "done"
                   ELSE nextCountToSend <= MaxCount /\ counter' = "write"
  /\ UNCHANGED <<lastCountSent, nextCountToSend, late, serverVars, upBytes,
                 downBytes, cut, countStops, broken>>
-----------------------------------------------------------------------------
(***************************************************************************)
(* The server.                                                             *)
(***************************************************************************)

AcceptsCounter ==
  /\ service = "backlog" /\ ~serverStop
  /\ service' = "read"
  /\ UNCHANGED <<clientVars, cliCount, lastCountRecv, upBytes, downBytes, cut,
                 countStops, broken>>

\* A number that does not follow the last one is fatal.
ServiceReads ==
  /\ service = "read"
  /\ \E k \in 1..Len(upBytes) : upBytes' = SubSeq(upBytes, k + 1, Len(upBytes))
  /\ IF lastCountRecv > 0 /\ Head(upBytes) # lastCountRecv + 2
       THEN broken' = TRUE /\ UNCHANGED <<service, cliCount>>
       ELSE service' = "reply" /\ cliCount' = Head(upBytes) /\ UNCHANGED broken
  /\ UNCHANGED <<clientVars, lastCountRecv, downBytes, cut, countStops>>

\* r.lastCountRecv = cliCount, and the answer, lost if the connection is
ServiceReplies ==
  /\ service = "reply" /\ service' = "read"
  /\ lastCountRecv' = cliCount
  /\ downBytes' = IF cut THEN downBytes ELSE Append(downBytes, cliCount + 1)
  /\ UNCHANGED <<clientVars, cliCount, upBytes, cut, countStops, broken>>

\* The goroutine sees the stop; it leaves its connection open.
ServiceEnds ==
  /\ service = "read" /\ serverStop
  /\ service' = "done"
  /\ UNCHANGED <<clientVars, cliCount, lastCountRecv, upBytes, downBytes, cut,
                 countStops, broken>>

StopsCounter ==
  /\ counter # "off" /\ ~clientStop
  /\ clientStop' = TRUE
  /\ UNCHANGED <<clientVars, serverVars, upBytes, downBytes, cut, serverStop,
                 broken>>

\* Stop closes the listener, and the accept loop ends.
StopsCountServer ==
  /\ ~serverStop /\ serverStop' = TRUE
  /\ UNCHANGED <<clientVars, serverVars, upBytes, downBytes, cut, clientStop,
                 broken>>

\* The connection ends at its other end, orderly or by a reset.
CutsConn ==
  /\ counter # "off" /\ ~cut
  /\ cut' = TRUE
  /\ UNCHANGED <<clientVars, serverVars, upBytes, downBytes, countStops, broken>>

CounterStep ==
  /\ ~broken
  /\ \/ WritesCount \/ ReadsCount \/ CountTimesOut \/ ChecksStop
     \/ CountMeetsEof \/ CountMeetsReset

CountNext ==
  \/ CounterStep
  \/ /\ ~broken
     /\ \/ StartsCounter \/ CounterRefused \/ DeliversCount \/ StopsCounter
        \/ StopsCountServer \/ AcceptsCounter \/ ServiceReads
        \/ ServiceReplies \/ ServiceEnds \/ CutsConn

CountSpec == CountInit /\ [][CountNext]_countVars
-----------------------------------------------------------------------------
(***************************************************************************)
(* Properties.                                                             *)
(***************************************************************************)

InFlight == Len(upBytes) + Len(downBytes) + (IF service = "reply" THEN 1 ELSE 0)

\* As long as each read of the client is answered in time, the two ends are
\* never more than one number apart, and nobody panics but for a connection
\* that is reset or a dial that is refused; a late answer may end the test, at
\* either end, though the tunnel has done nothing wrong.
CountsInStep ==
  ~late => /\ broken => cut \/ counter = "off"
           /\ InFlight <= 1
           /\ lastCountRecv \in {lastCountSent, lastCountSent - 2, 0}

\* Stop of the client has returned, or cannot: the client's read met the end
\* of the connection, or nobody takes its message, or the test has panicked.
CounterStops == counter \in {"done", "eof", "deliver"} \/ broken
=============================================================================

------------------------------- MODULE Chaser -------------------------------
(***************************************************************************)
(* The client half of one tunnel (tun/alphabeta.go): the goroutines alpha  *)
(* and beta, their ClientHome, the monitor of the upstream connection, the *)
(* caller of Stop, and the ClientRW channels to and from that connection.  *)
(* Every goroutine's pc names the blocking operation it is about to do.    *)
(*                                                                         *)
(*   "top"     select shouldGoNow | reqStop                                *)
(*   "inner"   not told to go, entering the inner select                   *)
(*   "parked"  blocked in the inner select: only now can home's             *)
(*             non-blocking tell reach it                                  *)
(*   "told"    was told to go, about to look for work without blocking     *)
(*   "depart"  about to rendezvous with home's departsHome                 *)
(*   "request" DoRequestResponse, before the POST                          *)
(*   "http"    DoRequestResponse, waiting for the answer                   *)
(*   "arrive"  about to rendezvous with home's arrivesHome                 *)
(*   "merge"   the addIfPresent loop                                       *)
(*   "deliver" select repliesHere | reqStop                                *)
(*   "exit", "cancel", "done"   the deferred function                      *)
(*                                                                         *)
(* The server and the network are whoever changes http[r] from "sent" to   *)
(* "replied"; Answer, at the end, is the most general server that numbers  *)
(* its replies as LongPoller does.                                         *)
(***************************************************************************)
EXTENDS ClientHome, Sequences

CONSTANTS
  MaxChunk,     \* chunks the upstream client writes (bound)
  MaxReply,     \* replies with data the server sends (bound)
  ChanCap,      \* capacity of the ClientRW channels, 1000 in the code
  Disturbance   \* what may go wrong: a subset of AnyDisturbance

AnyDisturbance == {"idle", "hangup", "httpError", "stop"}

ASSUME ChaserAssumption ==
  /\ MaxChunk \in Nat /\ MaxReply \in Nat
  /\ ChanCap \in Nat \ {0}
  /\ Disturbance \subseteq AnyDisturbance

VARIABLES
  pc, work, toSend, tryMe,      \* per roommate: position, work, by, tryMe
  http,                         \* http[r]: the exchange on the socket of r
  nextSendSerialNumber, lastRecvSerialNumberSeen, misorderedReplies,
  read, incoming,               \* chunks read so far, the RecvCh() channel
  delivered, drained,           \* all sends on repliesHere, how many were
                                \* written to the upstream connection
  rw,                           \* ClientRW
  armed, tick,                  \* inactiveTimer: running, value in its channel
  cancelled,                    \* a token in ReqCancel
  reqStop, skipNotify, monitor, stopper, notified,
  issued                        \* replies with data issued by the server

workVars  == <<pc, work, toSend, tryMe>>
orderVars == <<nextSendSerialNumber, lastRecvSerialNumberSeen,
               misorderedReplies>>
connVars  == <<read, incoming, delivered, drained, rw>>
timerVars == <<armed, tick>>
stopVars  == <<cancelled, reqStop, skipNotify, monitor, stopper, notified>>
vars == <<homeVars, workVars, http, orderVars, connVars, timerVars, stopVars,
          issued>>

Chunk == 1..MaxChunk
ReplyChunk == 1..MaxReply

Place == {"top", "inner", "parked", "told", "depart", "request", "http",
          "arrive", "merge", "deliver", "exit", "cancel", "done"}

TypeOK ==
  /\ HomeTypeOK
  /\ pc \in [Roommate -> Place]
  /\ work \in [Roommate -> Chunk \cup {NoChunk}]
  /\ toSend \in [Roommate -> Seq(ReplyChunk)]
  /\ tryMe \in [Roommate -> Nat]
  /\ http \in [Roommate -> Exchange(Nat)]
  /\ nextSendSerialNumber \in Nat \ {0}
  /\ lastRecvSerialNumberSeen \in Nat
  /\ DOMAIN misorderedReplies \subseteq ReplyChunk
  /\ \A n \in DOMAIN misorderedReplies : misorderedReplies[n] \in Seq(ReplyChunk)
  /\ read \in Chunk \cup {0}
  /\ incoming \in Seq(Chunk) /\ Len(incoming) <= ChanCap
  /\ delivered \in Seq(Seq(ReplyChunk))
  /\ drained \in 0..Len(delivered) /\ Len(delivered) - drained <= ChanCap
  /\ rw \in {"open", "readerEnded", "writerEnded", "stopped"}
  /\ {armed, tick, cancelled, reqStop, skipNotify} \subseteq BOOLEAN
  /\ monitor \in {"watch", "request", "leave", "done"}
  /\ stopper \in {"none", "asked", "rwStopped", "done"}
  /\ notified \in {"no", "received", "lost"}
  /\ issued \in ReplyChunk \cup {0}

Init ==
  /\ HomeInit
  /\ pc = [r \in Roommate |-> "top"]
  /\ work = [r \in Roommate |-> NoChunk]
  /\ toSend = [r \in Roommate |-> <<>>]
  /\ tryMe = [r \in Roommate |-> 0]
  /\ http = [r \in Roommate |-> Idle]
  /\ nextSendSerialNumber = 1
  /\ lastRecvSerialNumberSeen = 0
  /\ misorderedReplies = <<>>
  /\ read = 0 /\ incoming = <<>> /\ delivered = <<>> /\ drained = 0
  /\ rw = "open"
  /\ armed = TRUE /\ tick = FALSE
  /\ cancelled = FALSE /\ reqStop = FALSE /\ skipNotify = FALSE
  /\ monitor = "watch" /\ stopper = "none" /\ notified = "no"
  /\ issued = 0

Goto(r, place) == pc' = [pc EXCEPT ![r] = place]

-----------------------------------------------------------------------------
(***************************************************************************)
(* At home: startAlpha and startBeta up to departsHome.                    *)
(***************************************************************************)

\* goNow = <-shouldGoNow: home answers with the cached decision.
ReadGoNow(r) ==
  /\ pc[r] = "top" /\ homeUp
  /\ Goto(r, IF goCached[r] THEN "depart" ELSE "inner")
  /\ UNCHANGED <<homeVars, work, toSend, tryMe, http, orderVars, connVars,
                 timerVars, stopVars, issued>>

\* work = <-s.incoming in the inner select.
TakeWork(r) ==
  /\ pc[r] \in {"inner", "parked"}
  /\ incoming # <<>>
  /\ work' = [work EXCEPT ![r] = Head(incoming)]
  /\ incoming' = Tail(incoming)
  /\ Goto(r, "depart")
  /\ UNCHANGED <<homeVars, toSend, tryMe, http, orderVars, read, delivered,
                 drained, rw, timerVars, stopVars, issued>>

\* No case of the inner select is ready: the goroutine blocks.
Park(r) ==
  /\ pc[r] = "inner"
  /\ incoming = <<>> /\ ~reqStop /\ pc[Other(r)] # "done"
  /\ r = "alpha" => ~tick
  /\ Goto(r, "parked")
  /\ UNCHANGED <<homeVars, work, toSend, tryMe, http, orderVars, connVars,
                 timerVars, stopVars, issued>>

\* Mutated LookForWork: the work received is bound to a new variable.
LookForWorkShadowed(r) ==
  /\ pc[r] = "told"
  /\ incoming' = IF incoming = <<>> THEN <<>> ELSE Tail(incoming)
  /\ Goto(r, "depart")
  /\ UNCHANGED <<homeVars, work, toSend, tryMe, http, orderVars, read,
                 delivered, drained, rw, timerVars, stopVars, issued>>

\* After tellToGo: take the work that is there, do not wait for any.
LookForWork(r) ==
  /\ pc[r] = "told"
  /\ IF incoming = <<>>
       THEN UNCHANGED <<work, incoming>>
       ELSE /\ work' = [work EXCEPT ![r] = Head(incoming)]
            /\ incoming' = Tail(incoming)
  /\ Goto(r, "depart")
  /\ UNCHANGED <<homeVars, toSend, tryMe, http, orderVars, read, delivered,
                 drained, rw, timerVars, stopVars, issued>>

\* ResetActiveTimer: the timer runs again, a value in its channel stays there.
ResetActiveTimer == armed' = TRUE /\ UNCHANGED tick

\* if len(work) > 0 { ResetActiveTimer() }; departsHome <- true
Depart(r) ==
  /\ pc[r] = "depart"
  /\ Departs(r)
  /\ IF work[r] # NoChunk THEN ResetActiveTimer ELSE UNCHANGED timerVars
  /\ Goto(r, "request")
  /\ UNCHANGED <<work, toSend, tryMe, http, orderVars, connVars, stopVars,
                 issued>>
-----------------------------------------------------------------------------
(***************************************************************************)
(* DoRequestResponse.  Alpha and beta get their serial numbers from one    *)
(* counter, after they have taken their work.  A local variable that the   *)
(* goroutine will not read again before setting it is put back to its      *)
(* initial value (work after the POST, tryMe after the loop), which keeps  *)
(* the state graph small.                                                  *)
(***************************************************************************)

PostRequest(r) ==
  /\ pc[r] = "request"
  /\ IF work[r] = NoChunk
       THEN /\ http' = [http EXCEPT ![r] = Request(NoSerial, NoChunk)]
            /\ UNCHANGED nextSendSerialNumber
       ELSE /\ http' = [http EXCEPT ![r] =
                          Request(nextSendSerialNumber, work[r])]
            /\ nextSendSerialNumber' = nextSendSerialNumber + 1
  /\ Goto(r, "http")
  /\ work' = [work EXCEPT ![r] = NoChunk]
  /\ UNCHANGED <<homeVars, toSend, tryMe, lastRecvSerialNumberSeen,
                 misorderedReplies, connVars, timerVars, stopVars, issued>>

\* Mutated StoredResponse: stores the body that is handed out as well.
StoredBody(e) == <<e.body>>

\* What DoRequestResponse stores for a reply that is ahead of its turn: the
\* named result `back`, which nothing has assigned yet.
StoredResponse(e) == <<>>

\* Mutated HandedToCaller: the result nobody assigned; an unchecked body.
HandedBack(e) == <<>>
HandedUnchecked(e) == <<e.body>>

\* What it hands to its caller: body, in turn or not.
HandedToCaller(e) == IF e.body = NoChunk THEN <<>> ELSE <<e.body>>

Receive(r) ==
  /\ pc[r] = "http" /\ http[r].st = "replied"
  /\ http' = [http EXCEPT ![r] = Idle]
  /\ toSend' = [toSend EXCEPT ![r] = HandedToCaller(http[r])]
  /\ tryMe' = [tryMe EXCEPT ![r] =
                  IF http[r].body = NoChunk THEN 0 ELSE http[r].ser + 1]
  /\ Goto(r, "arrive")
  /\ UNCHANGED <<homeVars, work, nextSendSerialNumber, connVars, timerVars,
                 stopVars, issued>>

ReceiveEmpty(r) ==
  /\ Receive(r)
  /\ http[r].ser = NoSerial
  /\ UNCHANGED <<lastRecvSerialNumberSeen, misorderedReplies>>

ReceiveInOrder(r) ==
  /\ Receive(r)
  /\ http[r].ser = lastRecvSerialNumberSeen + 1
  /\ lastRecvSerialNumberSeen' = lastRecvSerialNumberSeen + 1
  /\ UNCHANGED misorderedReplies

ReceiveMisordered(r) ==
  /\ Receive(r)
  /\ http[r].ser \notin {NoSerial, lastRecvSerialNumberSeen + 1}
  /\ misorderedReplies' =
       [n \in DOMAIN misorderedReplies \cup {http[r].ser} |->
          IF n = http[r].ser THEN StoredResponse(http[r])
                             ELSE misorderedReplies[n]]
  /\ UNCHANGED lastRecvSerialNumberSeen

\* Post fails (connection error, TransportTimeout, a token in ReqCancel): the
\* goroutine returns, and home is not told.
FailRequest(r) ==
  /\ pc[r] = "http"
  /\ http' = [http EXCEPT ![r] = Idle]
  /\ Goto(r, "exit")
  /\ UNCHANGED <<homeVars, work, toSend, tryMe, orderVars, connVars,
                 timerVars, reqStop, skipNotify, monitor, stopper, notified,
                 issued>>

HttpError(r) ==
  /\ "httpError" \in Disturbance
  /\ FailRequest(r)
  /\ UNCHANGED cancelled

RequestCancelled(r) ==
  /\ cancelled /\ cancelled' = FALSE
  /\ FailRequest(r)
-----------------------------------------------------------------------------
(***************************************************************************)
(* Back home: arrivesHome, the replay of misordered replies, repliesHere.  *)
(***************************************************************************)

Arrive(r) ==
  /\ pc[r] = "arrive"
  /\ Arrives(r)
  /\ LET out == SentOut(r, [o \in Roommate |-> pc[o] = "parked"]) IN
     pc' = [o \in Roommate |->
              CASE o = r -> IF toSend[r] = <<>> THEN "top" ELSE "merge"
                [] o \in out -> "told"
                [] OTHER -> pc[o]]
  /\ IF toSend[r] # <<>> THEN ResetActiveTimer ELSE UNCHANGED timerVars
  /\ UNCHANGED <<work, toSend, tryMe, http, orderVars, connVars, stopVars,
                 issued>>

\* addIfPresent found tryMe.
AddIfPresent(r) ==
  /\ pc[r] = "merge"
  /\ tryMe[r] \in DOMAIN misorderedReplies
  /\ toSend' = [toSend EXCEPT ![r] = @ \o misorderedReplies[tryMe[r]]]
  /\ misorderedReplies' =
       [n \in DOMAIN misorderedReplies \ {tryMe[r]} |-> misorderedReplies[n]]
  /\ lastRecvSerialNumberSeen' = tryMe[r]
  /\ tryMe' = [tryMe EXCEPT ![r] = @ + 1]
  /\ UNCHANGED <<homeVars, pc, work, http, nextSendSerialNumber, connVars,
                 timerVars, stopVars, issued>>

\* addIfPresent did not find tryMe: the loop ends.
NoneToAdd(r) ==
  /\ pc[r] = "merge"
  /\ tryMe[r] \notin DOMAIN misorderedReplies
  /\ Goto(r, "deliver")
  /\ tryMe' = [tryMe EXCEPT ![r] = 0]
  /\ UNCHANGED <<homeVars, work, toSend, http, orderVars, connVars,
                 timerVars, stopVars, issued>>

\* s.repliesHere <- sendMe
Deliver(r) ==
  /\ pc[r] = "deliver"
  /\ Len(delivered) - drained < ChanCap
  /\ delivered' = Append(delivered, toSend[r])
  /\ toSend' = [toSend EXCEPT ![r] = <<>>]
  /\ Goto(r, "top")
  /\ UNCHANGED <<homeVars, work, tryMe, http, orderVars, read, incoming,
                 drained, rw, timerVars, stopVars, issued>>
-----------------------------------------------------------------------------
(***************************************************************************)
(* The ways out of the loops, and the deferred functions.                  *)
(***************************************************************************)

\* Mutated QuitOnStop: the select on repliesHere has no such case.
QuitOnStopOnceDelivered(r) ==
  /\ reqStop
  /\ pc[r] \in {"top", "inner", "parked"}
  /\ Goto(r, "exit")
  /\ UNCHANGED <<homeVars, work, toSend, tryMe, http, orderVars, connVars,
                 timerVars, stopVars, issued>>

\* case <-s.reqStop, in each select that has it.
QuitOnStop(r) ==
  /\ reqStop
  /\ pc[r] \in {"top", "inner", "parked", "deliver"}
  /\ Goto(r, "exit")
  /\ UNCHANGED <<homeVars, work, toSend, tryMe, http, orderVars, connVars,
                 timerVars, stopVars, issued>>

\* Mutated QuitAfterOther: only alpha watches the other one.
QuitAfterBeta(r) ==
  /\ r = "alpha" /\ pc[r] \in {"inner", "parked"}
  /\ pc[Other(r)] = "done"
  /\ Goto(r, "exit")
  /\ UNCHANGED <<homeVars, work, toSend, tryMe, http, orderVars, connVars,
                 timerVars, stopVars, issued>>

\* case <-s.betaDone, case <-s.alphaDone
QuitAfterOther(r) ==
  /\ pc[r] \in {"inner", "parked"}
  /\ pc[Other(r)] = "done"
  /\ Goto(r, "exit")
  /\ UNCHANGED <<homeVars, work, toSend, tryMe, http, orderVars, connVars,
                 timerVars, stopVars, issued>>

\* case <-s.inactiveTimer.C, which only alpha has
QuitOnInactivity ==
  /\ pc["alpha"] \in {"inner", "parked"}
  /\ tick /\ tick' = FALSE
  /\ Goto("alpha", "exit")
  /\ UNCHANGED <<homeVars, work, toSend, tryMe, http, orderVars, connVars,
                 armed, stopVars, issued>>

\* Alpha alone reports on notifyDone: received, or given up after a second.
Notify ==
  /\ pc["alpha"] = "exit"
  /\ notified' \in IF skipNotify THEN {notified} ELSE {"received", "lost"}
  /\ Goto("alpha", "cancel")
  /\ UNCHANGED <<homeVars, work, toSend, tryMe, http, orderVars, connVars,
                 timerVars, cancelled, reqStop, skipNotify, monitor, stopper,
                 issued>>

\* CancelAllReq, CloseIdleConnections, close(alphaDone)
AlphaDone ==
  /\ pc["alpha"] = "cancel"
  /\ cancelled' = TRUE
  /\ Goto("alpha", "done")
  /\ UNCHANGED <<homeVars, work, toSend, tryMe, http, orderVars, connVars,
                 timerVars, reqStop, skipNotify, monitor, stopper, notified,
                 issued>>

\* close(betaDone)
BetaDone ==
  /\ pc["beta"] = "exit"
  /\ Goto("beta", "done")
  /\ UNCHANGED <<homeVars, work, toSend, tryMe, http, orderVars, connVars,
                 timerVars, stopVars, issued>>

\* inactiveTimer expires; the value waits in its channel until alpha looks.
\* (Once alpha has left its loop nobody looks any more.)
InactiveTimerFires ==
  /\ "idle" \in Disturbance
  /\ armed
  /\ pc["alpha"] \notin {"exit", "cancel", "done"}
  /\ armed' = FALSE /\ tick' = TRUE
  /\ UNCHANGED <<homeVars, workVars, http, orderVars, connVars, stopVars,
                 issued>>
-----------------------------------------------------------------------------
(***************************************************************************)
(* The monitor and the caller of Stop or StopWithoutReporting.             *)
(***************************************************************************)

\* case <-s.rwReaderDone, case <-s.rwWriterDone: s.rw.StopWithoutNotify()
MonitorSeesHangup ==
  /\ monitor = "watch" /\ rw \in {"readerEnded", "writerEnded"}
  /\ rw' = "stopped" /\ monitor' = "request"
  /\ UNCHANGED <<homeVars, workVars, http, orderVars, read, incoming,
                 delivered, drained, timerVars, cancelled, reqStop,
                 skipNotify, stopper, notified, issued>>

\* s.RequestStop()
MonitorRequestsStop ==
  /\ monitor = "request" /\ monitor' = "leave"
  /\ reqStop' = TRUE
  /\ UNCHANGED <<homeVars, workVars, http, orderVars, connVars, timerVars,
                 cancelled, skipNotify, stopper, notified, issued>>

\* case <-s.reqStop: s.rw.StopWithoutNotify()
MonitorSeesStop ==
  /\ monitor = "watch" /\ reqStop
  /\ rw' = "stopped" /\ monitor' = "leave"
  /\ UNCHANGED <<homeVars, workVars, http, orderVars, read, incoming,
                 delivered, drained, timerVars, cancelled, reqStop,
                 skipNotify, stopper, notified, issued>>

\* close(s.monitorDone)
MonitorDone ==
  /\ monitor = "leave" /\ monitor' = "done"
  /\ UNCHANGED <<homeVars, workVars, http, orderVars, connVars, timerVars,
                 cancelled, reqStop, skipNotify, stopper, notified, issued>>

\* The PelicanSocksProxy calls Stop when it has been notified, or
\* StopWithoutReporting when it shuts down itself.
StopCalled ==
  /\ stopper = "none"
  /\ \/ notified = "received" /\ UNCHANGED skipNotify
     \/ "stop" \in Disturbance /\ notified # "received" /\ skipNotify' = TRUE
  /\ reqStop' = TRUE
  /\ stopper' = "asked"
  /\ UNCHANGED <<homeVars, workVars, http, orderVars, connVars, timerVars,
                 cancelled, monitor, notified, issued>>

\* s.rw.Stop()
StopRw ==
  /\ stopper = "asked"
  /\ rw' = "stopped" /\ stopper' = "rwStopped"
  /\ UNCHANGED <<homeVars, workVars, http, orderVars, read, incoming,
                 delivered, drained, timerVars, cancelled, reqStop,
                 skipNotify, monitor, notified, issued>>

\* <-alphaDone; <-betaDone; <-monitorDone; s.home.Stop(); close(s.Done)
StopHome ==
  /\ stopper = "rwStopped"
  /\ \A r \in Roommate : pc[r] = "done"
  /\ monitor = "done"
  /\ HomeStops
  /\ stopper' = "done"
  /\ UNCHANGED <<workVars, http, orderVars, connVars, timerVars, cancelled,
                 reqStop, skipNotify, monitor, notified, issued>>
-----------------------------------------------------------------------------
(***************************************************************************)
(* ClientRW, seen from the Chaser (ConnRW models it in detail later): the  *)
(* reader puts chunks on incoming, the writer takes replies from           *)
(* repliesHere, either may end on its own.                                 *)
(***************************************************************************)

ReadChunk ==
  /\ rw \in {"open", "writerEnded"}
  /\ read < MaxChunk /\ Len(incoming) < ChanCap
  /\ read' = read + 1
  /\ incoming' = Append(incoming, read + 1)
  /\ UNCHANGED <<homeVars, workVars, http, orderVars, delivered, drained, rw,
                 timerVars, stopVars, issued>>

WriteReply ==
  /\ rw \in {"open", "readerEnded"}
  /\ drained < Len(delivered)
  /\ drained' = drained + 1
  /\ UNCHANGED <<homeVars, workVars, http, orderVars, read, incoming,
                 delivered, rw, timerVars, stopVars, issued>>

Hangup ==
  /\ "hangup" \in Disturbance
  /\ rw = "open"
  /\ rw' \in {"readerEnded", "writerEnded"}
  /\ UNCHANGED <<homeVars, workVars, http, orderVars, read, incoming,
                 delivered, drained, timerVars, stopVars, issued>>
-----------------------------------------------------------------------------
\* The server: an empty reply, or the next chunk under the next serial.
AnswerEmpty(r) ==
  /\ http[r].st = "sent"
  /\ http' = [http EXCEPT ![r] = Reply(NoSerial, NoChunk)]
  /\ UNCHANGED <<homeVars, workVars, orderVars, connVars, timerVars, stopVars,
                 issued>>

AnswerData(r) ==
  /\ http[r].st = "sent"
  /\ issued < MaxReply
  /\ issued' = issued + 1
  /\ http' = [http EXCEPT ![r] = Reply(issued + 1, issued + 1)]
  /\ UNCHANGED <<homeVars, workVars, orderVars, connVars, timerVars, stopVars>>

Quit(r) == QuitOnStop(r) \/ QuitAfterOther(r)

Go(r) ==
  \/ ReadGoNow(r) \/ TakeWork(r) \/ Park(r) \/ LookForWork(r) \/ Depart(r)
  \/ PostRequest(r)
  \/ ReceiveEmpty(r) \/ ReceiveInOrder(r) \/ ReceiveMisordered(r)
  \/ Arrive(r) \/ AddIfPresent(r) \/ NoneToAdd(r) \/ Deliver(r)

Finish == Notify \/ AlphaDone \/ BetaDone
Monitor ==
  MonitorSeesHangup \/ MonitorRequestsStop \/ MonitorSeesStop \/ MonitorDone
Stop == StopRw \/ StopHome
Answer(r) == AnswerEmpty(r) \/ AnswerData(r)

\* Every step of the client half, without the server.
ClientNext ==
  \/ \E r \in Roommate : Go(r) \/ Quit(r) \/ HttpError(r) \/ RequestCancelled(r)
  \/ QuitOnInactivity \/ Finish \/ InactiveTimerFires
  \/ Monitor \/ StopCalled \/ Stop
  \/ ReadChunk \/ WriteReply \/ Hangup

Next == ClientNext \/ \E r \in Roommate : Answer(r)

Spec == Init /\ [][Next]_vars

(***************************************************************************)
(* Fairness.  A goroutine that can run does (weak).  The choice of a       *)
(* select among ready cases is uniformly random, so a case that is ready   *)
(* again and again is taken (strong, on reqStop, the one case that may     *)
(* have to win against another).  An HTTP exchange ends: the server's poll *)
(* timer, or TransportTimeout, sees to it; it shares a line with the       *)
(* roommate, who can do nothing until then.  A caller told by notifyDone   *)
(* calls Stop.  Each step of WindDown happens finitely often, so weak      *)
(* fairness of the disjunction is that of every goroutine in it.  Nothing  *)
(* is assumed of the upstream client, the inactivity timer, the data       *)
(* replies or the disturbances.                                            *)
(***************************************************************************)
WindDown ==
  Finish \/ Monitor \/ Stop \/ WriteReply \/ (StopCalled /\ notified = "received")

Fairness ==
  /\ \A r \in Roommate : /\ WF_vars(Go(r) \/ QuitAfterOther(r) \/ AnswerEmpty(r))
                         /\ SF_vars(QuitOnStop(r))
  /\ WF_vars(WindDown)

FairSpec == Spec /\ Fairness
-----------------------------------------------------------------------------
(***************************************************************************)
(* Properties.                                                             *)
(***************************************************************************)

AtHome == {"top", "inner", "parked", "told", "depart", "merge", "deliver"}
Away   == {"request", "http", "arrive"}
Leaving == {"exit", "cancel", "done"}

Nobody(places) == \A r \in Roommate : pc[r] \notin places

\* What home believes is where the roommates are: a roommate that is in its
\* loop at home is counted as home, one that has a request out is not.  Every
\* decision to open an HTTP request rests on it, and it is kept by two
\* rendezvous per request in two goroutines, with error exits in between.
HomeAgrees ==
  \A r \in Roommate : /\ pc[r] \in AtHome => home[r]
                      /\ pc[r] \in Away => ~home[r]

\* Where reply chunk c is among the sends on repliesHere and what alpha and beta
\* have in hand.
HandedAt(c) ==
  (UNION {{<<"sent", i, k>> : k \in {j \in DOMAIN delivered[i] : delivered[i][j] = c}} :
            i \in DOMAIN delivered})
    \cup (UNION {{<<"held", r, k>> : k \in {j \in DOMAIN toSend[r] : toSend[r][j] = c}} :
                   r \in Roommate})

\* A reply reaches the upstream client at most once, although it may be
\* stored as misordered by one goroutine and replayed by the other.
EachReplyOnce == \A c \in ReplyChunk : \A p, q \in HandedAt(c) : p = q

\* A reply with data is not lost: as long as neither goroutine has given up,
\* every chunk the server has sent is on its way back, in hand, or delivered.
ReplyNotLost ==
  Nobody(Leaving) =>
    \A c \in 1..issued :
      HandedAt(c) # {} \/ \E r \in Roommate : http[r].st = "replied" /\ http[r].body = c

InHand(r) == IF work[r] = NoChunk THEN 0 ELSE 1

\* What the client wrote is not lost on its way out: as long as neither goroutine
\* has given up, every chunk that was read is in the channel, in the hand of
\* one roommate, whichever of its two selects took it, or posted under a serial.
WorkNotLost ==
  Nobody(Leaving) =>
    read = Len(incoming) + InHand("alpha") + InHand("beta")
             + nextSendSerialNumber - 1

\* A tie sends alpha out: alpha does not stay blocked at home while home
\* counts both as home.  Stated by the story in front of the Chaser struct.
TieSendsAlpha ==
  ~ (pc["alpha"] = "parked" /\ home["alpha"] /\ home["beta"])

\* The serial numbers of the requests put the chunks in the order in which they
\* were read from the upstream client.  Stated by the comment on requestSerial;
\* the server sends in the order of these numbers.
SerialsNumberTheStream ==
  \A r \in Roommate :
    http[r].st = "sent" /\ http[r].body # NoChunk => http[r].ser = http[r].body

\* Once Stop or StopWithoutReporting has been called it returns, wherever the
\* two goroutines are by then (a request out, a reply that the full channel
\* does not take) and whatever state the upstream connection is in.
StopReturnsEventually == (stopper = "asked") ~> (stopper = "done")

\* When one of the two goroutines ends, for whatever reason, the other one
\* ends too, even if nobody calls Stop (the notification may be lost).
PartnersEndTogether ==
  (\E r \in Roommate : pc[r] = "done") ~> (\A r \in Roommate : pc[r] = "done")
=============================================================================

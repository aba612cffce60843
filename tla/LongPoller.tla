----------------------------- MODULE LongPoller -----------------------------
(***************************************************************************)
(* The server half of one tunnel (tun/longpoll.go): the goroutine of       *)
(* LongPoller.Start, its FIFO of parked requests (tun/fifo.go), its poll   *)
(* timer, and the two ServerRW channels to and from the connection to the  *)
(* downstream server.                                                      *)
(*                                                                         *)
(*   "top"       top of the loop, about to evaluate the channels           *)
(*   "select"    in the select                                             *)
(*   "coalesce"  collecting stored requests that follow the one received   *)
(*   "send"      select SendToDownCh | reqStop                             *)
(*   "blocked"   the same with a channel that is nil: only reqStop helps   *)
(*   "conclude"  reply at once, or keep the request parked                 *)
(*   "stopped"   returned after finish                                     *)
(*   "panicked"  the goroutine, and with it the process, has panicked      *)
(*                                                                         *)
(* countForUpstream is not a variable: it is zero whenever the goroutine   *)
(* is at one of these places, because sendReplyUpstream follows each write *)
(* of reply bytes and the fast wait is configured to be 0.                 *)
(***************************************************************************)
EXTENDS Wire, Sequences

CONSTANTS
  MaxChunk,     \* chunks the client posts (bound)
  MaxDown,      \* chunks the downstream server sends (bound)
  ChanCap,      \* capacity of the ServerRW channels, 1000 in the code
  Disturbance   \* what may go wrong: a subset of AnyDisturbance

AnyDisturbance == {"eof", "writerEnds", "clientGone", "stop", "closeKey"}

ASSUME PollerAssumption ==
  /\ MaxChunk \in Nat /\ MaxDown \in Nat
  /\ ChanCap \in Nat \ {0}
  /\ Disturbance \subseteq AnyDisturbance

VARIABLES
  http,                       \* http[r]: the exchange on the socket of r
  pc,
  lastRequestSerialNumberSeen,
  misorderedRequests,         \* serial number -> body
  waiters,                    \* parked requests, newest first
  writeMe,                    \* the bodies that go downstream next
  nextReplySerial,
  armed, tick,                \* longPollTimeUp: running, value in its channel
  listening,                  \* the select has the downstream channel, not nil
  sent, queued,               \* bodies sent on SendToDownCh, buffers in it
  writerUp,
  readDown, fromDown,         \* chunks read so far, the RecvFromDownCh channel
  readerUp,
  reqStop, closeKey,
  posted                      \* serial numbers the client has used

orderVars == <<lastRequestSerialNumberSeen, misorderedRequests, writeMe>>
timerVars == <<armed, tick>>
upVars    == <<sent, queued, writerUp>>
downVars  == <<readDown, fromDown, readerUp>>
stopVars  == <<reqStop, closeKey>>
vars == <<http, pc, orderVars, waiters, nextReplySerial, timerVars, listening,
          upVars, downVars, stopVars, posted>>

Chunk == 1..MaxChunk

Alive == pc \notin {"stopped", "panicked"}

TypeOK ==
  /\ http \in [Roommate -> Exchange(Nat)]
  /\ pc \in {"top", "select", "coalesce", "send", "blocked", "conclude",
             "stopped", "panicked"}
  /\ lastRequestSerialNumberSeen \in Nat
  /\ DOMAIN misorderedRequests \subseteq Nat
  /\ \A n \in DOMAIN misorderedRequests : misorderedRequests[n] \in Nat
  /\ waiters \in Seq(Roommate)
  /\ writeMe \in Seq(Nat)
  /\ nextReplySerial \in Nat \ {0}
  /\ armed \in BOOLEAN /\ tick \in BOOLEAN /\ listening \in BOOLEAN
  /\ sent \in Seq(Nat)
  /\ queued \in 0..ChanCap
  /\ writerUp \in BOOLEAN /\ readerUp \in BOOLEAN
  /\ readDown \in Nat
  /\ fromDown \in Seq(Nat)
  /\ reqStop \in BOOLEAN /\ closeKey \in BOOLEAN
  /\ posted \in Nat

Init ==
  /\ http = [r \in Roommate |-> Idle]
  /\ pc = "top"
  /\ lastRequestSerialNumberSeen = 0
  /\ misorderedRequests = <<>>
  /\ waiters = <<>>
  /\ writeMe = <<>>
  /\ nextReplySerial = 1
  /\ armed = TRUE /\ tick = FALSE
  /\ listening = FALSE
  /\ sent = <<>> /\ queued = 0 /\ writerUp = TRUE
  /\ readDown = 0 /\ fromDown = <<>> /\ readerUp = TRUE
  /\ reqStop = FALSE /\ closeKey = FALSE
  /\ posted = 0
-----------------------------------------------------------------------------
(***************************************************************************)
(* The request FIFO, the timer, and sendReplyUpstream.                     *)
(***************************************************************************)

PushLeft(r) == <<r>> \o waiters
PeekRight == waiters[Len(waiters)]

\* Mutated AfterPopRight: the other end goes.
AfterPopLeft == SubSeq(waiters, 2, Len(waiters))

AfterPopRight == SubSeq(waiters, 1, Len(waiters) - 1)

\* Mutated ResetTimer: the timer goes on from the request before.
KeepTimer == UNCHANGED timerVars

\* longPollTimeUp.Reset: runs again, a value in its channel stays there.
ResetTimer == armed' = TRUE /\ UNCHANGED tick

\* Mutated TimerAfterReply: stopped whoever still waits.
StopTimer == FALSE

\* if waiters.Empty() { longPollTimeUp.Stop() }
TimerAfterReply == armed /\ Len(waiters) > 1

\* Mutated Numbered: empty replies use up serial numbers too.
AlwaysNumbered(body) == TRUE

\* A reply gets a serial number only if countForUpstream > 0.
Numbered(body) == body # NoChunk

\* sendReplyUpstream: the oldest waiter is answered.  If its client is gone
\* the answer goes nowhere.
sendReplyUpstream(body) ==
  /\ waiters # <<>>
  /\ http' =
       IF http[PeekRight].st = "gone" THEN http
       ELSE [http EXCEPT ![PeekRight] =
               Reply(IF Numbered(body) THEN nextReplySerial ELSE NoSerial, body)]
  /\ nextReplySerial' =
       IF Numbered(body) THEN nextReplySerial + 1 ELSE nextReplySerial
  /\ waiters' = AfterPopRight
  /\ armed' = TimerAfterReply
-----------------------------------------------------------------------------
(***************************************************************************)
(* The loop: what comes from the timer and from downstream.                *)
(***************************************************************************)

\* Evaluate the operands of the select.  RecvFromDownCh() is asked only if
\* somebody waits, and is nil once the reader has been stopped or is done.
EnterSelect ==
  /\ pc = "top"
  /\ listening' = (waiters # <<>> /\ readerUp)
  /\ pc' = "select"
  /\ UNCHANGED <<http, orderVars, waiters, nextReplySerial, timerVars, upVars,
                 downVars, stopVars, posted>>

\* case <-longPollTimeUp.C
PollTimeUp ==
  /\ pc = "select" /\ tick
  /\ tick' = FALSE
  /\ IF waiters = <<>>
       THEN UNCHANGED <<http, nextReplySerial, waiters, armed>>
       ELSE sendReplyUpstream(NoChunk)
  /\ pc' = "top" /\ listening' = FALSE
  /\ UNCHANGED <<orderVars, upVars, downVars, stopVars, posted>>

\* case b500 := <-RecvFromDownCh(): write it to the oldest waiter and reply.
ReplyFromDownstream ==
  /\ pc = "select" /\ listening /\ fromDown # <<>>
  /\ sendReplyUpstream(Head(fromDown))
  /\ fromDown' = Tail(fromDown)
  /\ pc' = "top" /\ listening' = FALSE
  /\ UNCHANGED <<orderVars, tick, upVars, readDown, readerUp, stopVars, posted>>

\* The same, but resp.Write fails because the client is gone.
WriteFails ==
  /\ pc = "select" /\ listening /\ fromDown # <<>>
  /\ http[PeekRight].st = "gone"
  /\ fromDown' = Tail(fromDown)
  /\ pc' = "panicked"
  /\ UNCHANGED <<http, orderVars, waiters, nextReplySerial, timerVars,
                 listening, upVars, readDown, readerUp, stopVars, posted>>
-----------------------------------------------------------------------------
(***************************************************************************)
(* The loop: a packet from the client.                                     *)
(***************************************************************************)

\* case pack = <-s.ClientPacketRecvd, as far as every packet goes.  The muxer
\* hands over the packet: it calls Stop only after it has left its loop, and
\* knows the tunnel no longer once it has closed its key.
TakePacket(r) ==
  /\ pc = "select" /\ ~reqStop /\ ~closeKey
  /\ http[r].st = "sent"
  /\ http' = [http EXCEPT ![r] = Held(@)]
  /\ waiters' = PushLeft(r)
  /\ ResetTimer
  /\ listening' = FALSE
  /\ UNCHANGED <<nextReplySerial, upVars, downVars, stopVars, posted>>

\* Mutated OutOfTurn: any request that is newer than the last one is in turn.
FromThePast(ser) == ser <= lastRequestSerialNumberSeen

OutOfTurn(ser) == ser # lastRequestSerialNumberSeen + 1

\* Mutated SeenBefore: the comparison is turned round.
SeenAhead(ser) ==
  ser \in DOMAIN misorderedRequests \/ ser > lastRequestSerialNumberSeen

\* The sanity checks on a request that is out of turn: it panics if they hold.
SeenBefore(ser) ==
  ser \in DOMAIN misorderedRequests \/ ser < lastRequestSerialNumberSeen

ReceiveEmpty(r) ==
  /\ TakePacket(r)
  /\ http[r].ser = NoSerial
  /\ pc' = "conclude"
  /\ UNCHANGED orderVars

ReceiveInOrder(r) ==
  /\ TakePacket(r)
  /\ http[r].ser # NoSerial /\ ~OutOfTurn(http[r].ser)
  /\ lastRequestSerialNumberSeen' = http[r].ser
  /\ writeMe' = <<http[r].body>>
  /\ pc' = "coalesce"
  /\ UNCHANGED misorderedRequests

\* Out of turn: keep the body for later, but park the request all the same.
ReceiveMisordered(r) ==
  /\ TakePacket(r)
  /\ http[r].ser # NoSerial /\ OutOfTurn(http[r].ser)
  /\ IF SeenBefore(http[r].ser)
       THEN pc' = "panicked" /\ UNCHANGED misorderedRequests
       ELSE /\ misorderedRequests' =
                 [n \in DOMAIN misorderedRequests \cup {http[r].ser} |->
                    IF n = http[r].ser THEN http[r].body
                                       ELSE misorderedRequests[n]]
            /\ pc' = "conclude"
  /\ UNCHANGED <<lastRequestSerialNumberSeen, writeMe>>

\* Mutated NextStored: looks for the packet itself, never for its successor.
SameStored == lastRequestSerialNumberSeen \in DOMAIN misorderedRequests

NextStored == lastRequestSerialNumberSeen + 1 \in DOMAIN misorderedRequests

\* Mutated RestStored: the request that has been used stays in the map.
AllStored(lookFor) == misorderedRequests

\* delete(misorderedRequests, lookFor)
RestStored(lookFor) ==
  [n \in DOMAIN misorderedRequests \ {lookFor} |-> misorderedRequests[n]]

\* One round of the lookFor loop.
Coalesce ==
  /\ pc = "coalesce" /\ NextStored
  /\ LET lookFor == lastRequestSerialNumberSeen + 1 IN
     /\ writeMe' = Append(writeMe, misorderedRequests[lookFor])
     /\ misorderedRequests' = RestStored(lookFor)
     /\ lastRequestSerialNumberSeen' = lookFor
  /\ UNCHANGED <<http, pc, waiters, nextReplySerial, timerVars, listening,
                 upVars, downVars, stopVars, posted>>

\* The operands of the next select: SendToDownCh() is nil once the writer has
\* been stopped or is done.
CoalesceEnds ==
  /\ pc = "coalesce" /\ ~NextStored
  /\ pc' = IF writerUp THEN "send" ELSE "blocked"
  /\ UNCHANGED <<http, orderVars, waiters, nextReplySerial, timerVars,
                 listening, upVars, downVars, stopVars, posted>>

\* Mutated HasRoom: one too many.
HasRoomForMore == queued <= ChanCap

HasRoom == queued < ChanCap

\* case SendToDownCh() <- writeMe
SendDownstream ==
  /\ pc = "send" /\ HasRoom
  /\ sent' = sent \o writeMe
  /\ queued' = queued + 1
  /\ writeMe' = <<>>
  /\ pc' = "conclude"
  /\ UNCHANGED <<http, lastRequestSerialNumberSeen, misorderedRequests,
                 waiters, nextReplySerial, timerVars, listening, writerUp,
                 downVars, stopVars, posted>>

\* case <-s.reqStop, not returning: the bytes are dropped.
SendAbandoned ==
  /\ pc \in {"send", "blocked"} /\ reqStop
  /\ writeMe' = <<>>
  /\ pc' = "conclude"
  /\ UNCHANGED <<http, lastRequestSerialNumberSeen, misorderedRequests,
                 waiters, nextReplySerial, timerVars, listening, upVars,
                 downVars, stopVars, posted>>

\* Mutated MustReply: two may stay parked.
MustReplyToThird == Len(waiters) > 2

\* countForUpstream > 0 || waiters.Len() > 1
MustReply == Len(waiters) > 1

Conclude ==
  /\ pc = "conclude"
  /\ IF MustReply
       THEN sendReplyUpstream(NoChunk)
       ELSE UNCHANGED <<http, nextReplySerial, waiters, armed>>
  /\ pc' = "top"
  /\ UNCHANGED <<orderVars, tick, listening, upVars, downVars, stopVars, posted>>
-----------------------------------------------------------------------------
(***************************************************************************)
(* The ways out.                                                           *)
(***************************************************************************)

\* case <-s.reqStop: finish() stops the rw and closes Done.
QuitOnStop ==
  /\ pc = "select" /\ reqStop
  /\ pc' = "stopped" /\ readerUp' = FALSE /\ writerUp' = FALSE
  /\ UNCHANGED <<http, orderVars, waiters, nextReplySerial, timerVars,
                 listening, sent, queued, readDown, fromDown, stopVars, posted>>

\* case <-s.CloseKeyChan: done is closed for every waiter, and then PopRight
\* is called on the empty FIFO, where q[:n-1] is out of range.  Whether the
\* answers still get out of the dying process is open.
CloseAll ==
  /\ pc = "select" /\ closeKey
  /\ http' \in {http,
                [r \in Roommate |->
                   IF http[r].st = "parked" THEN Reply(NoSerial, NoChunk)
                                            ELSE http[r]]}
  /\ waiters' = <<>>
  /\ pc' = "panicked"
  /\ UNCHANGED <<orderVars, nextReplySerial, timerVars, listening, upVars,
                 downVars, stopVars, posted>>

\* ReverseProxy.finish calls Stop, on the tunnels that are still in its map.
StopRequested ==
  /\ "stop" \in Disturbance
  /\ Alive /\ ~closeKey /\ ~reqStop
  /\ reqStop' = TRUE
  /\ UNCHANGED <<http, pc, orderVars, waiters, nextReplySerial, timerVars,
                 listening, upVars, downVars, closeKey, posted>>

\* The muxer closes CloseKeyChan and forgets the tunnel.
CloseKeyRequested ==
  /\ "closeKey" \in Disturbance
  /\ Alive /\ ~closeKey /\ ~reqStop
  /\ closeKey' = TRUE
  /\ UNCHANGED <<http, pc, orderVars, waiters, nextReplySerial, timerVars,
                 listening, upVars, downVars, reqStop, posted>>
-----------------------------------------------------------------------------
(***************************************************************************)
(* The timer and the ServerRW goroutines, which the loop shares channels   *)
(* with.                                                                   *)
(***************************************************************************)

TimerFires ==
  /\ Alive /\ armed
  /\ armed' = FALSE /\ tick' = TRUE
  /\ UNCHANGED <<http, pc, orderVars, waiters, nextReplySerial, listening,
                 upVars, downVars, stopVars, posted>>

WriterTakes ==
  /\ Alive /\ writerUp /\ queued > 0
  /\ queued' = queued - 1
  /\ UNCHANGED <<http, pc, orderVars, waiters, nextReplySerial, timerVars,
                 listening, sent, writerUp, downVars, stopVars, posted>>

WriterEnds ==
  /\ "writerEnds" \in Disturbance
  /\ Alive /\ writerUp /\ writerUp' = FALSE
  /\ UNCHANGED <<http, pc, orderVars, waiters, nextReplySerial, timerVars,
                 listening, sent, queued, downVars, stopVars, posted>>

ReaderReads ==
  /\ Alive /\ readerUp /\ readDown < MaxDown /\ Len(fromDown) < ChanCap
  /\ readDown' = readDown + 1
  /\ fromDown' = Append(fromDown, readDown + 1)
  /\ UNCHANGED <<http, pc, orderVars, waiters, nextReplySerial, timerVars,
                 listening, upVars, readerUp, stopVars, posted>>

ReaderEnds ==
  /\ "eof" \in Disturbance
  /\ Alive /\ readerUp /\ readerUp' = FALSE
  /\ UNCHANGED <<http, pc, orderVars, waiters, nextReplySerial, timerVars,
                 listening, upVars, readDown, fromDown, stopVars, posted>>
-----------------------------------------------------------------------------
(***************************************************************************)
(* The client: a most general one that numbers its requests as the Chaser  *)
(* does, on two sockets whose requests overtake each other.  A chunk is    *)
(* named here by the serial number it was given.                           *)
(***************************************************************************)

PostEmpty(r) ==
  /\ Alive /\ http[r].st = "idle"
  /\ http' = [http EXCEPT ![r] = Request(NoSerial, NoChunk)]
  /\ UNCHANGED <<pc, orderVars, waiters, nextReplySerial, timerVars,
                 listening, upVars, downVars, stopVars, posted>>

PostChunk(r) ==
  /\ Alive /\ http[r].st = "idle" /\ posted < MaxChunk
  /\ posted' = posted + 1
  /\ http' = [http EXCEPT ![r] = Request(posted + 1, posted + 1)]
  /\ UNCHANGED <<pc, orderVars, waiters, nextReplySerial, timerVars,
                 listening, upVars, downVars, stopVars>>

TakeReply(r) ==
  /\ http[r].st = "replied"
  /\ http' = [http EXCEPT ![r] = Idle]
  /\ UNCHANGED <<pc, orderVars, waiters, nextReplySerial, timerVars,
                 listening, upVars, downVars, stopVars, posted>>

\* TransportTimeout or CancelAllReq while the request is parked.
ClientGivesUp(r) ==
  /\ "clientGone" \in Disturbance
  /\ http[r].st = "parked"
  /\ http' = [http EXCEPT ![r] = Gone]
  /\ UNCHANGED <<pc, orderVars, waiters, nextReplySerial, timerVars,
                 listening, upVars, downVars, stopVars, posted>>
-----------------------------------------------------------------------------
Receive(r) == ReceiveEmpty(r) \/ ReceiveInOrder(r) \/ ReceiveMisordered(r)

Loop ==
  \/ EnterSelect \/ PollTimeUp \/ ReplyFromDownstream \/ WriteFails
  \/ Coalesce \/ CoalesceEnds \/ SendDownstream \/ SendAbandoned \/ Conclude
  \/ QuitOnStop \/ CloseAll

\* Every step of the server half, without the client.
ServerNext ==
  \/ Loop \/ \E r \in Roommate : Receive(r)
  \/ StopRequested \/ CloseKeyRequested
  \/ TimerFires \/ WriterTakes \/ WriterEnds \/ ReaderReads \/ ReaderEnds

ClientNext ==
  \E r \in Roommate :
    PostEmpty(r) \/ PostChunk(r) \/ TakeReply(r) \/ ClientGivesUp(r)

Next == ServerNext \/ ClientNext

Spec == Init /\ [][Next]_vars

(***************************************************************************)
(* Fairness.  The goroutine runs, its timer fires, the writer writes.  A   *)
(* packet that is handed over gets its turn (strong: the muxer blocks on   *)
(* an unbuffered channel, and the select among ready cases is random).     *)
(* Nothing is assumed of the client and the downstream server.             *)
(***************************************************************************)
Fairness ==
  /\ WF_vars(Loop)
  /\ \A r \in Roommate : SF_vars(Receive(r))
  /\ WF_vars(TimerFires) /\ WF_vars(WriterTakes)

FairSpec == Spec /\ Fairness
-----------------------------------------------------------------------------
(***************************************************************************)
(* Properties.                                                             *)
(***************************************************************************)

Waiting(states) == {r \in Roommate : http[r].st \in states}
Waiters == {waiters[i] : i \in 1..Len(waiters)}

\* The downstream server gets the chunks in the order in which the client
\* numbered them, none twice and none left out, although the two sockets race:
\* what is on its way to it is the prefix up to lastRequestSerialNumberSeen.
DownstreamInOrder ==
  /\ \A i \in 1..Len(sent) : sent[i] = i
  /\ ~reqStop =>
       /\ Len(sent) + Len(writeMe) = lastRequestSerialNumberSeen
       /\ \A i \in 1..Len(writeMe) : writeMe[i] = Len(sent) + i

\* A request that came out of turn is kept only as long as its turn is still
\* to come, and with its own body.
StoredIsAhead ==
  \A n \in DOMAIN misorderedRequests :
    n > lastRequestSerialNumberSeen /\ misorderedRequests[n] = n

\* The FIFO holds the requests that wait for an answer, each once: no handler
\* waits on a packet the poller forgot, none is answered twice.
WaitersAreParked ==
  Alive =>
    /\ Waiting({"parked"}) \subseteq Waiters
    /\ Waiters \subseteq Waiting({"parked", "gone"})
    /\ \A i, j \in 1..Len(waiters) : waiters[i] = waiters[j] => i = j

\* When the goroutine is ready for the next event it holds at most one
\* request: the other socket is always free for the client to send on.
AtMostOneHeld == pc \in {"top", "select"} => Len(waiters) <= 1

\* While a request is parked the poll timer is running, or its value is
\* waiting to be read: Stop and Reset never leave a waiter without a timer.
TimerCoversWaiter == waiters # <<>> /\ Alive => armed \/ tick

\* Replies with data are numbered without gaps in the order in which the data
\* was read from the downstream server.
RepliesNumberTheStream ==
  /\ \A r \in Roommate :
       http[r].st = "replied" /\ http[r].body # NoChunk =>
         http[r].ser = http[r].body
  /\ \A i \in 1..Len(fromDown) :
       pc # "panicked" => fromDown[i] = nextReplySerial - 1 + i

\* The sanity checks on serial numbers never fire: the process panics only if
\* a key is closed or a client has gone while its request was parked.
PanicHasCause ==
  pc = "panicked" => closeKey \/ \E r \in Roommate : http[r].st = "gone"

\* Data that was read from the downstream server can be sent to a client that
\* waits for it: the poller listens to the channel that buffers it.
BufferedDataReachable ==
  pc = "select" /\ waiters # <<>> /\ fromDown # <<>> => listening

\* A request is answered, unless the poller ends or the connection to the
\* downstream server cannot be written to any more.
RequestAnswered ==
  \A r \in Roommate :
    http[r].st \in {"sent", "parked"} ~>
      (http[r].st \notin {"sent", "parked"} \/ ~writerUp \/ reqStop
         \/ closeKey \/ pc = "panicked")

\* Every chunk that was posted is sent on to the downstream server, however late
\* the requests before it arrive: what is sent catches up with what is posted.
ChunkArrives ==
  posted > Len(sent)
    ~> (posted = Len(sent) \/ ~writerUp \/ reqStop \/ closeKey \/ pc = "panicked")
=============================================================================

---------------------------- MODULE ChaserProofs ----------------------------
(***************************************************************************)
(* The safety properties of Chaser, for any number of chunks and replies,  *)
(* capacity of the channels and set of disturbances: types, that home      *)
(* knows where the roommates are, that each reply is handed on once, and   *)
(* that no chunk from upstream is lost.                                    *)
(***************************************************************************)
EXTENDS Chaser, SequenceTheorems, TLAPS

(***************************************************************************)
(* What the properties need to be inductive.                               *)
(***************************************************************************)

\* A reply on its way back carries a chunk that the server has issued, under
\* that chunk's number, or nothing.
RepliesNumbered ==
  \A r \in Roommate :
    http[r].st = "replied" =>
      /\ http[r].body \in 0..issued
      /\ http[r].ser = IF http[r].body = NoChunk THEN NoSerial ELSE http[r].body

Typed == TypeOK /\ RepliesNumbered
-----------------------------------------------------------------------------
(***************************************************************************)
(* Types.  TypeOK in three parts: positions and flags; the upstream        *)
(* connection; exchanges, numbers and replies.                             *)
(***************************************************************************)

TypeFlags ==
  /\ HomeTypeOK
  /\ rw \in {"open", "readerEnded", "writerEnded", "stopped"}
  /\ armed \in BOOLEAN /\ tick \in BOOLEAN /\ cancelled \in BOOLEAN
  /\ reqStop \in BOOLEAN /\ skipNotify \in BOOLEAN
  /\ monitor \in {"watch", "request", "leave", "done"}
  /\ stopper \in {"none", "asked", "rwStopped", "done"}
  /\ notified \in {"no", "received", "lost"}

TypeControl == TypeFlags /\ pc \in [Roommate -> Place]

TypeConn ==
  /\ work \in [Roommate -> Chunk \cup {NoChunk}]
  /\ read \in Chunk \cup {0}
  /\ incoming \in Seq(Chunk) /\ Len(incoming) <= ChanCap

TypeReplies ==
  /\ toSend \in [Roommate -> Seq(ReplyChunk)]
  /\ tryMe \in [Roommate -> Nat]
  /\ http \in [Roommate -> Exchange(Nat)]
  /\ nextSendSerialNumber \in Nat \ {0}
  /\ lastRecvSerialNumberSeen \in Nat
  /\ DOMAIN misorderedReplies \subseteq ReplyChunk
  /\ \A n \in DOMAIN misorderedReplies : misorderedReplies[n] \in Seq(ReplyChunk)
  /\ delivered \in Seq(Seq(ReplyChunk))
  /\ drained \in 0..Len(delivered) /\ Len(delivered) - drained <= ChanCap
  /\ issued \in ReplyChunk \cup {0}
  /\ RepliesNumbered

LEMMA TypedParts == Typed <=> TypeControl /\ TypeConn /\ TypeReplies
  BY DEF Typed, TypeOK, TypeFlags, TypeControl, TypeConn, TypeReplies

LEMMA TypedPartsNext == Typed' <=> TypeControl' /\ TypeConn' /\ TypeReplies'
  BY DEF Typed, TypeOK, TypeFlags, TypeControl, TypeConn, TypeReplies

LEMMA TypeInit == Init => Typed
  <1> SUFFICES ASSUME Init PROVE Typed
    OBVIOUS
  <1>1. TypeControl
    BY DEF Init, TypeFlags, TypeControl, HomeInit, HomeTypeOK, Place
  <1>2. TypeConn
    BY ChaserAssumption DEF Init, TypeConn, NoChunk
  <1>3. TypeReplies
    <2>1. Idle \in Exchange(Nat)
      BY DEF Idle, Exchange, NoSerial, NoChunk
    <2> QED
      BY <2>1, ChaserAssumption DEF Init, TypeReplies, RepliesNumbered, Idle
  <1> QED
    BY <1>1, <1>2, <1>3, TypedParts

\* A goroutine goes from a place to a place.
LEMMA GotoPlace ==
  ASSUME pc \in [Roommate -> Place], NEW r, NEW place \in Place, Goto(r, place)
  PROVE  pc' \in [Roommate -> Place]
  BY DEF Goto

\* Every step leaves each roommate at a place.
LEMMA PlaceStep ==
  ASSUME pc \in [Roommate -> Place], [Next]_vars
  PROVE  pc' \in [Roommate -> Place]
  <1>1. \A place \in {"inner", "parked", "depart", "request", "http", "arrive",
                      "deliver", "top", "exit", "cancel", "done"} : place \in Place
    BY DEF Place
  <1>2. ASSUME NEW r \in Roommate, Go(r) PROVE pc' \in [Roommate -> Place]
    <2>1. CASE ReadGoNow(r) \/ TakeWork(r) \/ Park(r) \/ LookForWork(r)
      BY <1>1, <2>1, GotoPlace DEF ReadGoNow, TakeWork, Park, LookForWork
    <2>2. CASE Depart(r) \/ PostRequest(r)
      BY <1>1, <2>2, GotoPlace DEF Depart, PostRequest
    <2>3. CASE ReceiveEmpty(r) \/ ReceiveInOrder(r) \/ ReceiveMisordered(r)
      BY <1>1, <2>3, GotoPlace
      DEF ReceiveEmpty, ReceiveInOrder, ReceiveMisordered, Receive
    <2>4. CASE Arrive(r)
      BY <2>4 DEF Arrive, Place
    <2>5. CASE NoneToAdd(r) \/ Deliver(r)
      BY <1>1, <2>5, GotoPlace DEF NoneToAdd, Deliver
    <2>6. CASE AddIfPresent(r)
      BY <2>6 DEF AddIfPresent
    <2> QED
      BY <1>2, <2>1, <2>2, <2>3, <2>4, <2>5, <2>6 DEF Go
  <1>3. ASSUME NEW r \in Roommate, Quit(r) \/ HttpError(r) \/ RequestCancelled(r)
        PROVE  pc' \in [Roommate -> Place]
    BY <1>1, <1>3, GotoPlace DEF Quit, QuitOnStop, QuitAfterOther, HttpError,
       RequestCancelled, FailRequest
  <1>4. CASE QuitOnInactivity \/ Finish
    BY <1>1, <1>4, GotoPlace DEF QuitOnInactivity, Finish, Notify, AlphaDone, BetaDone
  <1>5. CASE UNCHANGED pc
    BY <1>5
  <1> QED
    BY <1>2, <1>3, <1>4, <1>5
    DEF Next, ClientNext, InactiveTimerFires, Monitor, MonitorSeesHangup,
        MonitorRequestsStop, MonitorSeesStop, MonitorDone, StopCalled,
        Stop, StopRw, StopHome, ReadChunk, WriteReply, Hangup,
        Answer, AnswerEmpty, AnswerData, workVars, vars

\* Every step keeps the types of flags.
LEMMA FlagStep == TypeFlags /\ [Next]_vars => TypeFlags'
  <1> SUFFICES ASSUME TypeFlags, [Next]_vars PROVE TypeFlags'
    OBVIOUS
  <1> DEFINE flags == <<homeVars, rw, timerVars, stopVars>>
  <1>0. homeVars' = homeVars => HomeTypeOK'
    BY DEF TypeFlags, HomeTypeOK, homeVars
  <1>1. CASE UNCHANGED flags
    BY <1>1, <1>0 DEF TypeFlags, timerVars, stopVars
  <1>2. ASSUME NEW r \in Roommate, Depart(r) \/ Arrive(r) PROVE TypeFlags'
    <2>1. HomeTypeOK'
      <3>1. /\ \E b \in BOOLEAN : home' = [home EXCEPT ![r] = b]
            /\ goCached' = shouldGo(home') /\ homeUp' = homeUp
        BY <1>2, Zenon DEF Depart, Departs, Arrive, Arrives
      <3>2. shouldGo(home') \in [Roommate -> BOOLEAN]
        BY DEF shouldGo
      <3> QED
        BY <3>1, <3>2 DEF TypeFlags, HomeTypeOK
    <2>2. armed' \in BOOLEAN /\ tick' = tick
      BY <1>2 DEF TypeFlags, Depart, Arrive, ResetActiveTimer, timerVars
    <2>3. UNCHANGED <<rw, stopVars>>
      BY <1>2 DEF Depart, Arrive, connVars
    <2> QED
      BY <2>1, <2>2, <2>3 DEF TypeFlags, stopVars
  <1>3. ASSUME NEW r \in Roommate, RequestCancelled(r) PROVE TypeFlags'
    BY <1>3, <1>0 DEF TypeFlags, RequestCancelled, FailRequest, timerVars, connVars
  <1>4. CASE QuitOnInactivity
    <2>1. tick' = FALSE /\ UNCHANGED <<homeVars, armed, stopVars, rw>>
      BY <1>4 DEF QuitOnInactivity, connVars
    <2> QED
      BY <2>1, <1>0 DEF TypeFlags, stopVars
  <1>5. CASE Notify
    BY <1>5, <1>0 DEF TypeFlags, Notify, timerVars, connVars
  <1>6. CASE AlphaDone
    BY <1>6, <1>0 DEF TypeFlags, AlphaDone, timerVars, connVars
  <1>7. CASE InactiveTimerFires
    BY <1>7, <1>0 DEF TypeFlags, InactiveTimerFires, stopVars, connVars
  <1>8. CASE MonitorSeesHangup
    BY <1>8, <1>0 DEF TypeFlags, MonitorSeesHangup, timerVars
  <1>9. CASE MonitorSeesStop
    BY <1>9, <1>0 DEF TypeFlags, MonitorSeesStop, timerVars
  <1>10. CASE StopCalled
    BY <1>10, <1>0 DEF TypeFlags, StopCalled, timerVars, connVars
  <1>11. CASE StopRw
    BY <1>11, <1>0 DEF TypeFlags, StopRw, timerVars
  <1>12. CASE StopHome
    BY <1>12 DEF TypeFlags, HomeTypeOK, StopHome, HomeStops, timerVars, connVars
  <1>13. CASE Hangup
    BY <1>13, <1>0 DEF TypeFlags, Hangup, timerVars, stopVars
  <1>14. CASE MonitorRequestsStop
    BY <1>14, <1>0 DEF TypeFlags, MonitorRequestsStop, timerVars, connVars
  <1>15. CASE MonitorDone
    BY <1>15, <1>0 DEF TypeFlags, MonitorDone, timerVars, connVars
  <1> QED
    <2>1. ASSUME NEW r \in Roommate, Go(r) PROVE TypeFlags'
      BY <2>1, <1>1, <1>2
      DEF Go, ReadGoNow, TakeWork, Park, LookForWork, PostRequest, ReceiveEmpty,
          ReceiveInOrder, ReceiveMisordered, Receive, AddIfPresent, NoneToAdd,
          Deliver, connVars
    <2>2. ASSUME NEW r \in Roommate, Quit(r) \/ HttpError(r) \/ Answer(r)
          PROVE  TypeFlags'
      BY <2>2, <1>1
      DEF Quit, QuitOnStop, QuitAfterOther, HttpError, FailRequest, stopVars,
          Answer, AnswerEmpty, AnswerData, connVars
    <2>3. CASE BetaDone \/ ReadChunk \/ WriteReply
      BY <2>3, <1>1 DEF BetaDone, ReadChunk, WriteReply, connVars
    <2> QED
      BY <2>1, <2>2, <2>3, <1>1, <1>3, <1>4, <1>5, <1>6, <1>7, <1>8, <1>9,
         <1>10, <1>11, <1>12, <1>13, <1>14, <1>15
      DEF Next, ClientNext, Finish, Monitor, Stop, connVars, vars

LEMMA ControlStep == TypeControl /\ [Next]_vars => TypeControl'
  BY PlaceStep, FlagStep DEF TypeControl

\* Every step keeps the types of what comes from the upstream connection.
LEMMA ConnStep == TypeConn /\ [Next]_vars => TypeConn'
  <1> SUFFICES ASSUME TypeConn, [Next]_vars PROVE TypeConn'
    OBVIOUS
  <1> USE ChaserAssumption DEF TypeConn, Chunk, NoChunk
  <1>1. ASSUME NEW r \in Roommate, TakeWork(r) PROVE TypeConn'
    <2>1. /\ Head(incoming) \in Chunk /\ Tail(incoming) \in Seq(Chunk)
          /\ Len(Tail(incoming)) = Len(incoming) - 1
      BY <1>1, HeadTailProperties DEF TakeWork
    <2> QED
      BY <1>1, <2>1 DEF TakeWork
  <1>2. ASSUME NEW r \in Roommate, LookForWork(r) PROVE TypeConn'
    <2>1. CASE incoming = <<>>
      BY <1>2, <2>1 DEF LookForWork
    <2>2. CASE incoming # <<>>
      <3>1. /\ Head(incoming) \in Chunk /\ Tail(incoming) \in Seq(Chunk)
            /\ Len(Tail(incoming)) = Len(incoming) - 1
        BY <2>2, HeadTailProperties
      <3>2. /\ work' = [work EXCEPT ![r] = Head(incoming)]
            /\ incoming' = Tail(incoming) /\ read' = read
        BY <1>2, <2>2 DEF LookForWork
      <3> QED
        BY <3>1, <3>2
    <2> QED
      BY <2>1, <2>2
  <1>3. ASSUME NEW r \in Roommate, PostRequest(r) PROVE TypeConn'
    BY <1>3 DEF PostRequest, connVars
  <1>4. CASE ReadChunk
    <2>1. incoming' \in Seq(Chunk) /\ Len(incoming') = Len(incoming) + 1
      BY <1>4 DEF ReadChunk
    <2> QED
      BY <1>4, <2>1 DEF ReadChunk, workVars
  <1>5. CASE UNCHANGED <<work, read, incoming>>
    BY <1>5
  <1> QED
    <2> HIDE ChaserAssumption DEF TypeConn, Chunk, NoChunk
    <2> USE DEF workVars, connVars
    <2>1. ASSUME NEW r \in Roommate, Go(r) PROVE TypeConn'
      BY <2>1, <1>1, <1>2, <1>3, <1>5
      DEF Go, ReadGoNow, Park, Depart, ReceiveEmpty, ReceiveInOrder,
          ReceiveMisordered, Receive, Arrive, AddIfPresent, NoneToAdd, Deliver
    <2>2. ASSUME NEW r \in Roommate,
                 Quit(r) \/ HttpError(r) \/ RequestCancelled(r) \/ Answer(r)
          PROVE  TypeConn'
      BY <2>2, <1>5
      DEF Quit, QuitOnStop, QuitAfterOther, HttpError, RequestCancelled,
          FailRequest, Answer, AnswerEmpty, AnswerData
    <2>3. CASE QuitOnInactivity \/ Finish \/ InactiveTimerFires \/ Monitor
               \/ StopCalled \/ Stop \/ WriteReply \/ Hangup
      BY <2>3, <1>5
      DEF QuitOnInactivity, Finish, Notify, AlphaDone, BetaDone,
          InactiveTimerFires, Monitor, MonitorSeesHangup,
          MonitorRequestsStop, MonitorSeesStop, MonitorDone, StopCalled, Stop,
          StopRw, StopHome, WriteReply, Hangup
    <2> QED
      BY <2>1, <2>2, <2>3, <1>4, <1>5 DEF Next, ClientNext, vars

\* The reply that a roommate receives, and what is made of it.
LEMMA ReceivedReply ==
  ASSUME TypeReplies, NEW r \in Roommate, Receive(r)
  PROVE  /\ http[r].body \in ReplyChunk \cup {0}
         /\ http[r].ser = IF http[r].body = 0 THEN -1 ELSE http[r].body
         /\ HandedToCaller(http[r]) \in Seq(ReplyChunk)
         /\ toSend' \in [Roommate -> Seq(ReplyChunk)]
         /\ tryMe' \in [Roommate -> Nat]
         /\ http' \in [Roommate -> Exchange(Nat)]
         /\ RepliesNumbered'
  <1>1. /\ http[r].body \in ReplyChunk \cup {0}
        /\ http[r].ser = IF http[r].body = 0 THEN -1 ELSE http[r].body
    BY ChaserAssumption
    DEF Receive, TypeReplies, RepliesNumbered, ReplyChunk, NoChunk, NoSerial
  <1>2. HandedToCaller(http[r]) \in Seq(ReplyChunk)
    BY <1>1 DEF HandedToCaller, NoChunk
  <1>3. toSend' \in [Roommate -> Seq(ReplyChunk)]
    BY <1>2 DEF Receive, TypeReplies
  <1>4. tryMe' \in [Roommate -> Nat]
    <2>1. (IF http[r].body = NoChunk THEN 0 ELSE http[r].ser + 1) \in Nat
      BY <1>1 DEF NoChunk, ReplyChunk
    <2> QED
      BY <2>1 DEF Receive, TypeReplies
  <1>5. http' \in [Roommate -> Exchange(Nat)] /\ RepliesNumbered'
    <2>1. http' = [http EXCEPT ![r] = Idle] /\ issued' = issued
      BY DEF Receive
    <2>2. Idle \in Exchange(Nat) /\ Idle.st = "idle"
      BY DEF Idle, Exchange, NoSerial, NoChunk
    <2> QED
      BY <2>1, <2>2 DEF TypeReplies, RepliesNumbered
  <1> QED
    BY <1>1, <1>2, <1>3, <1>4, <1>5

\* An exchange that starts or ends without a reply.
LEMMA OtherExchange ==
  ASSUME TypeReplies, NEW r \in Roommate, NEW e \in Exchange(Nat),
         e.st # "replied", http' = [http EXCEPT ![r] = e], issued' = issued
  PROVE  http' \in [Roommate -> Exchange(Nat)] /\ RepliesNumbered'
  BY DEF TypeReplies, RepliesNumbered

\* Every step keeps the types of exchanges, numbers and replies.
LEMMA RepliesStep ==
  ASSUME TypeConn, TypeReplies, [Next]_vars
  PROVE  TypeReplies'
  <1> DEFINE replyVars == <<toSend, tryMe, http, orderVars, delivered, drained,
                            issued>>
  <1>1. CASE UNCHANGED replyVars
    BY <1>1 DEF TypeReplies, RepliesNumbered, orderVars
  <1>2. ASSUME NEW r \in Roommate, PostRequest(r) PROVE TypeReplies'
    <2>1. CASE work[r] = NoChunk
      <3>1. Request(NoSerial, NoChunk) \in Exchange(Nat)
            /\ Request(NoSerial, NoChunk).st # "replied"
        BY DEF Request, Exchange, NoSerial, NoChunk
      <3> QED
        BY <1>2, <2>1, <3>1, OtherExchange DEF PostRequest, TypeReplies, connVars
    <2>2. CASE work[r] # NoChunk
      <3> DEFINE e == Request(nextSendSerialNumber, work[r])
      <3>1. e \in Exchange(Nat) /\ e.st # "replied"
        <4>1. work[r] \in Nat /\ nextSendSerialNumber \in Nat \ {0}
          BY ChaserAssumption DEF TypeConn, TypeReplies, Chunk, NoChunk
        <4> QED
          BY <4>1 DEF Request, Exchange
      <3>2. http' = [http EXCEPT ![r] = e]
            /\ nextSendSerialNumber' = nextSendSerialNumber + 1
            /\ UNCHANGED <<toSend, tryMe, lastRecvSerialNumberSeen,
                           misorderedReplies, delivered, drained, issued>>
        BY <1>2, <2>2 DEF PostRequest, connVars
      <3> HIDE DEF e
      <3>3. http' \in [Roommate -> Exchange(Nat)] /\ RepliesNumbered'
        BY <3>1, <3>2, OtherExchange
      <3> QED
        BY <3>2, <3>3 DEF TypeReplies
    <2> QED
      BY <2>1, <2>2
  <1>3. ASSUME NEW r \in Roommate, ReceiveEmpty(r) \/ ReceiveInOrder(r)
        PROVE  TypeReplies'
    <2>1. Receive(r)
      BY <1>3 DEF ReceiveEmpty, ReceiveInOrder
    <2>2. /\ lastRecvSerialNumberSeen' \in Nat
          /\ UNCHANGED <<misorderedReplies, nextSendSerialNumber, delivered,
                         drained, issued>>
      BY <1>3 DEF ReceiveEmpty, ReceiveInOrder, Receive, connVars, TypeReplies
    <2> QED
      BY <2>1, <2>2, ReceivedReply DEF TypeReplies
  <1>4. ASSUME NEW r \in Roommate, ReceiveMisordered(r) PROVE TypeReplies'
    <2>1. Receive(r)
      BY <1>4 DEF ReceiveMisordered
    <2>2. http[r].ser \in ReplyChunk
      BY <1>4, <2>1, ReceivedReply DEF ReceiveMisordered, NoSerial
    <2>3. /\ DOMAIN misorderedReplies' \subseteq ReplyChunk
          /\ \A n \in DOMAIN misorderedReplies' :
               misorderedReplies'[n] \in Seq(ReplyChunk)
      BY <1>4, <2>2 DEF ReceiveMisordered, StoredResponse, TypeReplies
    <2>4. UNCHANGED <<lastRecvSerialNumberSeen, nextSendSerialNumber, delivered,
                      drained, issued>>
      BY <1>4 DEF ReceiveMisordered, Receive, connVars
    <2> QED
      BY <2>1, <2>3, <2>4, ReceivedReply DEF TypeReplies
  <1>5. ASSUME NEW r \in Roommate, HttpError(r) \/ RequestCancelled(r)
        PROVE  TypeReplies'
    <2>1. Idle \in Exchange(Nat) /\ Idle.st # "replied"
      BY DEF Idle, Exchange, NoSerial, NoChunk
    <2>2. /\ http' = [http EXCEPT ![r] = Idle]
          /\ UNCHANGED <<toSend, tryMe, orderVars, delivered, drained, issued>>
      BY <1>5 DEF HttpError, RequestCancelled, FailRequest, connVars
    <2>3. http' \in [Roommate -> Exchange(Nat)] /\ RepliesNumbered'
      BY <2>1, <2>2, OtherExchange
    <2> QED
      BY <2>2, <2>3 DEF TypeReplies, orderVars
  <1>6. ASSUME NEW r \in Roommate, AddIfPresent(r) PROVE TypeReplies'
    <2>1. /\ tryMe[r] \in DOMAIN misorderedReplies
          /\ toSend' = [toSend EXCEPT ![r] = @ \o misorderedReplies[tryMe[r]]]
          /\ misorderedReplies' =
               [n \in DOMAIN misorderedReplies \ {tryMe[r]} |-> misorderedReplies[n]]
          /\ lastRecvSerialNumberSeen' = tryMe[r]
          /\ tryMe' = [tryMe EXCEPT ![r] = @ + 1]
          /\ UNCHANGED <<http, nextSendSerialNumber, delivered, drained, issued>>
      BY <1>6 DEF AddIfPresent, connVars
    <2>2. toSend[r] \o misorderedReplies[tryMe[r]] \in Seq(ReplyChunk)
      <3>1. toSend[r] \in Seq(ReplyChunk)
            /\ misorderedReplies[tryMe[r]] \in Seq(ReplyChunk)
        BY <2>1 DEF TypeReplies
      <3> QED
        BY <3>1, ConcatProperties
    <2>3. toSend' \in [Roommate -> Seq(ReplyChunk)]
      BY <2>1, <2>2 DEF TypeReplies
    <2>4. tryMe' \in [Roommate -> Nat] /\ lastRecvSerialNumberSeen' \in Nat
      BY <2>1 DEF TypeReplies
    <2>5. /\ DOMAIN misorderedReplies' \subseteq ReplyChunk
          /\ \A n \in DOMAIN misorderedReplies' :
               misorderedReplies'[n] \in Seq(ReplyChunk)
      BY <2>1 DEF TypeReplies
    <2> QED
      BY <2>1, <2>3, <2>4, <2>5 DEF TypeReplies, RepliesNumbered
  <1>7. ASSUME NEW r \in Roommate, NoneToAdd(r) PROVE TypeReplies'
    <2>1. /\ tryMe' = [tryMe EXCEPT ![r] = 0]
          /\ UNCHANGED <<toSend, http, orderVars, delivered, drained, issued>>
      BY <1>7 DEF NoneToAdd, connVars
    <2>2. tryMe' \in [Roommate -> Nat]
      BY <2>1 DEF TypeReplies
    <2> QED
      BY <2>1, <2>2 DEF TypeReplies, RepliesNumbered, orderVars
  <1>8. ASSUME NEW r \in Roommate, Deliver(r) PROVE TypeReplies'
    <2>1. /\ Len(delivered) - drained < ChanCap
          /\ delivered' = Append(delivered, toSend[r])
          /\ toSend' = [toSend EXCEPT ![r] = <<>>]
          /\ UNCHANGED <<tryMe, http, orderVars, drained, issued>>
      BY <1>8 DEF Deliver
    <2>2. toSend' \in [Roommate -> Seq(ReplyChunk)] /\ toSend[r] \in Seq(ReplyChunk)
      <3>1. <<>> \in Seq(ReplyChunk)
        OBVIOUS
      <3> QED
        BY <2>1, <3>1 DEF TypeReplies
    <2>3. /\ delivered' \in Seq(Seq(ReplyChunk)) /\ Len(delivered') = Len(delivered) + 1
          /\ Len(delivered) \in Nat
      BY <2>1, <2>2, AppendProperties, LenProperties DEF TypeReplies
    <2>4. drained' \in 0..Len(delivered') /\ Len(delivered') - drained' <= ChanCap
      BY <2>1, <2>3, ChaserAssumption DEF TypeReplies
    <2> QED
      BY <2>1, <2>2, <2>3, <2>4 DEF TypeReplies, RepliesNumbered, orderVars
  <1>9. CASE WriteReply
    <2>1. /\ drained < Len(delivered) /\ drained' = drained + 1
          /\ UNCHANGED <<toSend, tryMe, http, orderVars, delivered, issued>>
      BY <1>9 DEF WriteReply, workVars
    <2>2. drained' \in 0..Len(delivered') /\ Len(delivered') - drained' <= ChanCap
      BY <2>1, ChaserAssumption, LenProperties DEF TypeReplies
    <2> QED
      BY <2>1, <2>2 DEF TypeReplies, RepliesNumbered, orderVars
  <1>10. ASSUME NEW r \in Roommate, AnswerEmpty(r) PROVE TypeReplies'
    <2> DEFINE e == Reply(NoSerial, NoChunk)
    <2>1. e \in Exchange(Nat) /\ e.body = 0 /\ e.ser = NoSerial
      BY DEF Reply, Exchange, NoSerial, NoChunk
    <2>2. /\ http' = [http EXCEPT ![r] = e]
          /\ UNCHANGED <<toSend, tryMe, orderVars, delivered, drained, issued>>
      BY <1>10 DEF AnswerEmpty, workVars, connVars
    <2> HIDE DEF e
    <2>3. http' \in [Roommate -> Exchange(Nat)] /\ RepliesNumbered'
      BY <2>1, <2>2, ChaserAssumption DEF TypeReplies, RepliesNumbered, NoChunk, ReplyChunk
    <2> QED
      BY <2>2, <2>3 DEF TypeReplies, orderVars
  <1>11. ASSUME NEW r \in Roommate, AnswerData(r) PROVE TypeReplies'
    <2> DEFINE e == Reply(issued + 1, issued + 1)
    <2>1. issued \in Nat /\ issued' = issued + 1 /\ issued' \in ReplyChunk
      BY <1>11, ChaserAssumption DEF AnswerData, TypeReplies, ReplyChunk
    <2>2. e \in Exchange(Nat) /\ e.body = issued + 1 /\ e.ser = issued + 1
      BY <2>1 DEF Reply, Exchange
    <2>3. /\ http' = [http EXCEPT ![r] = e]
          /\ UNCHANGED <<toSend, tryMe, orderVars, delivered, drained>>
      BY <1>11 DEF AnswerData, workVars, connVars
    <2> HIDE DEF e
    <2>4. http' \in [Roommate -> Exchange(Nat)] /\ RepliesNumbered'
      BY <2>1, <2>2, <2>3 DEF TypeReplies, RepliesNumbered, NoChunk
    <2> QED
      BY <2>1, <2>3, <2>4 DEF TypeReplies, orderVars
  <1> QED
    <2> HIDE DEF replyVars
    <2>1. ASSUME NEW r \in Roommate, Go(r) PROVE TypeReplies'
      <3>1. CASE ReadGoNow(r) \/ TakeWork(r) \/ Park(r) \/ LookForWork(r)
                 \/ Depart(r) \/ Arrive(r)
        BY <3>1, <1>1 DEF replyVars, ReadGoNow, TakeWork, Park, LookForWork,
           Depart, Arrive, connVars
      <3> QED
        BY <2>1, <3>1, <1>2, <1>3, <1>4, <1>6, <1>7, <1>8 DEF Go
    <2>2. ASSUME NEW r \in Roommate, Quit(r) PROVE TypeReplies'
      BY <2>2, <1>1 DEF replyVars, Quit, QuitOnStop, QuitAfterOther, connVars
    <2>3. CASE QuitOnInactivity \/ Finish \/ InactiveTimerFires
      BY <2>3, <1>1 DEF replyVars, QuitOnInactivity, Finish, Notify, AlphaDone,
         BetaDone, InactiveTimerFires, connVars, workVars
    <2>4. CASE Monitor \/ StopCalled \/ Stop \/ ReadChunk \/ Hangup
      BY <2>4, <1>1 DEF replyVars, Monitor, MonitorSeesHangup,
         MonitorRequestsStop, MonitorSeesStop, MonitorDone, StopCalled, Stop,
          StopRw, StopHome, ReadChunk, Hangup, connVars, workVars
    <2>5. CASE UNCHANGED vars
      BY <2>5, <1>1 DEF replyVars, vars, connVars, workVars
    <2> QED
      BY <2>1, <2>2, <2>3, <2>4, <2>5, <1>5, <1>9, <1>10, <1>11
      DEF Next, ClientNext, Answer

LEMMA TypeStep == Typed /\ [Next]_vars => Typed'
  BY TypedParts, TypedPartsNext, ControlStep, ConnStep, RepliesStep

LEMMA TypedAlways == Spec => []Typed
  BY TypeInit, TypeStep, PTL DEF Spec

\* Every variable keeps its type: in particular the channels to and from the
\* upstream connection keep within their capacity.
THEOREM TypeCorrect == Spec => []TypeOK
  <1>1. Typed => TypeOK
    BY DEF Typed
  <1> QED
    BY <1>1, TypedAlways, PTL
-----------------------------------------------------------------------------
(***************************************************************************)
(* Home.                                                                   *)
(***************************************************************************)

\* A departure and an arrival keep home in agreement with the roommates; every
\* other step leaves a roommate on the side of the door where it is.
LEMMA HomeStep == Typed /\ HomeAgrees /\ [Next]_vars => HomeAgrees'
  <1> SUFFICES ASSUME Typed, HomeAgrees, [Next]_vars PROVE HomeAgrees'
    OBVIOUS
  <1> USE DEF HomeAgrees, AtHome, Away
  <1>1. pc \in [Roommate -> Place] /\ home \in [Roommate -> BOOLEAN]
    BY DEF Typed, TypeOK, HomeTypeOK
  <1>2. ASSUME NEW r \in Roommate, Depart(r) PROVE HomeAgrees'
    BY <1>1, <1>2 DEF Depart, Departs, Goto
  <1>3. ASSUME NEW r \in Roommate, Arrive(r) PROVE HomeAgrees'
    BY <1>1, <1>3 DEF Arrive, Arrives, SentOut
  <1>4. ASSUME NEW r \in Roommate, NEW place,
               Goto(r, place), home' = home,
               place \in AtHome => pc[r] \in AtHome,
               place \in Away => pc[r] \in Away
        PROVE  HomeAgrees'
    BY <1>1, <1>4 DEF Goto
  <1>5. CASE UNCHANGED <<pc, home>>
    BY <1>5
  <1>6. ASSUME NEW r \in Roommate, Go(r) PROVE HomeAgrees'
    <2>1. CASE ReadGoNow(r) \/ TakeWork(r) \/ Park(r) \/ LookForWork(r)
      BY <2>1, <1>4 DEF ReadGoNow, TakeWork, Park, LookForWork, homeVars
    <2>2. CASE PostRequest(r) \/ ReceiveEmpty(r) \/ ReceiveInOrder(r)
               \/ ReceiveMisordered(r)
      BY <2>2, <1>4 DEF PostRequest, ReceiveEmpty, ReceiveInOrder,
         ReceiveMisordered, Receive, homeVars
    <2>3. CASE NoneToAdd(r) \/ Deliver(r)
      BY <2>3, <1>4 DEF NoneToAdd, Deliver, homeVars
    <2>4. CASE AddIfPresent(r)
      BY <2>4, <1>5 DEF AddIfPresent, homeVars
    <2> QED
      BY <1>6, <1>2, <1>3, <2>1, <2>2, <2>3, <2>4 DEF Go
  <1>7. ASSUME NEW r \in Roommate, Quit(r) \/ HttpError(r) \/ RequestCancelled(r)
        PROVE  HomeAgrees'
    BY <1>7, <1>4 DEF Quit, QuitOnStop, QuitAfterOther, HttpError,
       RequestCancelled, FailRequest, homeVars
  <1>8. CASE QuitOnInactivity \/ Finish
    BY <1>8, <1>4 DEF QuitOnInactivity, Finish, Notify, AlphaDone, BetaDone,
       homeVars, Roommate
  <1> QED
    BY <1>5, <1>6, <1>7, <1>8
    DEF Next, ClientNext, InactiveTimerFires, Monitor, MonitorSeesHangup,
        MonitorRequestsStop, MonitorSeesStop, MonitorDone, StopCalled,
        Stop, StopRw, StopHome, HomeStops, ReadChunk, WriteReply, Hangup,
        Answer, AnswerEmpty, AnswerData, workVars, homeVars, vars

\* What home believes is where the roommates are.
THEOREM HomeCorrect == Spec => []HomeAgrees
  <1>1. Init => HomeAgrees
    BY DEF Init, HomeInit, HomeAgrees, AtHome, Away
  <1> QED
    BY <1>1, TypedAlways, HomeStep, PTL DEF Spec
-----------------------------------------------------------------------------
(***************************************************************************)
(* Replies.                                                                *)
(***************************************************************************)

\* The chunk that the reply to r carries, that r has in hand, and that the
\* i-th send on repliesHere had; no batch has more than one.
Coming(r) == IF http[r].st = "replied" THEN http[r].body ELSE NoChunk
FirstOf(batch) == IF batch = <<>> THEN NoChunk ELSE batch[1]
Held1(r) == FirstOf(toSend[r])
Sent(i)  == FirstOf(delivered[i])

Apart(a, b) == a = NoChunk \/ a # b

\* What is stored as misordered is empty, so that nothing is played back.
BatchesShort ==
  /\ \A n \in DOMAIN misorderedReplies : misorderedReplies[n] = <<>>
  /\ \A r \in Roommate : Len(toSend[r]) <= 1
  /\ \A i \in 1..Len(delivered) : Len(delivered[i]) <= 1

\* Each chunk that was issued is at one place at most.
OnePlace ==
  /\ \A r \in Roommate : Held1(r) \in 0..issued /\ Coming(r) \in 0..issued
  /\ \A i \in 1..Len(delivered) : Sent(i) \in 0..issued
  /\ \A r, q \in Roommate : Apart(Coming(r), Held1(q))
  /\ \A r, q \in Roommate : r # q => /\ Apart(Coming(r), Coming(q))
                                     /\ Apart(Held1(r), Held1(q))
  /\ \A i \in 1..Len(delivered), r \in Roommate :
       Apart(Sent(i), Coming(r)) /\ Apart(Sent(i), Held1(r))
  /\ \A i, j \in 1..Len(delivered) : i # j => Apart(Sent(i), Sent(j))

\* Each is at one place at least.
Everywhere ==
  \A c \in 1..issued : \/ \E r \in Roommate : c \in {Coming(r), Held1(r)}
                       \/ \E i \in 1..Len(delivered) : Sent(i) = c

\* A reply is awaited by the roommate it goes to, with empty hands.
EmptyHanded == {"top", "inner", "parked", "told", "depart", "request", "http"}

Awaited ==
  \A r \in Roommate : /\ http[r].st # "idle" => pc[r] = "http"
                      /\ pc[r] \in EmptyHanded => toSend[r] = <<>>

RepliesInv ==
  /\ BatchesShort /\ OnePlace /\ Awaited
  /\ Nobody(Leaving) => Everywhere

\* Where a chunk is handed, when batches are short.
LEMMA HandedPlaces ==
  ASSUME Typed, BatchesShort, NEW c \in ReplyChunk, NEW p
  PROVE  p \in HandedAt(c) <=>
           \/ \E i \in 1..Len(delivered) : p = <<"sent", i, 1>> /\ Sent(i) = c
           \/ \E r \in Roommate : p = <<"held", r, 1>> /\ Held1(r) = c
  <1> DEFINE At(batch) == {j \in DOMAIN batch : batch[j] = c}
  <1>1. ASSUME NEW batch \in Seq(ReplyChunk), Len(batch) <= 1
        PROVE  At(batch) = IF FirstOf(batch) = c THEN {1} ELSE {}
    <2>1. CASE batch = <<>>
      <3>1. DOMAIN batch = {}
        BY <2>1
      <3> QED
        BY <2>1, <3>1, ChaserAssumption DEF FirstOf, NoChunk, ReplyChunk
    <2>2. CASE batch # <<>>
      <3>1. Len(batch) \in Nat /\ Len(batch) # 0 /\ DOMAIN batch = 1..Len(batch)
        BY <2>2, EmptySeq, LenProperties
      <3>2. Len(batch) = 1
        BY <1>1, <3>1
      <3>3. DOMAIN batch = {1}
        BY <3>1, <3>2
      <3> QED
        BY <2>2, <3>3 DEF FirstOf
    <2> QED
      BY <2>1, <2>2
  <1>2. /\ \A i \in DOMAIN delivered : /\ delivered[i] \in Seq(ReplyChunk)
                                       /\ Len(delivered[i]) <= 1
        /\ \A r \in Roommate : toSend[r] \in Seq(ReplyChunk) /\ Len(toSend[r]) <= 1
        /\ DOMAIN delivered = 1..Len(delivered)
    BY LenProperties DEF Typed, TypeOK, BatchesShort
  <1>3. /\ \A i \in DOMAIN delivered : At(delivered[i]) = IF Sent(i) = c THEN {1} ELSE {}
        /\ \A r \in Roommate : At(toSend[r]) = IF Held1(r) = c THEN {1} ELSE {}
    BY <1>1, <1>2 DEF Sent, Held1
  <1>4. p \in HandedAt(c) <=>
          \/ \E i \in DOMAIN delivered : \E k \in At(delivered[i]) : p = <<"sent", i, k>>
          \/ \E r \in Roommate : \E k \in At(toSend[r]) : p = <<"held", r, k>>
    <2> DEFINE SentAt(i) == {<<"sent", i, k>> : k \in At(delivered[i])}
               HeldAt(r) == {<<"held", r, k>> : k \in At(toSend[r])}
               AllSent == UNION {SentAt(i) : i \in DOMAIN delivered}
               AllHeld == UNION {HeldAt(r) : r \in Roommate}
    <2>1. HandedAt(c) = AllSent \cup AllHeld
      BY DEF HandedAt
    <2> HIDE DEF At
    <2>2. /\ \A i \in DOMAIN delivered :
               p \in SentAt(i) <=> \E k \in At(delivered[i]) : p = <<"sent", i, k>>
          /\ \A r \in Roommate :
               p \in HeldAt(r) <=> \E k \in At(toSend[r]) : p = <<"held", r, k>>
      BY Zenon
    <2> HIDE DEF SentAt, HeldAt
    <2>3. /\ p \in AllSent <=> \E i \in DOMAIN delivered : p \in SentAt(i)
          /\ p \in AllHeld <=> \E r \in Roommate : p \in HeldAt(r)
      OBVIOUS
    <2> HIDE DEF AllSent, AllHeld
    <2>4. p \in HandedAt(c) <=> (p \in AllSent \/ p \in AllHeld)
      BY <2>1
    <2> QED
      BY <2>2, <2>3, <2>4, Zenon
  <1> HIDE DEF At
  <1>5. ASSUME NEW i \in DOMAIN delivered
        PROVE  (\E k \in At(delivered[i]) : p = <<"sent", i, k>>)
                 <=> (p = <<"sent", i, 1>> /\ Sent(i) = c)
    <2>1. CASE Sent(i) = c
      <3>1. At(delivered[i]) = {1}
        BY <1>3, <2>1
      <3> QED
        BY <2>1, <3>1, Zenon
    <2>2. CASE Sent(i) # c
      <3>1. At(delivered[i]) = {}
        BY <1>3, <2>2
      <3> QED
        BY <2>2, <3>1, Zenon
    <2> QED
      BY <2>1, <2>2
  <1>6. ASSUME NEW r \in Roommate
        PROVE  (\E k \in At(toSend[r]) : p = <<"held", r, k>>)
                 <=> (p = <<"held", r, 1>> /\ Held1(r) = c)
    <2>1. CASE Held1(r) = c
      <3>1. At(toSend[r]) = {1}
        BY <1>3, <2>1
      <3> QED
        BY <2>1, <3>1, Zenon
    <2>2. CASE Held1(r) # c
      <3>1. At(toSend[r]) = {}
        BY <1>3, <2>2
      <3> QED
        BY <2>2, <3>1, Zenon
    <2> QED
      BY <2>1, <2>2
  <1> QED
    BY <1>2, <1>4, <1>5, <1>6, Zenon

\* A step that touches no batch and at most drops a reply.
LEMMA PlacesKept ==
  ASSUME Typed, OnePlace, BatchesShort, UNCHANGED <<toSend, delivered, issued>>,
         \A r \in Roommate : Coming(r)' \in {NoChunk, Coming(r)},
         \A n \in DOMAIN misorderedReplies' : misorderedReplies'[n] = <<>>
  PROVE  /\ OnePlace' /\ BatchesShort'
         /\ Everywhere /\ (\A r \in Roommate : Coming(r)' = Coming(r)) => Everywhere'
  <1>1. BatchesShort'
    BY DEF BatchesShort
  <1>2. /\ \A r \in Roommate : Held1(r)' = Held1(r)
        /\ \A i \in 1..Len(delivered) : Sent(i)' = Sent(i)
    BY DEF Held1, Sent, FirstOf
  <1>3. issued' = issued /\ delivered' = delivered
    OBVIOUS
  <1>4. \A r \in Roommate : Coming(r)' \in 0..issued
    BY ChaserAssumption DEF OnePlace, Typed, TypeOK, ReplyChunk, NoChunk
  <1>5. OnePlace'
    BY <1>2, <1>3, <1>4 DEF OnePlace, Apart
  <1>6. Everywhere /\ (\A r \in Roommate : Coming(r)' = Coming(r)) => Everywhere'
    BY <1>2, <1>3 DEF Everywhere
  <1> QED
    BY <1>1, <1>5, <1>6

\* A reply comes into the hands of the roommate that waits for it.
LEMMA PlacesReceive ==
  ASSUME Typed, OnePlace, BatchesShort, Awaited, NEW r \in Roommate, Receive(r),
         \A n \in DOMAIN misorderedReplies' : misorderedReplies'[n] = <<>>
  PROVE  OnePlace' /\ BatchesShort' /\ (Everywhere => Everywhere')
  <1>1. /\ http[r].st = "replied" /\ toSend[r] = <<>>
        /\ http' = [http EXCEPT ![r] = Idle]
        /\ toSend' = [toSend EXCEPT ![r] = HandedToCaller(http[r])]
        /\ UNCHANGED <<delivered, issued>>
    BY DEF Receive, Awaited, EmptyHanded, connVars
  <1>2. \A q \in Roommate : Coming(q)' = IF q = r THEN NoChunk ELSE Coming(q)
    BY <1>1 DEF Coming, Idle, Typed, TypeOK
  <1>3. Len(HandedToCaller(http[r])) <= 1
    BY DEF HandedToCaller
  <1>4. FirstOf(HandedToCaller(http[r])) = Coming(r)
    BY <1>1 DEF FirstOf, HandedToCaller, Coming
  <1>5. \A q \in Roommate : Held1(q)' = IF q = r THEN Coming(r) ELSE Held1(q)
    BY <1>1, <1>4 DEF Held1, Typed, TypeOK
  <1>6. \A i \in 1..Len(delivered) : Sent(i)' = Sent(i)
    BY <1>1 DEF Sent
  <1>7. issued' = issued /\ delivered' = delivered /\ issued \in Nat
    BY <1>1, ChaserAssumption DEF Typed, TypeOK, ReplyChunk
  <1>8. BatchesShort'
    BY <1>1, <1>3 DEF BatchesShort, Typed, TypeOK
  <1>9. Held1(r) = NoChunk
    BY <1>1 DEF Held1, FirstOf
  <1>10. OnePlace'
    BY <1>2, <1>5, <1>6, <1>7 DEF OnePlace, Apart, NoChunk
  <1>11. Everywhere => Everywhere'
    BY <1>2, <1>5, <1>6, <1>7, <1>9 DEF Everywhere, NoChunk
  <1> QED
    BY <1>8, <1>10, <1>11

\* A batch goes from the hands of a roommate to repliesHere.
LEMMA PlacesDeliver ==
  ASSUME Typed, OnePlace, BatchesShort, NEW r \in Roommate, Deliver(r)
  PROVE  OnePlace' /\ BatchesShort' /\ (Everywhere => Everywhere')
  <1>1. /\ delivered' = Append(delivered, toSend[r])
        /\ toSend' = [toSend EXCEPT ![r] = <<>>]
        /\ UNCHANGED <<http, misorderedReplies, issued>>
    BY DEF Deliver, orderVars
  <1>2. \A q \in Roommate : Coming(q)' = Coming(q)
    BY <1>1 DEF Coming
  <1>3. \A q \in Roommate : Held1(q)' = IF q = r THEN NoChunk ELSE Held1(q)
    BY <1>1 DEF Held1, FirstOf, Typed, TypeOK
  <1>4. /\ Len(delivered) \in Nat /\ Len(delivered') = Len(delivered) + 1
        /\ \A i \in 1..Len(delivered) : delivered'[i] = delivered[i]
        /\ delivered'[Len(delivered) + 1] = toSend[r]
    BY <1>1, AppendProperties, LenProperties DEF Typed, TypeOK
  <1>5. \A i \in 1..Len(delivered) + 1 :
          Sent(i)' = IF i = Len(delivered) + 1 THEN Held1(r) ELSE Sent(i)
    <2> SUFFICES ASSUME NEW i \in 1..Len(delivered) + 1
                 PROVE  Sent(i)' = IF i = Len(delivered) + 1 THEN Held1(r) ELSE Sent(i)
      OBVIOUS
    <2>1. delivered'[i] = IF i = Len(delivered) + 1 THEN toSend[r] ELSE delivered[i]
      BY <1>4
    <2> QED
      BY <2>1 DEF Sent, Held1
  <1>6. issued' = issued /\ issued \in Nat
    BY <1>1, ChaserAssumption DEF Typed, TypeOK, ReplyChunk
  <1>7. BatchesShort'
    <2>1. \A i \in 1..Len(delivered') : Len(delivered'[i]) <= 1
      BY <1>4 DEF BatchesShort
    <2>2. \A q \in Roommate : Len(toSend'[q]) <= 1
      BY <1>1 DEF BatchesShort, Typed, TypeOK
    <2> QED
      BY <1>1, <2>1, <2>2 DEF BatchesShort
  <1>8. OnePlace'
    <2>1. \A q \in Roommate : Held1(q)' \in 0..issued /\ Coming(q)' \in 0..issued
      BY <1>2, <1>3, <1>6 DEF OnePlace, NoChunk
    <2>2. \A i \in 1..Len(delivered) + 1 : Sent(i)' \in 0..issued
      BY <1>4, <1>5 DEF OnePlace
    <2>3. \A u, q \in Roommate : Apart(Coming(u)', Held1(q)')
      BY <1>2, <1>3 DEF OnePlace, Apart, NoChunk
    <2>4. \A u, q \in Roommate : u # q => /\ Apart(Coming(u)', Coming(q)')
                                          /\ Apart(Held1(u)', Held1(q)')
      BY <1>2, <1>3 DEF OnePlace, Apart, NoChunk
    <2>5. \A i \in 1..Len(delivered) + 1, q \in Roommate :
            Apart(Sent(i)', Coming(q)') /\ Apart(Sent(i)', Held1(q)')
      BY <1>2, <1>3, <1>4, <1>5 DEF OnePlace, Apart, NoChunk
    <2>6. ASSUME NEW i \in 1..Len(delivered) + 1, NEW j \in 1..Len(delivered) + 1, i # j
          PROVE  Apart(Sent(i)', Sent(j)')
      <3>1. CASE i = Len(delivered) + 1
        <4>1. Sent(i)' = Held1(r) /\ j \in 1..Len(delivered) /\ Sent(j)' = Sent(j)
          BY <1>4, <1>5, <2>6, <3>1
        <4> QED
          BY <4>1 DEF OnePlace, Apart
      <3>2. CASE j = Len(delivered) + 1
        <4>1. Sent(j)' = Held1(r) /\ i \in 1..Len(delivered) /\ Sent(i)' = Sent(i)
          BY <1>4, <1>5, <2>6, <3>2
        <4> QED
          BY <4>1 DEF OnePlace, Apart
      <3>3. CASE i # Len(delivered) + 1 /\ j # Len(delivered) + 1
        <4>1. /\ i \in 1..Len(delivered) /\ Sent(i)' = Sent(i)
              /\ j \in 1..Len(delivered) /\ Sent(j)' = Sent(j)
          BY <1>4, <1>5, <3>3
        <4> QED
          BY <2>6, <4>1 DEF OnePlace, Apart
      <3> QED
        BY <3>1, <3>2, <3>3
    <2> QED
      BY <1>4, <1>6, <2>1, <2>2, <2>3, <2>4, <2>5, <2>6 DEF OnePlace, Apart
  <1>9. Everywhere => Everywhere'
    <2> SUFFICES ASSUME Everywhere, NEW c \in 1..issued
                 PROVE  \/ \E q \in Roommate : c \in {Coming(q)', Held1(q)'}
                        \/ \E i \in 1..Len(delivered) + 1 : Sent(i)' = c
      BY <1>4, <1>6 DEF Everywhere
    <2>1. CASE \E q \in Roommate : c \in {Coming(q), Held1(q)}
      BY <1>2, <1>3, <1>4, <1>5, <2>1
    <2>2. CASE \E i \in 1..Len(delivered) : Sent(i) = c
      BY <1>4, <1>5, <2>2
    <2> QED
      BY <2>1, <2>2 DEF Everywhere
  <1> QED
    BY <1>7, <1>8, <1>9

\* The server issues a reply.
LEMMA PlacesAnswer ==
  ASSUME Typed, OnePlace, BatchesShort, NEW r \in Roommate, AnswerData(r)
  PROVE  OnePlace' /\ BatchesShort' /\ (Everywhere => Everywhere')
  <1>1. /\ http[r].st = "sent" /\ issued' = issued + 1 /\ issued \in Nat
        /\ UNCHANGED <<toSend, delivered, misorderedReplies>>
    BY ChaserAssumption
    DEF AnswerData, workVars, connVars, orderVars, Typed, TypeOK, ReplyChunk
  <1>2. \A q \in Roommate : Coming(q)' = IF q = r THEN issued + 1 ELSE Coming(q)
    <2>1. http' = [http EXCEPT ![r] = Reply(issued + 1, issued + 1)]
      BY DEF AnswerData
    <2>2. /\ Reply(issued + 1, issued + 1).st = "replied"
          /\ Reply(issued + 1, issued + 1).body = issued + 1
      BY DEF Reply
    <2> QED
      BY <2>1, <2>2 DEF Coming, Typed, TypeOK
  <1>3. /\ \A q \in Roommate : Held1(q)' = Held1(q)
        /\ \A i \in 1..Len(delivered) : Sent(i)' = Sent(i)
        /\ delivered' = delivered
    BY <1>1 DEF Held1, Sent, FirstOf
  <1>4. Coming(r) = NoChunk
    BY <1>1 DEF Coming
  <1>5. BatchesShort'
    BY <1>1 DEF BatchesShort
  <1>6. OnePlace'
    <2>1. \A c \in 0..issued : c \in 0..issued + 1 /\ c # issued + 1
      BY <1>1
    <2>2. issued + 1 \in 0..issued + 1
      BY <1>1
    <2>3. /\ \A q \in Roommate : Held1(q)' \in 0..issued' /\ Coming(q)' \in 0..issued'
          /\ \A i \in 1..Len(delivered) : Sent(i)' \in 0..issued'
      BY <1>1, <1>2, <1>3, <2>1, <2>2 DEF OnePlace
    <2>4. \A q, p \in Roommate : Apart(Coming(q)', Held1(p)')
      BY <1>2, <1>3, <2>1 DEF OnePlace, Apart
    <2>5. \A q, p \in Roommate : q # p => /\ Apart(Coming(q)', Coming(p)')
                                          /\ Apart(Held1(q)', Held1(p)')
      BY <1>2, <1>3, <2>1 DEF OnePlace, Apart
    <2>6. \A i \in 1..Len(delivered), q \in Roommate :
            Apart(Sent(i)', Coming(q)') /\ Apart(Sent(i)', Held1(q)')
      BY <1>2, <1>3, <2>1 DEF OnePlace, Apart
    <2>7. \A i, j \in 1..Len(delivered) : i # j => Apart(Sent(i)', Sent(j)')
      BY <1>3 DEF OnePlace
    <2> QED
      BY <1>3, <2>3, <2>4, <2>5, <2>6, <2>7 DEF OnePlace, Apart
  <1>7. Everywhere => Everywhere'
    <2> SUFFICES ASSUME Everywhere, NEW c \in 1..issued + 1
                 PROVE  \/ \E q \in Roommate : c \in {Coming(q)', Held1(q)'}
                        \/ \E i \in 1..Len(delivered) : Sent(i)' = c
      BY <1>1, <1>3 DEF Everywhere
    <2>1. CASE c = issued + 1
      BY <1>2, <2>1
    <2>2. CASE c # issued + 1
      <3>1. c \in 1..issued
        BY <1>1, <2>2
      <3> QED
        BY <1>2, <1>3, <1>4, <3>1 DEF Everywhere, NoChunk
    <2> QED
      BY <2>1, <2>2
  <1> QED
    BY <1>5, <1>6, <1>7

\* Every step leaves a reply to a roommate that waits for it.
LEMMA AwaitedStep == Typed /\ Awaited /\ [Next]_vars => Awaited'
  <1> SUFFICES ASSUME Typed, Awaited, [Next]_vars PROVE Awaited'
    OBVIOUS
  <1>1. /\ pc \in [Roommate -> Place] /\ http \in [Roommate -> Exchange(Nat)]
        /\ toSend \in [Roommate -> Seq(ReplyChunk)]
    BY DEF Typed, TypeOK
  <1>2. ASSUME NEW r \in Roommate, NEW place, Goto(r, place),
               http' = http, toSend' = toSend, pc[r] # "http", place # "http",
               place \in EmptyHanded => pc[r] \in EmptyHanded
        PROVE  Awaited'
    BY <1>1, <1>2 DEF Awaited, Goto
  <1>3. CASE UNCHANGED <<pc, http, toSend>>
    BY <1>3 DEF Awaited
  <1>4. ASSUME NEW r \in Roommate, PostRequest(r) PROVE Awaited'
    <2>1. /\ pc[r] = "request" /\ pc' = [pc EXCEPT ![r] = "http"]
          /\ toSend' = toSend /\ \E e : http' = [http EXCEPT ![r] = e]
      BY <1>4 DEF PostRequest, Goto
    <2> QED
      BY <1>1, <2>1 DEF Awaited, EmptyHanded
  <1>5. ASSUME NEW r \in Roommate, Receive(r) PROVE Awaited'
    <2>1. /\ pc' = [pc EXCEPT ![r] = "arrive"] /\ http' = [http EXCEPT ![r] = Idle]
          /\ \E batch : toSend' = [toSend EXCEPT ![r] = batch]
      BY <1>5 DEF Receive, Goto
    <2> QED
      BY <1>1, <2>1 DEF Awaited, EmptyHanded, Idle
  <1>6. ASSUME NEW r \in Roommate, FailRequest(r) PROVE Awaited'
    <2>1. /\ pc' = [pc EXCEPT ![r] = "exit"] /\ http' = [http EXCEPT ![r] = Idle]
          /\ toSend' = toSend
      BY <1>6 DEF FailRequest, Goto
    <2> QED
      BY <1>1, <2>1 DEF Awaited, EmptyHanded, Idle
  <1>7. ASSUME NEW r \in Roommate, Arrive(r) PROVE Awaited'
    <2>1. /\ pc[r] = "arrive" /\ http' = http /\ toSend' = toSend
          /\ \A o \in Roommate :
               \/ o = r /\ pc'[o] = IF toSend[r] = <<>> THEN "top" ELSE "merge"
               \/ pc[o] = "parked" /\ pc'[o] = "told"
               \/ o # r /\ pc'[o] = pc[o]
      BY <1>7 DEF Arrive, SentOut
    <2> QED
      BY <1>1, <2>1 DEF Awaited, EmptyHanded
  <1>8. ASSUME NEW r \in Roommate, AddIfPresent(r) PROVE Awaited'
    <2>1. /\ pc[r] = "merge" /\ pc' = pc /\ http' = http
          /\ \E batch : toSend' = [toSend EXCEPT ![r] = batch]
      BY <1>8 DEF AddIfPresent
    <2> QED
      BY <1>1, <2>1 DEF Awaited, EmptyHanded
  <1>9. ASSUME NEW r \in Roommate, Deliver(r) PROVE Awaited'
    <2>1. /\ pc[r] = "deliver" /\ pc' = [pc EXCEPT ![r] = "top"] /\ http' = http
          /\ toSend' = [toSend EXCEPT ![r] = <<>>]
      BY <1>9 DEF Deliver, Goto
    <2> QED
      BY <1>1, <2>1 DEF Awaited
  <1>10. ASSUME NEW r \in Roommate, Answer(r) PROVE Awaited'
    <2>1. /\ http[r].st = "sent" /\ pc' = pc /\ toSend' = toSend
          /\ \E e : http' = [http EXCEPT ![r] = e]
      BY <1>10 DEF Answer, AnswerEmpty, AnswerData, workVars
    <2> QED
      BY <1>1, <2>1 DEF Awaited
  <1> QED
    <2>1. ASSUME NEW r \in Roommate, Go(r) PROVE Awaited'
      <3>1. CASE ReadGoNow(r) \/ TakeWork(r) \/ Park(r) \/ LookForWork(r)
        BY <3>1, <1>2
        DEF ReadGoNow, TakeWork, Park, LookForWork, EmptyHanded
      <3>2. CASE Depart(r) \/ NoneToAdd(r)
        BY <3>2, <1>2 DEF Depart, NoneToAdd, EmptyHanded
      <3> QED
        BY <2>1, <3>1, <3>2, <1>4, <1>5, <1>7, <1>8, <1>9
        DEF Go, ReceiveEmpty, ReceiveInOrder, ReceiveMisordered
    <2>2. ASSUME NEW r \in Roommate, Quit(r) PROVE Awaited'
      BY <2>2, <1>2 DEF Quit, QuitOnStop, QuitAfterOther, EmptyHanded
    <2>3. CASE QuitOnInactivity \/ Finish
      BY <2>3, <1>2
      DEF QuitOnInactivity, Finish, Notify, AlphaDone, BetaDone, EmptyHanded, Roommate
    <2> QED
      BY <2>1, <2>2, <2>3, <1>3, <1>6, <1>10
      DEF Next, ClientNext, HttpError, RequestCancelled, InactiveTimerFires,
          Monitor, MonitorSeesHangup, MonitorRequestsStop, MonitorSeesStop,
          MonitorDone, StopCalled, Stop, StopRw, StopHome, ReadChunk, WriteReply,
          Hangup, workVars, vars

\* Whoever leaves its loop does not come back.
LEMMA LeavingForGood ==
  ASSUME Typed, [Next]_vars, Nobody(Leaving)'
  PROVE  Nobody(Leaving)
  <1> USE DEF Nobody, Leaving
  <1>1. pc \in [Roommate -> Place]
    BY DEF Typed, TypeOK
  <1>2. ASSUME NEW r \in Roommate, NEW place, Goto(r, place), pc[r] \notin Leaving
        PROVE  Nobody(Leaving)
    BY <1>1, <1>2 DEF Goto
  <1>3. CASE UNCHANGED pc
    BY <1>3
  <1>4. ASSUME NEW r \in Roommate, Arrive(r) PROVE Nobody(Leaving)
    BY <1>4 DEF Arrive, SentOut
  <1>5. ASSUME NEW r \in Roommate, Go(r) PROVE Nobody(Leaving)
    <2>1. CASE ReadGoNow(r) \/ TakeWork(r) \/ Park(r) \/ LookForWork(r)
      BY <2>1, <1>2 DEF ReadGoNow, TakeWork, Park, LookForWork
    <2>2. CASE Depart(r) \/ PostRequest(r) \/ ReceiveEmpty(r) \/ ReceiveInOrder(r)
               \/ ReceiveMisordered(r)
      BY <2>2, <1>2
      DEF Depart, PostRequest, ReceiveEmpty, ReceiveInOrder, ReceiveMisordered, Receive
    <2>3. CASE AddIfPresent(r) \/ NoneToAdd(r) \/ Deliver(r)
      BY <2>3, <1>2, <1>3 DEF AddIfPresent, NoneToAdd, Deliver
    <2> QED
      BY <1>5, <1>4, <2>1, <2>2, <2>3 DEF Go
  <1>6. ASSUME NEW r \in Roommate, NEW place \in Leaving, Goto(r, place) PROVE FALSE
    BY <1>1, <1>6 DEF Goto
  <1>7. ASSUME NEW r \in Roommate, Quit(r) \/ HttpError(r) \/ RequestCancelled(r)
        PROVE  FALSE
    BY <1>7, <1>6
    DEF Quit, QuitOnStop, QuitAfterOther, HttpError, RequestCancelled, FailRequest
  <1>8. CASE QuitOnInactivity \/ Finish
    BY <1>8, <1>6 DEF QuitOnInactivity, Finish, Notify, AlphaDone, BetaDone, Roommate
  <1> QED
    BY <1>3, <1>5, <1>7, <1>8
    DEF Next, ClientNext, InactiveTimerFires, Monitor, MonitorSeesHangup,
        MonitorRequestsStop, MonitorSeesStop, MonitorDone, StopCalled,
        Stop, StopRw, StopHome, ReadChunk, WriteReply, Hangup,
        Answer, AnswerEmpty, AnswerData, workVars, vars

\* Every step keeps each chunk at one place, and loses one only with a
\* roommate that leaves its loop.
LEMMA PlacesStep ==
  ASSUME Typed, OnePlace, BatchesShort, Awaited, [Next]_vars
  PROVE  /\ OnePlace' /\ BatchesShort'
         /\ Everywhere /\ Nobody(Leaving)' => Everywhere'
  <1> DEFINE Goal == /\ OnePlace' /\ BatchesShort'
                     /\ Everywhere /\ Nobody(Leaving)' => Everywhere'
  <1> SUFFICES Goal
    OBVIOUS
  <1>1. CASE UNCHANGED <<http, toSend, delivered, issued, misorderedReplies>>
    <2>1. \A r \in Roommate : Coming(r)' = Coming(r)
      BY <1>1 DEF Coming
    <2>2. \A n \in DOMAIN misorderedReplies' : misorderedReplies'[n] = <<>>
      BY <1>1 DEF BatchesShort
    <2> QED
      BY <1>1, <2>1, <2>2, PlacesKept
  <1>2. ASSUME NEW r \in Roommate, NEW e, http' = [http EXCEPT ![r] = e],
               http[r].st # "replied", e.st = "replied" => e.body = NoChunk,
               UNCHANGED <<toSend, delivered, issued, misorderedReplies>>
        PROVE  Goal
    <2>1. \A q \in Roommate : Coming(q)' = Coming(q)
      BY <1>2 DEF Coming, Typed, TypeOK
    <2>2. \A n \in DOMAIN misorderedReplies' : misorderedReplies'[n] = <<>>
      BY <1>2 DEF BatchesShort
    <2> QED
      BY <1>2, <2>1, <2>2, PlacesKept
  <1>3. ASSUME NEW r \in Roommate, PostRequest(r) PROVE Goal
    <2>1. http[r].st # "replied"
      BY <1>3 DEF PostRequest, Awaited
    <2>2. UNCHANGED <<toSend, delivered, issued, misorderedReplies>>
      BY <1>3 DEF PostRequest, connVars
    <2>3. CASE work[r] = NoChunk
      <3>1. Request(NoSerial, NoChunk).st # "replied"
        BY DEF Request
      <3>2. http' = [http EXCEPT ![r] = Request(NoSerial, NoChunk)]
        BY <1>3, <2>3 DEF PostRequest
      <3> QED
        BY <1>2, <2>1, <2>2, <3>1, <3>2
    <2>4. CASE work[r] # NoChunk
      <3>1. Request(nextSendSerialNumber, work[r]).st # "replied"
        BY DEF Request
      <3>2. http' = [http EXCEPT ![r] = Request(nextSendSerialNumber, work[r])]
        BY <1>3, <2>4 DEF PostRequest
      <3> QED
        BY <1>2, <2>1, <2>2, <3>1, <3>2
    <2> QED
      BY <2>3, <2>4
  <1>4. ASSUME NEW r \in Roommate,
               ReceiveEmpty(r) \/ ReceiveInOrder(r) \/ ReceiveMisordered(r)
        PROVE  Goal
    <2>1. Receive(r)
      BY <1>4 DEF ReceiveEmpty, ReceiveInOrder, ReceiveMisordered
    <2>2. \A n \in DOMAIN misorderedReplies' : misorderedReplies'[n] = <<>>
      BY <1>4
      DEF ReceiveEmpty, ReceiveInOrder, ReceiveMisordered, StoredResponse, BatchesShort
    <2> QED
      BY <2>1, <2>2, PlacesReceive
  <1>5. ASSUME NEW r \in Roommate, HttpError(r) \/ RequestCancelled(r) PROVE Goal
    <2>1. /\ pc' = [pc EXCEPT ![r] = "exit"]
          /\ http' = [http EXCEPT ![r] = Idle]
          /\ UNCHANGED <<toSend, delivered, issued, misorderedReplies>>
      BY <1>5 DEF HttpError, RequestCancelled, FailRequest, Goto, connVars, orderVars
    <2>2. ~ Nobody(Leaving)'
      BY <2>1 DEF Nobody, Leaving, Typed, TypeOK
    <2>3. \A q \in Roommate : Coming(q)' \in {NoChunk, Coming(q)}
      BY <2>1 DEF Coming, Idle, Typed, TypeOK
    <2>4. \A n \in DOMAIN misorderedReplies' : misorderedReplies'[n] = <<>>
      BY <2>1 DEF BatchesShort
    <2> QED
      BY <2>1, <2>2, <2>3, <2>4, PlacesKept
  <1>6. ASSUME NEW r \in Roommate, AddIfPresent(r) PROVE Goal
    <2>1. /\ tryMe[r] \in DOMAIN misorderedReplies
          /\ toSend' = [toSend EXCEPT ![r] = @ \o misorderedReplies[tryMe[r]]]
          /\ misorderedReplies' =
               [n \in DOMAIN misorderedReplies \ {tryMe[r]} |-> misorderedReplies[n]]
          /\ UNCHANGED <<http, delivered, issued>>
      BY <1>6 DEF AddIfPresent, connVars
    <2>2. /\ toSend \in [Roommate -> Seq(ReplyChunk)]
          /\ misorderedReplies[tryMe[r]] = <<>>
      BY <2>1 DEF BatchesShort, Typed, TypeOK
    <2>3. toSend[r] \o misorderedReplies[tryMe[r]] = toSend[r]
      BY <2>2, ConcatEmptySeq
    <2>4. toSend' = toSend
      BY <2>1, <2>2, <2>3
    <2>5. \A q \in Roommate : Coming(q)' = Coming(q)
      BY <2>1 DEF Coming
    <2>6. \A n \in DOMAIN misorderedReplies' : misorderedReplies'[n] = <<>>
      BY <2>1 DEF BatchesShort
    <2> QED
      BY <2>1, <2>4, <2>5, <2>6, PlacesKept
  <1>7. ASSUME NEW r \in Roommate, Deliver(r) PROVE Goal
    BY <1>7, PlacesDeliver
  <1>8. ASSUME NEW r \in Roommate, AnswerEmpty(r) PROVE Goal
    <2>1. /\ http[r].st # "replied"
          /\ http' = [http EXCEPT ![r] = Reply(NoSerial, NoChunk)]
          /\ UNCHANGED <<toSend, delivered, issued, misorderedReplies>>
      BY <1>8 DEF AnswerEmpty, workVars, connVars, orderVars
    <2>2. Reply(NoSerial, NoChunk).body = NoChunk
      BY DEF Reply
    <2> QED
      BY <1>2, <2>1, <2>2
  <1>9. ASSUME NEW r \in Roommate, AnswerData(r) PROVE Goal
    BY <1>9, PlacesAnswer
  <1> QED
    <2> HIDE DEF Goal
    <2> USE DEF connVars, orderVars, workVars
    <2>1. ASSUME NEW r \in Roommate, Go(r) PROVE Goal
      <3>1. CASE ReadGoNow(r) \/ TakeWork(r) \/ Park(r) \/ LookForWork(r)
        BY <3>1, <1>1 DEF ReadGoNow, TakeWork, Park, LookForWork
      <3>2. CASE Depart(r) \/ Arrive(r) \/ NoneToAdd(r)
        BY <3>2, <1>1 DEF Depart, Arrive, NoneToAdd
      <3> QED
        BY <2>1, <3>1, <3>2, <1>3, <1>4, <1>6, <1>7 DEF Go
    <2>2. ASSUME NEW r \in Roommate, Quit(r) PROVE Goal
      BY <2>2, <1>1 DEF Quit, QuitOnStop, QuitAfterOther
    <2>3. CASE QuitOnInactivity \/ Finish \/ InactiveTimerFires
      BY <2>3, <1>1
      DEF QuitOnInactivity, Finish, Notify, AlphaDone, BetaDone, InactiveTimerFires
    <2>4. CASE Monitor \/ StopCalled \/ Stop \/ ReadChunk \/ WriteReply \/ Hangup
      BY <2>4, <1>1
      DEF Monitor, MonitorSeesHangup, MonitorRequestsStop, MonitorSeesStop,
          MonitorDone, StopCalled, Stop, StopRw, StopHome, ReadChunk, WriteReply, Hangup
    <2>5. CASE UNCHANGED vars
      BY <2>5, <1>1 DEF vars
    <2> QED
      BY <2>1, <2>2, <2>3, <2>4, <2>5, <1>5, <1>8, <1>9 DEF Next, ClientNext, Answer

LEMMA RepliesInit == Init => RepliesInv
  <1> SUFFICES ASSUME Init PROVE RepliesInv
    OBVIOUS
  <1>1. /\ \A r \in Roommate : toSend[r] = <<>> /\ http[r].st = "idle"
        /\ delivered = <<>> /\ issued = 0 /\ misorderedReplies = <<>>
    BY DEF Init, Idle
  <1>2. BatchesShort
    BY <1>1 DEF BatchesShort
  <1>3. OnePlace
    BY <1>1 DEF OnePlace, Held1, Coming, FirstOf, Apart, NoChunk
  <1> QED
    BY <1>1, <1>2, <1>3 DEF RepliesInv, Awaited, Everywhere

LEMMA RepliesAlways == Spec => [](Typed /\ RepliesInv)
  <1>1. Typed /\ RepliesInv /\ [Next]_vars => RepliesInv'
    BY PlacesStep, AwaitedStep, LeavingForGood DEF RepliesInv
  <1> QED
    BY <1>1, TypedAlways, RepliesInit, PTL DEF Spec

\* A reply reaches the upstream client at most once, although it may be stored
\* as misordered by one goroutine and played back by the other: what is stored
\* is empty (StoredResponse), so that only the receiver hands it on.
THEOREM OnceCorrect == Spec => []EachReplyOnce
  <1>1. Typed /\ RepliesInv => EachReplyOnce
    <2> SUFFICES ASSUME Typed, RepliesInv, NEW c \in ReplyChunk,
                        NEW p \in HandedAt(c), NEW q \in HandedAt(c)
                 PROVE  p = q
      BY DEF EachReplyOnce
    <2>1. c # NoChunk
      BY ChaserAssumption DEF ReplyChunk, NoChunk
    <2>2. \/ \E i \in 1..Len(delivered) : p = <<"sent", i, 1>> /\ Sent(i) = c
          \/ \E r \in Roommate : p = <<"held", r, 1>> /\ Held1(r) = c
      BY HandedPlaces DEF RepliesInv
    <2>3. \/ \E i \in 1..Len(delivered) : q = <<"sent", i, 1>> /\ Sent(i) = c
          \/ \E r \in Roommate : q = <<"held", r, 1>> /\ Held1(r) = c
      BY HandedPlaces DEF RepliesInv
    <2> QED
      BY <2>1, <2>2, <2>3 DEF RepliesInv, OnePlace, Apart
  <1> QED
    BY <1>1, RepliesAlways, PTL

\* No reply with data is lost while both goroutines are in their loops.
THEOREM NotLostCorrect == Spec => []ReplyNotLost
  <1>1. Typed /\ RepliesInv => ReplyNotLost
    <2> SUFFICES ASSUME Typed, RepliesInv, Nobody(Leaving), NEW c \in 1..issued
                 PROVE  \/ HandedAt(c) # {}
                        \/ \E r \in Roommate : http[r].st = "replied" /\ http[r].body = c
      BY DEF ReplyNotLost
    <2>1. c \in ReplyChunk /\ c # NoChunk
      BY ChaserAssumption DEF Typed, TypeOK, ReplyChunk, NoChunk
    <2>2. CASE \E r \in Roommate : Coming(r) = c
      BY <2>1, <2>2 DEF Coming
    <2>3. CASE \E r \in Roommate : Held1(r) = c
      <3>1. PICK r \in Roommate : Held1(r) = c
        BY <2>3
      <3>2. <<"held", r, 1>> \in HandedAt(c)
        BY <2>1, <3>1, HandedPlaces DEF RepliesInv
      <3> QED
        BY <3>2
    <2>4. CASE \E i \in 1..Len(delivered) : Sent(i) = c
      <3>1. PICK i \in 1..Len(delivered) : Sent(i) = c
        BY <2>4
      <3>2. <<"sent", i, 1>> \in HandedAt(c)
        BY <2>1, <3>1, HandedPlaces DEF RepliesInv
      <3> QED
        BY <3>2
    <2> QED
      BY <2>2, <2>3, <2>4 DEF RepliesInv, Everywhere
  <1> QED
    BY <1>1, RepliesAlways, PTL
-----------------------------------------------------------------------------
(***************************************************************************)
(* Work.                                                                   *)
(***************************************************************************)

\* Whoever is about to take work has none: neither select overwrites a chunk.
WorkInPlace ==
  \A r \in Roommate : work[r] # NoChunk => pc[r] \in {"depart", "request"} \cup Leaving

WorkInv == WorkInPlace /\ WorkNotLost

LEMMA WorkInPlaceStep == Typed /\ WorkInPlace /\ [Next]_vars => WorkInPlace'
  <1> SUFFICES ASSUME Typed, WorkInPlace, [Next]_vars PROVE WorkInPlace'
    OBVIOUS
  <1> USE DEF WorkInPlace, Leaving
  <1>1. pc \in [Roommate -> Place] /\ work \in [Roommate -> Chunk \cup {NoChunk}]
    BY DEF Typed, TypeOK
  <1>2. ASSUME NEW r \in Roommate, NEW place, Goto(r, place), work' = work,
               pc[r] \in {"depart", "request"} \cup Leaving
                 => place \in {"depart", "request"} \cup Leaving
        PROVE  WorkInPlace'
    BY <1>1, <1>2 DEF Goto
  <1>3. CASE UNCHANGED <<pc, work>>
    BY <1>3
  <1>4. ASSUME NEW r \in Roommate, Go(r) PROVE WorkInPlace'
    <2>1. CASE TakeWork(r) \/ LookForWork(r)
      BY <1>1, <2>1 DEF TakeWork, LookForWork, Goto
    <2>2. CASE PostRequest(r)
      BY <1>1, <2>2 DEF PostRequest, Goto
    <2>3. CASE Arrive(r)
      BY <1>1, <2>3 DEF Arrive, SentOut
    <2>4. CASE ReadGoNow(r) \/ Park(r) \/ Depart(r) \/ NoneToAdd(r) \/ Deliver(r)
      BY <2>4, <1>2 DEF ReadGoNow, Park, Depart, NoneToAdd, Deliver
    <2>5. CASE ReceiveEmpty(r) \/ ReceiveInOrder(r) \/ ReceiveMisordered(r)
      BY <2>5, <1>2 DEF ReceiveEmpty, ReceiveInOrder, ReceiveMisordered, Receive
    <2>6. CASE AddIfPresent(r)
      BY <2>6, <1>3 DEF AddIfPresent
    <2> QED
      BY <1>4, <2>1, <2>2, <2>3, <2>4, <2>5, <2>6 DEF Go
  <1>5. ASSUME NEW r \in Roommate, Quit(r) \/ HttpError(r) \/ RequestCancelled(r)
        PROVE  WorkInPlace'
    BY <1>5, <1>2
    DEF Quit, QuitOnStop, QuitAfterOther, HttpError, RequestCancelled, FailRequest
  <1>6. CASE QuitOnInactivity \/ Finish
    BY <1>6, <1>2
    DEF QuitOnInactivity, Finish, Notify, AlphaDone, BetaDone, Roommate, workVars
  <1> QED
    BY <1>3, <1>4, <1>5, <1>6
    DEF Next, ClientNext, InactiveTimerFires, Monitor, MonitorSeesHangup,
        MonitorRequestsStop, MonitorSeesStop, MonitorDone, StopCalled,
        Stop, StopRw, StopHome, ReadChunk, WriteReply, Hangup,
        Answer, AnswerEmpty, AnswerData, workVars, vars

LEMMA WorkStep == Typed /\ WorkInv /\ [Next]_vars => WorkNotLost'
  <1> SUFFICES ASSUME Typed, WorkInv, [Next]_vars, Nobody(Leaving)'
               PROVE  WorkNotLost'
    BY DEF WorkNotLost
  <1>1. Nobody(Leaving)
    BY LeavingForGood
  <1>2. read = Len(incoming) + InHand("alpha") + InHand("beta")
                 + nextSendSerialNumber - 1
    BY <1>1 DEF WorkInv, WorkNotLost
  <1>3. /\ work \in [Roommate -> Chunk \cup {NoChunk}] /\ NoChunk \notin Chunk
        /\ incoming \in Seq(Chunk) /\ Len(incoming) \in Nat
        /\ read \in Nat /\ nextSendSerialNumber \in Nat
        /\ InHand("alpha") \in Nat /\ InHand("beta") \in Nat
    BY ChaserAssumption DEF Typed, TypeOK, Chunk, NoChunk, InHand
  <1>4. ASSUME NEW r \in Roommate, work[r] = NoChunk, incoming # <<>>,
               work' = [work EXCEPT ![r] = Head(incoming)],
               incoming' = Tail(incoming), read' = read,
               nextSendSerialNumber' = nextSendSerialNumber
        PROVE  WorkNotLost'
    <2>1. /\ Head(incoming) # NoChunk
          /\ Len(incoming') = Len(incoming) - 1
      BY <1>3, <1>4, HeadTailProperties
    <2>2. /\ InHand(r) = 0 /\ InHand(r)' = 1
          /\ InHand(Other(r))' = InHand(Other(r))
      BY <1>3, <1>4, <2>1 DEF InHand, Other, Roommate
    <2> QED
      BY <1>2, <1>3, <1>4, <2>1, <2>2 DEF WorkNotLost, Other, Roommate
  <1>5. ASSUME NEW r \in Roommate, PostRequest(r) PROVE WorkNotLost'
    <2>1. CASE work[r] = NoChunk
      <3>1. work' = work /\ nextSendSerialNumber' = nextSendSerialNumber
        BY <1>3, <1>5, <2>1 DEF PostRequest
      <3> QED
        BY <1>2, <1>5, <3>1 DEF PostRequest, connVars, WorkNotLost, InHand
    <2>2. CASE work[r] # NoChunk
      <3>1. /\ nextSendSerialNumber' = nextSendSerialNumber + 1
            /\ incoming' = incoming /\ read' = read
            /\ work' = [work EXCEPT ![r] = NoChunk]
        BY <1>5, <2>2 DEF PostRequest, connVars
      <3>2. /\ InHand(r) = 1 /\ InHand(r)' = 0
            /\ InHand(Other(r))' = InHand(Other(r))
        BY <1>3, <2>2, <3>1 DEF InHand, Other, Roommate
      <3> QED
        BY <1>2, <1>3, <3>1, <3>2 DEF WorkNotLost, Other, Roommate
    <2> QED
      BY <2>1, <2>2
  <1>6. CASE ReadChunk
    <2>1. Len(incoming') = Len(incoming) + 1
      BY <1>3, <1>6 DEF ReadChunk
    <2>2. /\ read' = read + 1 /\ nextSendSerialNumber' = nextSendSerialNumber
          /\ InHand("alpha")' = InHand("alpha") /\ InHand("beta")' = InHand("beta")
      BY <1>6 DEF ReadChunk, workVars, orderVars, InHand
    <2> QED
      BY <1>2, <1>3, <2>1, <2>2 DEF WorkNotLost
  <1>7. CASE UNCHANGED <<work, incoming, read, nextSendSerialNumber>>
    BY <1>2, <1>7 DEF WorkNotLost, InHand
  <1>8. ASSUME NEW r \in Roommate, Go(r) PROVE WorkNotLost'
    <2>1. CASE TakeWork(r) \/ LookForWork(r)
      <3>1. work[r] = NoChunk
        BY <2>1, <1>1 DEF TakeWork, LookForWork, WorkInv, WorkInPlace, Nobody
      <3>2. \/ /\ incoming # <<>> /\ incoming' = Tail(incoming)
               /\ work' = [work EXCEPT ![r] = Head(incoming)]
            \/ UNCHANGED <<work, incoming>>
        BY <2>1 DEF TakeWork, LookForWork
      <3>3. read' = read /\ nextSendSerialNumber' = nextSendSerialNumber
        BY <2>1 DEF TakeWork, LookForWork, orderVars
      <3> QED
        BY <1>4, <1>7, <3>1, <3>2, <3>3
    <2>2. CASE ReadGoNow(r) \/ Park(r) \/ Depart(r) \/ Arrive(r)
      BY <2>2, <1>7 DEF ReadGoNow, Park, Depart, Arrive, connVars, orderVars
    <2>3. CASE \/ ReceiveEmpty(r) \/ ReceiveInOrder(r) \/ ReceiveMisordered(r)
               \/ AddIfPresent(r) \/ NoneToAdd(r) \/ Deliver(r)
      BY <2>3, <1>7
      DEF ReceiveEmpty, ReceiveInOrder, ReceiveMisordered, Receive, AddIfPresent,
          NoneToAdd, Deliver, connVars, orderVars
    <2> QED
      BY <1>8, <1>5, <2>1, <2>2, <2>3 DEF Go
  <1>9. ASSUME NEW r \in Roommate,
               Quit(r) \/ HttpError(r) \/ RequestCancelled(r) \/ Answer(r)
        PROVE  WorkNotLost'
    BY <1>9, <1>7
    DEF Quit, QuitOnStop, QuitAfterOther, HttpError, RequestCancelled, FailRequest,
        Answer, AnswerEmpty, AnswerData, workVars, connVars, orderVars
  <1>10. CASE QuitOnInactivity \/ Finish \/ InactiveTimerFires \/ Monitor
              \/ StopCalled \/ Stop \/ WriteReply \/ Hangup
    BY <1>10, <1>7
    DEF QuitOnInactivity, Finish, Notify, AlphaDone, BetaDone, InactiveTimerFires,
        Monitor, MonitorSeesHangup, MonitorRequestsStop, MonitorSeesStop,
        MonitorDone, StopCalled, Stop, StopRw, StopHome, WriteReply, Hangup,
        workVars, connVars, orderVars
  <1> QED
    BY <1>6, <1>7, <1>8, <1>9, <1>10
    DEF Next, ClientNext, vars, workVars, connVars, orderVars

\* No chunk from upstream is lost while both goroutines are in their loops.
THEOREM WorkCorrect == Spec => []WorkNotLost
  <1>1. Init => WorkInv
    BY DEF Init, WorkInv, WorkInPlace, WorkNotLost, InHand, Roommate
  <1>2. Typed /\ WorkInv /\ [Next]_vars => WorkInv'
    BY WorkInPlaceStep, WorkStep DEF WorkInv
  <1> QED
    BY <1>1, <1>2, TypedAlways, PTL DEF Spec, WorkInv
=============================================================================

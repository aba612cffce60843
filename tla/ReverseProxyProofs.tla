-------------------------- MODULE ReverseProxyProofs --------------------------
(***************************************************************************)
(* The safety properties of ReverseProxy, for any number of keys and of    *)
(* requests, and wherever a Stop or a panic comes in.                      *)
(***************************************************************************)
EXTENDS ReverseProxy, TLAPS

(***************************************************************************)
(* What the properties need to be inductive.                               *)
(***************************************************************************)

\* A packet belongs to a handler that waits or has given up, and one that went
\* beyond the muxer to a key that was made here.
PacketsPlaced ==
  /\ \A h \in Handler : pack[h] # "none" => st[h] \in {"wait", "returned"}
  /\ \A h \in Handler : pack[h] \in {"muxer", "held"} => key[h] \in Key
  /\ mux = "hand" =>
       /\ inHand \in Handler
       /\ pack[inHand] = "muxer" /\ key[inHand] \in Key

\* What createHandler holds is a key of this server.
KeysMade == \A h \in Handler : st[h] \in {"enqueue", "reply"} => key[h] \in Key

\* A key reaches a client only after the muxer has put its tunnel in the map,
\* and a client posts nothing else, except keys of other servers.
KeysKnown ==
  /\ given \subseteq tunnelMap \cup closeKey
  /\ \A h \in Handler : st[h] = "reply" => key[h] \in tunnelMap \cup closeKey
  /\ \A h \in Handler : st[h] = "inject" => key[h] \in given \cup StaleKey

Placed == TypeOK /\ PacketsPlaced /\ KeysMade
-------------------------------------------------------------------------------
(***************************************************************************)
(* Types and places.                                                       *)
(***************************************************************************)

LEMMA PlacedInit == Init => Placed
  <1> SUFFICES ASSUME Init PROVE Placed
    OBVIOUS
  <1>1. {reqStop, accepting, crashed} \subseteq BOOLEAN
    BY Zenon DEF Init
  <1>2. TypeOK
    BY <1>1 DEF Init, TypeOK
  <1>3. PacketsPlaced /\ KeysMade
    BY DEF Init, PacketsPlaced, KeysMade
  <1> QED
    BY <1>2, <1>3 DEF Placed

\* Every step keeps types and places.
LEMMA PlacedStep == Placed /\ [Next]_vars => Placed'
  <1> SUFFICES ASSUME Placed, [Next]_vars PROVE Placed'
    OBVIOUS
  <1> USE DEF Placed, TypeOK, PacketsPlaced, KeysMade, At, MuxAt, PollerIs,
              Move, Put, muxVars, pollerVars, stopVars, handlerVars
  <1>1. ASSUME NEW h \in Handler, Packet(h) PROVE Placed'
    <2>1. CASE Inject(h)
      BY <2>1, ProxyAssumption DEF Inject, AfterInject
    <2>2. CASE InjectQuits(h)
      BY <2>2 DEF InjectQuits, AfterInject
    <2>3. CASE Answered(h)
      BY <2>3 DEF Answered
    <2>4. CASE WaitQuits(h)
      BY <2>4 DEF WaitQuits
    <2> QED
      BY <1>1, <2>1, <2>2, <2>3, <2>4 DEF Packet
  <1>2. ASSUME NEW h \in Handler, Create(h) PROVE Placed'
    <2>1. CASE DialFails(h)
      BY <2>1 DEF DialFails
    <2>2. CASE Enqueue(h)
      BY <2>2 DEF Enqueue
    <2>3. CASE ReplyKey(h)
      BY <2>3 DEF ReplyKey
    <2>4. ASSUME NEW k \in Key, DialSucceeds(h, k) PROVE Placed'
      BY <2>4 DEF DialSucceeds
    <2> QED
      BY <1>2, <2>1, <2>2, <2>3, <2>4 DEF Create
  <1>3. ASSUME NEW h \in Handler, Close(h) PROVE Placed'
    BY <1>3 DEF Close, CloseTunnel, CloseQuits
  <1>4. ASSUME NEW h \in Handler, Arrival(h) PROVE Placed'
    <2>1. CASE CreateArrives(h)
      BY <2>1 DEF CreateArrives
    <2>2. ASSUME NEW k \in Key \cup StaleKey,
                 PacketArrives(h, k) \/ CloseArrives(h, k)
          PROVE  Placed'
      BY <2>2 DEF PacketArrives, CloseArrives
    <2> QED
      BY <1>4, <2>1, <2>2 DEF Arrival
  <1>5. ASSUME NEW h \in Handler, PollerAnswers(h) PROVE Placed'
    BY <1>5 DEF PollerAnswers
  <1>6. CASE Muxer
    <2>1. CASE HandOver
      BY <2>1 DEF HandOver
    <2>2. CASE MuxQuits \/ StopWeb \/ WebStopped
      BY <2>2 DEF MuxQuits, StopWeb, WebStopped
    <2>3. ASSUME NEW k \in Key, StopPoller(k) PROVE Placed'
      BY <2>3 DEF StopPoller
    <2> QED
      BY <1>6, <2>1, <2>2, <2>3 DEF Muxer
  <1>7. CASE StopCalled
    BY <1>7 DEF StopCalled
  <1>8. ASSUME NEW k \in Key, Poller(k) PROVE Placed'
    <2>1. CASE PollerTurns(k) \/ PollerEnds(k)
      BY <2>1 DEF PollerTurns, PollerEnds
    <2>2. CASE PollerPanics(k)
      BY <2>2 DEF PollerPanics
    <2> QED
      BY <1>8, <2>1, <2>2 DEF Poller
  <1>9. CASE UNCHANGED vars
    BY <1>9 DEF vars
  <1> QED
    BY <1>1, <1>2, <1>3, <1>4, <1>5, <1>6, <1>7, <1>8, <1>9
    DEF Next, Serves

LEMMA PlacedAlways == Spec => []Placed
  BY PlacedInit, PlacedStep, PTL DEF Spec

\* Every variable keeps its type: in particular the muxer closes channels of
\* tunnels that were made here only, whatever key a request carries.
THEOREM TypeCorrect == Spec => []TypeOK
  <1>1. Placed => TypeOK
    BY DEF Placed
  <1> QED
    BY <1>1, PlacedAlways, PTL
-------------------------------------------------------------------------------
(***************************************************************************)
(* Keys: what was made, what the muxer knows, what the clients know.       *)
(***************************************************************************)

\* A running LongPoller stays in the map, or on the list of those told to
\* close, from the moment its createHandler leaves the send.
LEMMA NoOrphansStep == Placed /\ NoOrphans /\ [Next]_vars => NoOrphans'
  <1> SUFFICES ASSUME Placed, NoOrphans, [Next]_vars PROVE NoOrphans'
    OBVIOUS
  <1> USE DEF Placed, TypeOK, PacketsPlaced, KeysMade, NoOrphans, At, MuxAt,
              PollerIs, Move, Put, muxVars, pollerVars, stopVars, handlerVars
  <1>1. ASSUME NEW h \in Handler, Packet(h) PROVE NoOrphans'
    BY <1>1 DEF Packet, Inject, InjectQuits, Answered, WaitQuits, AfterInject
  <1>2. ASSUME NEW h \in Handler, Create(h) PROVE NoOrphans'
    <2>1. CASE DialFails(h)
      BY <2>1 DEF DialFails
    <2>2. CASE Enqueue(h)
      BY <2>2 DEF Enqueue
    <2>3. CASE ReplyKey(h)
      BY <2>3 DEF ReplyKey
    <2>4. ASSUME NEW k \in Key, DialSucceeds(h, k) PROVE NoOrphans'
      BY <2>4 DEF DialSucceeds
    <2> QED
      BY <1>2, <2>1, <2>2, <2>3, <2>4 DEF Create
  <1>3. ASSUME NEW h \in Handler, Close(h) PROVE NoOrphans'
    BY <1>3 DEF Close, CloseTunnel, CloseQuits
  <1>4. ASSUME NEW h \in Handler, Arrival(h) PROVE NoOrphans'
    BY <1>4 DEF Arrival, CreateArrives, PacketArrives, CloseArrives
  <1>5. ASSUME NEW h \in Handler, PollerAnswers(h) PROVE NoOrphans'
    BY <1>5 DEF PollerAnswers
  <1>6. CASE Muxer
    <2>1. CASE HandOver
      BY <2>1 DEF HandOver
    <2>2. CASE MuxQuits \/ StopWeb \/ WebStopped
      BY <2>2 DEF MuxQuits, StopWeb, WebStopped
    <2>3. ASSUME NEW k \in Key, StopPoller(k) PROVE NoOrphans'
      BY <2>3 DEF StopPoller
    <2> QED
      BY <1>6, <2>1, <2>2, <2>3 DEF Muxer
  <1>7. CASE StopCalled
    BY <1>7 DEF StopCalled
  <1>8. ASSUME NEW k \in Key, Poller(k) PROVE NoOrphans'
    BY <1>8 DEF Poller, PollerTurns, PollerEnds, PollerPanics
  <1>9. CASE UNCHANGED vars
    BY <1>9 DEF vars
  <1> QED
    BY <1>1, <1>2, <1>3, <1>4, <1>5, <1>6, <1>7, <1>8, <1>9
    DEF Next, Serves

\* No LongPoller is forgotten: finish stops every one that runs, but for those
\* whose createHandler has not come through and those told to close.
THEOREM OrphansCorrect == Spec => []NoOrphans
  <1>1. Init => NoOrphans
    BY DEF Init, NoOrphans
  <1> QED
    BY <1>1, PlacedAlways, NoOrphansStep, PTL DEF Spec

\* What a client may know, the muxer knows or has been told to close.
LEMMA KeysKnownStep ==
  Placed /\ KeysKnown /\ KeyKnownBeforeUse /\ [Next]_vars
    => KeysKnown' /\ KeyKnownBeforeUse'
  <1> DEFINE Goal == KeysKnown' /\ KeyKnownBeforeUse'
  <1> SUFFICES ASSUME Placed, KeysKnown, KeyKnownBeforeUse, [Next]_vars
               PROVE  Goal
    OBVIOUS
  <1> USE DEF Placed, TypeOK, PacketsPlaced, KeysMade, KeysKnown,
              KeyKnownBeforeUse, At, MuxAt, PollerIs, Move, Put, muxVars,
              pollerVars, stopVars, handlerVars
  <1>1. ASSUME NEW h \in Handler, Packet(h) PROVE Goal
    <2>1. CASE Inject(h)
      BY <2>1 DEF Inject, AfterInject
    <2>2. CASE InjectQuits(h) \/ Answered(h) \/ WaitQuits(h)
      BY <2>2 DEF InjectQuits, Answered, WaitQuits, AfterInject
    <2> QED
      BY <1>1, <2>1, <2>2 DEF Packet
  <1>2. ASSUME NEW h \in Handler, Create(h) PROVE Goal
    <2>1. CASE DialFails(h)
      BY <2>1 DEF DialFails
    <2>2. CASE Enqueue(h)
      BY <2>2 DEF Enqueue
    <2>3. CASE ReplyKey(h)
      BY <2>3 DEF ReplyKey
    <2>4. ASSUME NEW k \in Key, DialSucceeds(h, k) PROVE Goal
      BY <2>4 DEF DialSucceeds
    <2> QED
      BY <1>2, <2>1, <2>2, <2>3, <2>4 DEF Create
  <1>3. ASSUME NEW h \in Handler, Close(h) PROVE Goal
    BY <1>3 DEF Close, CloseTunnel, CloseQuits
  <1>4. ASSUME NEW h \in Handler, Arrival(h) PROVE Goal
    BY <1>4 DEF Arrival, CreateArrives, PacketArrives, CloseArrives
  <1>5. ASSUME NEW h \in Handler, PollerAnswers(h) PROVE Goal
    BY <1>5 DEF PollerAnswers
  <1>6. CASE Muxer
    BY <1>6 DEF Muxer, HandOver, MuxQuits, StopWeb, WebStopped, StopPoller
  <1>7. CASE StopCalled
    BY <1>7 DEF StopCalled
  <1>8. ASSUME NEW k \in Key, Poller(k) PROVE Goal
    BY <1>8 DEF Poller, PollerTurns, PollerEnds, PollerPanics
  <1>9. CASE UNCHANGED vars
    BY <1>9 DEF vars
  <1> QED
    BY <1>1, <1>2, <1>3, <1>4, <1>5, <1>6, <1>7, <1>8, <1>9
    DEF Next, Serves

\* A packet with a key that its client was given is dropped only after a
\* request to close the key.
THEOREM KeysCorrect == Spec => []KeyKnownBeforeUse
  <1>1. Init => KeysKnown /\ KeyKnownBeforeUse
    BY DEF Init, KeysKnown, KeyKnownBeforeUse
  <1> QED
    BY <1>1, PlacedAlways, KeysKnownStep, PTL DEF Spec
-------------------------------------------------------------------------------
(***************************************************************************)
(* Replies.                                                                *)
(***************************************************************************)

\* Until a Stop, a handler leaves only when its packet has been answered.
LEMMA ResponseWriterStep ==
  Placed /\ ResponseWriterLive /\ [Next]_vars => ResponseWriterLive'
  <1> SUFFICES ASSUME Placed, ResponseWriterLive, [Next]_vars
               PROVE  ResponseWriterLive'
    OBVIOUS
  <1> USE DEF Placed, TypeOK, PacketsPlaced, ResponseWriterLive, At, MuxAt,
              PollerIs, Move, Put, muxVars, pollerVars, stopVars, handlerVars
  <1>1. ASSUME NEW h \in Handler, Packet(h) PROVE ResponseWriterLive'
    <2>1. CASE Inject(h)
      BY <2>1 DEF Inject, AfterInject
    <2>2. CASE InjectQuits(h) \/ Answered(h) \/ WaitQuits(h)
      BY <2>2 DEF InjectQuits, Answered, WaitQuits, AfterInject
    <2> QED
      BY <1>1, <2>1, <2>2 DEF Packet
  <1>2. ASSUME NEW h \in Handler, Create(h) PROVE ResponseWriterLive'
    BY <1>2 DEF Create, DialFails, Enqueue, ReplyKey, DialSucceeds
  <1>3. ASSUME NEW h \in Handler, Close(h) PROVE ResponseWriterLive'
    BY <1>3 DEF Close, CloseTunnel, CloseQuits
  <1>4. ASSUME NEW h \in Handler, Arrival(h) PROVE ResponseWriterLive'
    BY <1>4 DEF Arrival, CreateArrives, PacketArrives, CloseArrives
  <1>5. ASSUME NEW h \in Handler, PollerAnswers(h) PROVE ResponseWriterLive'
    BY <1>5 DEF PollerAnswers
  <1>6. CASE Muxer
    BY <1>6 DEF Muxer, HandOver, MuxQuits, StopWeb, WebStopped, StopPoller
  <1>7. CASE StopCalled
    BY <1>7 DEF StopCalled
  <1>8. ASSUME NEW k \in Key, Poller(k) PROVE ResponseWriterLive'
    BY <1>8 DEF Poller, PollerTurns, PollerEnds, PollerPanics
  <1>9. CASE UNCHANGED vars
    BY <1>9 DEF vars
  <1> QED
    BY <1>1, <1>2, <1>3, <1>4, <1>5, <1>6, <1>7, <1>8, <1>9
    DEF Next, Serves

\* A LongPoller that writes to a ResponseWriter finds its handler waiting, as
\* long as nobody has called Stop.
THEOREM ResponseWriterCorrect == Spec => []ResponseWriterLive
  <1>1. Init => ResponseWriterLive
    BY DEF Init, ResponseWriterLive
  <1> QED
    BY <1>1, PlacedAlways, ResponseWriterStep, PTL DEF Spec
===============================================================================

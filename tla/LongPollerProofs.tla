-------------------------- MODULE LongPollerProofs --------------------------
(***************************************************************************)
(* The safety properties of LongPoller, for every number of chunks, every  *)
(* channel capacity and every disturbance.                                 *)
(***************************************************************************)
EXTENDS LongPoller, SequenceTheorems, TLAPS

(***************************************************************************)
(* What the safety properties need to be inductive.                        *)
(***************************************************************************)

\* Where a request is.  A data request on its way carries a serial number that
\* the poller has not seen in any form, and no two on their way carry the same.
RequestsFresh ==
  /\ lastRequestSerialNumberSeen <= posted
  /\ \A n \in DOMAIN misorderedRequests : n <= posted
  /\ \A r \in Roommate :
       http[r].st = "sent" /\ http[r].ser # NoSerial =>
         /\ http[r].body = http[r].ser
         /\ http[r].ser > lastRequestSerialNumberSeen
         /\ http[r].ser <= posted
         /\ http[r].ser \notin DOMAIN misorderedRequests
  /\ \A r, q \in Roommate :
       /\ http[r].st = "sent" /\ http[q].st = "sent"
       /\ http[r].ser = http[q].ser /\ http[r].ser # NoSerial
       => r = q

\* What has been sent on, with what the goroutine has in its hands.  Bytes are
\* dropped only after reqStop, and then no packet is taken any more.
StreamSplit ==
  /\ \A i \in 1..Len(sent) : sent[i] = i
  /\ \A i \in 1..Len(writeMe) : writeMe[i] = Len(sent) + i
  /\ pc \notin {"coalesce", "send", "blocked"} => writeMe = <<>>
  /\ pc \in {"coalesce", "send", "blocked"} \/ ~reqStop =>
       Len(sent) + Len(writeMe) = lastRequestSerialNumberSeen

\* How many requests wait, and that the select listens only for one of them.
WaitersBounded ==
  /\ pc \in {"top", "select"} => Len(waiters) <= 1
  /\ pc \in {"coalesce", "send", "blocked", "conclude"} => Len(waiters) \in 1..2
  /\ listening /\ pc = "select" => waiters # <<>>
  /\ listening => pc \in {"select", "stopped", "panicked"}

\* The buffered data continues the data that was replied.
StreamRead == pc # "panicked" => readDown = nextReplySerial - 1 + Len(fromDown)

-----------------------------------------------------------------------------
(***************************************************************************)
(* Lemmas about the request FIFO.                                          *)
(***************************************************************************)

\* What PushLeft does to the waiters and to their number.
LEMMA PushLeftFacts ==
  ASSUME waiters \in Seq(Roommate), NEW r \in Roommate
  PROVE  /\ PushLeft(r) \in Seq(Roommate)
         /\ Len(PushLeft(r)) = Len(waiters) + 1
         /\ PushLeft(r)[1] = r
         /\ \A i \in 1..Len(waiters) : PushLeft(r)[i + 1] = waiters[i]
  BY DEF PushLeft

\* What PopRight leaves.
LEMMA PopRightFacts ==
  ASSUME waiters \in Seq(Roommate), waiters # <<>>
  PROVE  /\ AfterPopRight \in Seq(Roommate)
         /\ Len(AfterPopRight) = Len(waiters) - 1
         /\ \A i \in 1..Len(waiters) - 1 : AfterPopRight[i] = waiters[i]
         /\ PeekRight \in Roommate
         /\ Len(waiters) \in Nat \ {0}
  <1>1. Len(waiters) \in Nat \ {0}
    BY EmptySeq
  <1>2. /\ AfterPopRight \in Seq(Roommate)
        /\ Len(AfterPopRight) = Len(waiters) - 1
        /\ \A i \in 1..Len(waiters) - 1 : AfterPopRight[i] = waiters[i]
    <2> DEFINE n == Len(waiters) - 1
    <2>0. \A k \in Nat \ {0} : k - 1 \in Nat
      OBVIOUS
    <2>1. n \in Nat
      BY <1>1, <2>0
    <2>2. \A i \in 1..n : waiters[i] \in Roommate /\ 1 + i - 1 = i
      BY <1>1, ElementOfSeq
    <2> HIDE DEF n
    <2>3. /\ SubSeq(waiters, 1, n) \in Seq(Roommate)
          /\ Len(SubSeq(waiters, 1, n)) = IF 1 <= n THEN n - 1 + 1 ELSE 0
          /\ \A i \in 1..n - 1 + 1 : SubSeq(waiters, 1, n)[i] = waiters[1 + i - 1]
      BY <2>1, <2>2, SubSeqProperties
    <2>4. /\ Len(SubSeq(waiters, 1, n)) = n
          /\ \A i \in 1..n : SubSeq(waiters, 1, n)[i] = waiters[i]
      BY <2>1, <2>2, <2>3
    <2> QED
      BY <2>3, <2>4 DEF AfterPopRight, n
  <1>3. PeekRight \in Roommate
    BY <1>1, ElementOfSeq DEF PeekRight
  <1> QED
    BY <1>1, <1>2, <1>3
-----------------------------------------------------------------------------
(***************************************************************************)
(* Types.                                                                  *)
(***************************************************************************)

\* A reply, and the request and its stages, are exchanges.
LEMMA ExchangeFacts ==
  /\ Idle \in Exchange(Nat) /\ Gone \in Exchange(Nat)
  /\ Request(NoSerial, NoChunk) \in Exchange(Nat)
  /\ \A n \in Nat : Request(n + 1, n + 1) \in Exchange(Nat)
  /\ Reply(NoSerial, NoChunk) \in Exchange(Nat)
  /\ \A n \in Nat \ {0}, b \in Nat : Reply(n, b) \in Exchange(Nat)
  /\ \A b \in Nat : Reply(NoSerial, b) \in Exchange(Nat)
  /\ \A e \in Exchange(Nat) : /\ Held(e) \in Exchange(Nat)
                              /\ Held(e).ser = e.ser /\ Held(e).body = e.body
                              /\ Held(e).st = "parked"
  BY DEF Exchange, Idle, Gone, Request, Reply, Held, NoSerial, NoChunk

\* sendReplyUpstream keeps the types of what it changes.
LEMMA ReplyType ==
  ASSUME TypeOK, NEW b \in Nat, sendReplyUpstream(b)
  PROVE  /\ http' \in [Roommate -> Exchange(Nat)]
         /\ nextReplySerial' \in Nat \ {0}
         /\ waiters' \in Seq(Roommate)
         /\ armed' \in BOOLEAN
  BY PopRightFacts, ExchangeFacts
     DEF TypeOK, sendReplyUpstream, Numbered, TimerAfterReply

\* Every step keeps the types.
LEMMA TypeStep == TypeOK /\ [Next]_vars => TypeOK'
  <1> SUFFICES ASSUME TypeOK, [Next]_vars PROVE TypeOK'
    OBVIOUS
  <1> USE DEF TypeOK, orderVars, timerVars, upVars, downVars, stopVars
  <1>1. CASE EnterSelect
    BY <1>1 DEF EnterSelect
  <1>2. CASE PollTimeUp
    BY <1>2, ReplyType DEF PollTimeUp, NoChunk
  <1>3. CASE ReplyFromDownstream
    <2>1. Head(fromDown) \in Nat /\ Tail(fromDown) \in Seq(Nat)
      BY <1>3 DEF ReplyFromDownstream
    <2> QED
      BY <1>3, <2>1, ReplyType DEF ReplyFromDownstream
  <1>4. CASE WriteFails
    BY <1>4 DEF WriteFails
  <1>5. CASE Coalesce
    BY <1>5 DEF Coalesce, NextStored, RestStored
  <1>6. CASE CoalesceEnds
    BY <1>6 DEF CoalesceEnds
  <1>7. CASE SendDownstream
    BY <1>7, PollerAssumption DEF SendDownstream, HasRoom
  <1>8. CASE SendAbandoned
    BY <1>8 DEF SendAbandoned
  <1>9. CASE Conclude
    BY <1>9, ReplyType DEF Conclude, NoChunk
  <1>10. CASE QuitOnStop
    BY <1>10 DEF QuitOnStop
  <1>11. CASE CloseAll
    <2>1. http' \in [Roommate -> Exchange(Nat)]
      BY <1>11, ExchangeFacts DEF CloseAll
    <2>2. waiters' \in Seq(Roommate)
      BY <1>11, EmptySeq DEF CloseAll
    <2> QED
      BY <1>11, <2>1, <2>2 DEF CloseAll
  <1>12. ASSUME NEW r \in Roommate, Receive(r) PROVE TypeOK'
    <2>1. /\ http[r] \in Exchange(Nat)
          /\ http[r].ser \in {NoSerial} \cup (Nat \ {0})
          /\ http[r].body \in Nat
      BY DEF Exchange, NoChunk
    <2>2. ASSUME TakePacket(r)
          PROVE  /\ http' \in [Roommate -> Exchange(Nat)]
                 /\ waiters' \in Seq(Roommate)
                 /\ armed' \in BOOLEAN /\ tick' \in BOOLEAN
                 /\ listening' \in BOOLEAN
                 /\ UNCHANGED <<nextReplySerial, sent, queued, writerUp, readDown,
                                fromDown, readerUp, reqStop, closeKey, posted>>
      BY <2>1, <2>2, ExchangeFacts, PushLeftFacts DEF TakePacket, ResetTimer
    <2>3. CASE ReceiveEmpty(r)
      BY <2>2, <2>3 DEF ReceiveEmpty
    <2>4. CASE ReceiveInOrder(r)
      <3>1. writeMe' \in Seq(Nat)
        BY <2>1, <2>4 DEF ReceiveInOrder
      <3>2. lastRequestSerialNumberSeen' \in Nat
        BY <2>1, <2>4 DEF ReceiveInOrder
      <3> QED
        BY <2>2, <2>4, <3>1, <3>2 DEF ReceiveInOrder
    <2>5. CASE ReceiveMisordered(r)
      <3>1. /\ DOMAIN misorderedRequests' \subseteq Nat
            /\ \A n \in DOMAIN misorderedRequests' : misorderedRequests'[n] \in Nat
        BY <2>1, <2>5 DEF ReceiveMisordered
      <3>2. pc' \in {"conclude", "panicked"}
        BY <2>5 DEF ReceiveMisordered
      <3> QED
        BY <2>2, <2>5, <3>1, <3>2 DEF ReceiveMisordered
    <2> QED
      BY <1>12, <2>3, <2>4, <2>5 DEF Receive
  <1>13. CASE StopRequested
    BY <1>13 DEF StopRequested
  <1>14. CASE CloseKeyRequested
    BY <1>14 DEF CloseKeyRequested
  <1>15. CASE TimerFires
    BY <1>15 DEF TimerFires
  <1>16. CASE WriterTakes
    BY <1>16, PollerAssumption DEF WriterTakes
  <1>17. CASE WriterEnds
    BY <1>17 DEF WriterEnds
  <1>18. CASE ReaderReads
    BY <1>18 DEF ReaderReads
  <1>19. CASE ReaderEnds
    BY <1>19 DEF ReaderEnds
  <1>20. ASSUME NEW r \in Roommate,
                PostEmpty(r) \/ PostChunk(r) \/ TakeReply(r) \/ ClientGivesUp(r)
         PROVE  TypeOK'
    <2>1. CASE PostEmpty(r)
      BY <2>1, ExchangeFacts DEF PostEmpty
    <2>2. CASE PostChunk(r)
      BY <2>2, ExchangeFacts DEF PostChunk
    <2>3. CASE TakeReply(r)
      BY <2>3, ExchangeFacts DEF TakeReply
    <2>4. CASE ClientGivesUp(r)
      BY <2>4, ExchangeFacts DEF ClientGivesUp
    <2> QED
      BY <1>20, <2>1, <2>2, <2>3, <2>4
  <1>21. CASE UNCHANGED vars
    BY <1>21 DEF vars
  <1> QED
    BY <1>1, <1>2, <1>3, <1>4, <1>5, <1>6, <1>7, <1>8, <1>9, <1>10, <1>11,
       <1>12, <1>13, <1>14, <1>15, <1>16, <1>17, <1>18, <1>19, <1>20, <1>21
       DEF Next, ServerNext, ClientNext, Loop

\* Every variable keeps its type: the channels never hold more buffers than
\* their capacity, and the FIFO holds sockets of this tunnel only.
THEOREM TypeCorrect == Spec => []TypeOK
  <1>1. Init => TypeOK
    <2> SUFFICES ASSUME Init PROVE TypeOK
      OBVIOUS
    <2>1. http \in [Roommate -> Exchange(Nat)]
      BY ExchangeFacts DEF Init
    <2>2. waiters \in Seq(Roommate)
      BY EmptySeq DEF Init
    <2>3. writeMe \in Seq(Nat) /\ sent \in Seq(Nat) /\ fromDown \in Seq(Nat)
      BY EmptySeq DEF Init
    <2>4. DOMAIN misorderedRequests = {}
      BY EmptySeq DEF Init
    <2>5. queued \in 0..ChanCap
      BY PollerAssumption DEF Init
    <2>6. \A n \in DOMAIN misorderedRequests : misorderedRequests[n] \in Nat
      BY <2>4
    <2>7. /\ nextReplySerial \in Nat \ {0}
          /\ lastRequestSerialNumberSeen \in Nat /\ readDown \in Nat /\ posted \in Nat
      BY DEF Init
    <2>8. /\ armed \in BOOLEAN /\ tick \in BOOLEAN /\ listening \in BOOLEAN
          /\ writerUp \in BOOLEAN /\ readerUp \in BOOLEAN
          /\ reqStop \in BOOLEAN /\ closeKey \in BOOLEAN
      BY DEF Init
    <2>9. pc \in {"top", "select", "coalesce", "send", "blocked", "conclude", "stopped",
                  "panicked"}
      BY DEF Init
    <2> QED
      BY <2>1, <2>2, <2>3, <2>4, <2>5, <2>6, <2>7, <2>8, <2>9 DEF TypeOK
  <1> QED
    BY <1>1, TypeStep, PTL DEF Spec
-----------------------------------------------------------------------------
(***************************************************************************)
(* Order.                                                                  *)
(***************************************************************************)

OrderInv == StoredIsAhead /\ RequestsFresh /\ StreamSplit

\* A reply leaves the requests that are on their way alone.
LEMMA ReplyKeepsRequests ==
  ASSUME TypeOK, NEW b \in Nat, sendReplyUpstream(b)
  PROVE  \A r \in Roommate : http'[r].st = "sent" => http'[r] = http[r]
  BY PopRightFacts DEF TypeOK, sendReplyUpstream, Reply

\* RequestsFresh survives as long as nothing is posted and nothing is taken.
LEMMA FreshKept ==
  ASSUME RequestsFresh,
         \A r \in Roommate : http'[r].st = "sent" => http'[r] = http[r],
         UNCHANGED <<lastRequestSerialNumberSeen, misorderedRequests, posted>>
  PROVE  RequestsFresh'
  BY DEF RequestsFresh

\* What an action that takes no packet and posts none owes to OrderInv.
LEMMA OrderKept ==
  ASSUME OrderInv,
         \A r \in Roommate : http'[r].st = "sent" => http'[r] = http[r],
         UNCHANGED <<orderVars, sent, posted>>,
         UNCHANGED reqStop \/ reqStop',
         pc' \notin {"coalesce", "send", "blocked"} => writeMe = <<>>,
         pc' \in {"coalesce", "send", "blocked"} => pc \in {"coalesce", "send", "blocked"}
  PROVE  OrderInv'
  <1>1. RequestsFresh'
    BY FreshKept DEF OrderInv, orderVars
  <1>2. StoredIsAhead'
    BY DEF OrderInv, StoredIsAhead, orderVars
  <1>3. StreamSplit'
    BY DEF OrderInv, StreamSplit, orderVars
  <1> QED
    BY <1>1, <1>2, <1>3 DEF OrderInv

\* What taking a packet out of the network does to the requests that are left
\* there: every one of them was there before, and it is another one.
LEMMA TakenIsGone ==
  ASSUME TypeOK, NEW r \in Roommate, TakePacket(r)
  PROVE  \A q \in Roommate :
           http'[q].st = "sent" => q # r /\ http'[q] = http[q]
  BY ExchangeFacts DEF TypeOK, TakePacket

\* Nothing is on its way at the start.
LEMMA OrderInit == Init => OrderInv
  BY EmptySeq DEF Init, OrderInv, StoredIsAhead, RequestsFresh, StreamSplit, Idle

\* Every step keeps the order of the request stream.
LEMMA OrderStep == TypeOK /\ OrderInv /\ [Next]_vars => OrderInv'
  <1> SUFFICES ASSUME TypeOK, OrderInv, [Next]_vars PROVE OrderInv'
    OBVIOUS
  <1> USE DEF timerVars, upVars, downVars, stopVars
  <1>0. pc \notin {"coalesce", "send", "blocked"} => writeMe = <<>>
    BY DEF OrderInv, StreamSplit
  <1>1. CASE EnterSelect
    BY <1>0, <1>1, OrderKept DEF EnterSelect
  <1>2. CASE PollTimeUp
    BY <1>0, <1>2, OrderKept, ReplyKeepsRequests DEF PollTimeUp, NoChunk
  <1>3. CASE ReplyFromDownstream
    <2>1. Head(fromDown) \in Nat
      BY <1>3 DEF ReplyFromDownstream, TypeOK
    <2> QED
      BY <1>0, <1>3, <2>1, OrderKept, ReplyKeepsRequests DEF ReplyFromDownstream
  <1>4. CASE WriteFails
    BY <1>0, <1>4, OrderKept DEF WriteFails
  <1>5. CASE Coalesce
    <2> DEFINE lookFor == lastRequestSerialNumberSeen + 1
    <2>1. /\ lookFor \in DOMAIN misorderedRequests
          /\ misorderedRequests[lookFor] = lookFor
      BY <1>5 DEF Coalesce, NextStored, OrderInv, StoredIsAhead
    <2>2. StoredIsAhead'
      BY <1>5, <2>1 DEF Coalesce, RestStored, OrderInv, StoredIsAhead, TypeOK
    <2>3. RequestsFresh'
      <3>1. /\ lastRequestSerialNumberSeen' = lookFor
            /\ DOMAIN misorderedRequests' = DOMAIN misorderedRequests \ {lookFor}
            /\ UNCHANGED <<http, posted>>
        BY <1>5 DEF Coalesce, RestStored
      <3>2. \A r \in Roommate :
              http[r].st = "sent" /\ http[r].ser # NoSerial => http[r].ser > lookFor
        <4>1. TAKE r \in Roommate
        <4>2. HAVE http[r].st = "sent" /\ http[r].ser # NoSerial
        <4>3. /\ http[r].ser > lastRequestSerialNumberSeen
              /\ http[r].ser \notin DOMAIN misorderedRequests
          BY <4>2 DEF OrderInv, RequestsFresh
        <4>4. http[r].ser \in Int /\ http[r].ser # lookFor
          BY <2>1, <4>3 DEF TypeOK, Exchange, NoSerial
        <4> QED
          BY <4>3, <4>4 DEF TypeOK
      <3> HIDE DEF lookFor
      <3> QED
        BY <2>1, <3>1, <3>2 DEF OrderInv, RequestsFresh
    <2>4. /\ writeMe' = Append(writeMe, lookFor)
          /\ Len(sent) + Len(writeMe) = lastRequestSerialNumberSeen
      BY <1>5, <2>1 DEF Coalesce, OrderInv, StreamSplit
    <2>5. StreamSplit'
      <3>1. /\ lastRequestSerialNumberSeen' = lookFor
            /\ UNCHANGED <<pc, sent, reqStop>> /\ pc = "coalesce"
        BY <1>5 DEF Coalesce
      <3>2. /\ \A i \in 1..Len(sent) : sent[i] = i
            /\ \A i \in 1..Len(writeMe) : writeMe[i] = Len(sent) + i
        BY DEF OrderInv, StreamSplit
      <3>3. \A i \in 1..Len(writeMe') : writeMe'[i] = Len(sent) + i
        <4>1. /\ writeMe \in Seq(Nat) /\ lookFor \in Nat
              /\ Len(sent) \in Nat /\ Len(writeMe) \in Nat
              /\ lookFor = Len(sent) + (Len(writeMe) + 1)
          <5>1. /\ writeMe \in Seq(Nat) /\ sent \in Seq(Nat)
                /\ lastRequestSerialNumberSeen \in Nat
            BY DEF TypeOK
          <5>2. Len(sent) \in Nat /\ Len(writeMe) \in Nat
            BY <5>1, LenProperties
          <5>3. \A l, m, k \in Nat : l + m = k => k + 1 = l + (m + 1)
            OBVIOUS
          <5>4. lookFor = Len(sent) + (Len(writeMe) + 1)
            BY <2>4, <5>1, <5>2, <5>3
          <5> QED
            BY <5>1, <5>2, <5>4
        <4> HIDE DEF lookFor
        <4>2. Len(writeMe') = Len(writeMe) + 1
          BY <2>4, <4>1
        <4>3. TAKE i \in 1..Len(writeMe')
        <4>4. CASE i = Len(writeMe) + 1
          BY <2>4, <4>1, <4>4
        <4>5. CASE i # Len(writeMe) + 1
          <5>1. i \in 1..Len(writeMe) /\ writeMe'[i] = writeMe[i]
            BY <2>4, <4>1, <4>2, <4>5
          <5> QED
            BY <3>2, <5>1
        <4> QED
          BY <4>4, <4>5
      <3>4. Len(sent) + Len(writeMe') = lookFor
        BY <2>4 DEF TypeOK
      <3> HIDE DEF lookFor
      <3> QED
        BY <3>1, <3>2, <3>3, <3>4 DEF StreamSplit
    <2> QED
      BY <2>2, <2>3, <2>5 DEF OrderInv
  <1>6. CASE CoalesceEnds
    BY <1>0, <1>6, OrderKept DEF CoalesceEnds
  <1>7. CASE SendDownstream
    <2>1. /\ StoredIsAhead'
          /\ RequestsFresh'
      BY <1>7, FreshKept DEF SendDownstream, OrderInv, StoredIsAhead
    <2>2. /\ sent' = sent \o writeMe
          /\ writeMe' = <<>>
          /\ Len(sent) + Len(writeMe) = lastRequestSerialNumberSeen
      BY <1>7 DEF SendDownstream, OrderInv, StreamSplit
    <2>3. \A i \in 1..Len(sent') : sent'[i] = i
      BY <2>2 DEF OrderInv, StreamSplit, TypeOK
    <2>4. Len(sent') + Len(writeMe') = lastRequestSerialNumberSeen
      BY <2>2 DEF TypeOK
    <2>5. StreamSplit'
      BY <1>7, <2>2, <2>3, <2>4 DEF SendDownstream, StreamSplit
    <2> QED
      BY <2>1, <2>5 DEF OrderInv
  <1>8. CASE SendAbandoned
    <2>1. /\ StoredIsAhead'
          /\ RequestsFresh'
      BY <1>8, FreshKept DEF SendAbandoned, OrderInv, StoredIsAhead
    <2>2. StreamSplit'
      BY <1>8 DEF SendAbandoned, OrderInv, StreamSplit
    <2> QED
      BY <2>1, <2>2 DEF OrderInv
  <1>9. CASE Conclude
    BY <1>0, <1>9, OrderKept, ReplyKeepsRequests DEF Conclude, NoChunk
  <1>10. CASE QuitOnStop
    BY <1>0, <1>10, OrderKept DEF QuitOnStop
  <1>11. CASE CloseAll
    <2>1. \A r \in Roommate : http'[r].st = "sent" => http'[r] = http[r]
      BY <1>11 DEF CloseAll, Reply
    <2> QED
      BY <1>0, <1>11, <2>1, OrderKept DEF CloseAll
  <1>12. ASSUME NEW r \in Roommate, ReceiveEmpty(r) PROVE OrderInv'
    <2>1. pc = "select" /\ pc' = "conclude"
          /\ UNCHANGED <<orderVars, sent, posted, reqStop>>
      BY <1>12 DEF ReceiveEmpty, TakePacket
    <2>2. \A q \in Roommate : http'[q].st = "sent" => http'[q] = http[q]
      BY <1>12, TakenIsGone DEF ReceiveEmpty
    <2> QED
      BY <1>0, <2>1, <2>2, OrderKept
  <1>13. ASSUME NEW r \in Roommate, ReceiveInOrder(r) PROVE OrderInv'
    <2> DEFINE ser == http[r].ser
    <2>1. /\ TakePacket(r) /\ ~reqStop /\ pc = "select" /\ http[r].st = "sent"
          /\ UNCHANGED <<misorderedRequests, sent, posted, reqStop>>
          /\ pc' = "coalesce"
      BY <1>13 DEF ReceiveInOrder, TakePacket
    <2>2. /\ ser = lastRequestSerialNumberSeen + 1
          /\ http[r].body = ser
          /\ ser \notin DOMAIN misorderedRequests /\ ser <= posted
          /\ lastRequestSerialNumberSeen' = ser
          /\ writeMe' = <<ser>>
      BY <1>13, <2>1 DEF ReceiveInOrder, OutOfTurn, OrderInv, RequestsFresh
    <2>3. StoredIsAhead'
      BY <2>1, <2>2 DEF OrderInv, StoredIsAhead, TypeOK
    <2>4. \A q \in Roommate : http'[q].st = "sent" /\ http'[q].ser # NoSerial =>
            http'[q] = http[q] /\ http[q].ser # ser
      BY <2>1, <2>2, TakenIsGone DEF OrderInv, RequestsFresh
    <2>5. \A q \in Roommate : http[q].ser \in Int
      BY DEF TypeOK, Exchange, NoSerial
    <2>6. \A q \in Roommate : http'[q].st = "sent" /\ http'[q].ser # NoSerial =>
            /\ http'[q].body = http'[q].ser
            /\ http'[q].ser > ser
            /\ http'[q].ser <= posted
            /\ http'[q].ser \notin DOMAIN misorderedRequests
      <3>1. TAKE q \in Roommate
      <3>2. HAVE http'[q].st = "sent" /\ http'[q].ser # NoSerial
      <3>3. http'[q] = http[q] /\ http[q].ser # ser /\ http[q].st = "sent"
        BY <2>4, <3>2
      <3>4. /\ http[q].body = http[q].ser
            /\ http[q].ser > lastRequestSerialNumberSeen
            /\ http[q].ser <= posted
            /\ http[q].ser \notin DOMAIN misorderedRequests
        BY <3>2, <3>3 DEF OrderInv, RequestsFresh
      <3>5. http[q].ser > ser
        BY <2>2, <2>5, <3>3, <3>4 DEF TypeOK
      <3> QED
        BY <3>3, <3>4, <3>5
    <2>7. RequestsFresh'
      BY <2>1, <2>2, <2>4, <2>6 DEF OrderInv, RequestsFresh
    <2>8. StreamSplit'
      BY <1>0, <2>1, <2>2 DEF OrderInv, StreamSplit, TypeOK
    <2> QED
      BY <2>3, <2>7, <2>8 DEF OrderInv
  <1>14. ASSUME NEW r \in Roommate, ReceiveMisordered(r) PROVE OrderInv'
    <2> DEFINE ser == http[r].ser
    <2>1. /\ TakePacket(r) /\ pc = "select" /\ http[r].st = "sent"
          /\ UNCHANGED <<lastRequestSerialNumberSeen, writeMe, sent, posted, reqStop>>
          /\ pc' \in {"conclude", "panicked"}
      BY <1>14 DEF ReceiveMisordered, TakePacket
    <2>2. StreamSplit'
      BY <1>0, <2>1 DEF OrderInv, StreamSplit
    <2>3. /\ ser > lastRequestSerialNumberSeen /\ ser <= posted /\ ser \in Nat
          /\ http[r].body = ser /\ ser \notin DOMAIN misorderedRequests
      BY <1>14, <2>1
         DEF ReceiveMisordered, OrderInv, RequestsFresh, TypeOK, Exchange, NoSerial
    <2>4. misorderedRequests' =
            [n \in DOMAIN misorderedRequests \cup {ser} |->
               IF n = ser THEN ser ELSE misorderedRequests[n]]
      BY <1>14, <2>3 DEF ReceiveMisordered, SeenBefore, TypeOK
    <2>5. StoredIsAhead'
      BY <2>1, <2>3, <2>4 DEF OrderInv, StoredIsAhead
    <2>6. \A q \in Roommate : http'[q].st = "sent" /\ http'[q].ser # NoSerial =>
            http'[q] = http[q] /\ http[q].ser # ser
      BY <2>1, <2>3, TakenIsGone DEF OrderInv, RequestsFresh
    <2>7. RequestsFresh'
      BY <2>1, <2>3, <2>4, <2>6 DEF OrderInv, RequestsFresh
    <2> QED
      BY <2>2, <2>5, <2>7 DEF OrderInv
  <1>15. CASE StopRequested
    BY <1>0, <1>15, OrderKept DEF StopRequested
  <1>16. CASE CloseKeyRequested
    BY <1>0, <1>16, OrderKept DEF CloseKeyRequested
  <1>17. CASE TimerFires
    BY <1>0, <1>17, OrderKept DEF TimerFires
  <1>18. CASE WriterTakes
    BY <1>0, <1>18, OrderKept DEF WriterTakes
  <1>19. CASE WriterEnds
    BY <1>0, <1>19, OrderKept DEF WriterEnds
  <1>20. CASE ReaderReads
    BY <1>0, <1>20, OrderKept DEF ReaderReads
  <1>21. CASE ReaderEnds
    BY <1>0, <1>21, OrderKept DEF ReaderEnds
  <1>22. ASSUME NEW r \in Roommate, PostEmpty(r) PROVE OrderInv'
    <2>1. http' = [http EXCEPT ![r] = Request(NoSerial, NoChunk)]
          /\ UNCHANGED <<pc, orderVars, sent, posted, reqStop>>
      BY <1>22 DEF PostEmpty
    <2>2. \A q \in Roommate :
            http'[q].st = "sent" /\ http'[q].ser # NoSerial => http'[q] = http[q]
      BY <2>1 DEF TypeOK, Request
    <2>3. RequestsFresh'
      BY <2>1, <2>2 DEF OrderInv, RequestsFresh, orderVars
    <2>4. StoredIsAhead' /\ StreamSplit'
      BY <2>1 DEF OrderInv, StoredIsAhead, StreamSplit, orderVars
    <2> QED
      BY <2>3, <2>4 DEF OrderInv
  <1>23. ASSUME NEW r \in Roommate, PostChunk(r) PROVE OrderInv'
    <2>1. /\ http' = [http EXCEPT ![r] = Request(posted + 1, posted + 1)]
          /\ posted' = posted + 1
          /\ UNCHANGED <<pc, orderVars, sent, reqStop>>
      BY <1>23 DEF PostChunk
    <2>2. /\ http'[r].ser = posted + 1 /\ http'[r].body = posted + 1
          /\ \A q \in Roommate \ {r} : http'[q] = http[q]
      BY <2>1 DEF TypeOK, Request
    <2>3. \A q \in Roommate : http[q].ser \in Int
      BY DEF TypeOK, Exchange, NoSerial
    <2>4. RequestsFresh'
      BY <2>1, <2>2, <2>3 DEF OrderInv, RequestsFresh, orderVars, TypeOK
    <2>5. StoredIsAhead' /\ StreamSplit'
      BY <2>1 DEF OrderInv, StoredIsAhead, StreamSplit, orderVars
    <2> QED
      BY <2>4, <2>5 DEF OrderInv
  <1>24. ASSUME NEW r \in Roommate, TakeReply(r) PROVE OrderInv'
    <2>1. \A q \in Roommate : http'[q].st = "sent" => http'[q] = http[q]
      BY <1>24 DEF TakeReply, TypeOK, Idle
    <2> QED
      BY <1>0, <1>24, <2>1, OrderKept DEF TakeReply
  <1>25. ASSUME NEW r \in Roommate, ClientGivesUp(r) PROVE OrderInv'
    <2>1. \A q \in Roommate : http'[q].st = "sent" => http'[q] = http[q]
      BY <1>25 DEF ClientGivesUp, TypeOK, Gone
    <2> QED
      BY <1>0, <1>25, <2>1, OrderKept DEF ClientGivesUp
  <1>26. CASE UNCHANGED vars
    BY <1>0, <1>26, OrderKept DEF vars
  <1> QED
    BY <1>1, <1>2, <1>3, <1>4, <1>5, <1>6, <1>7, <1>8, <1>9, <1>10, <1>11,
       <1>12, <1>13, <1>14, <1>15, <1>16, <1>17, <1>18, <1>19, <1>20, <1>21,
       <1>22, <1>23, <1>24, <1>25, <1>26
       DEF Next, ServerNext, ClientNext, Loop, Receive

\* The downstream server gets the chunks in the order of their serial numbers,
\* none twice, none left out, however the two sockets race, and a request that
\* came early is stored with its own body until its turn.
THEOREM OrderCorrect == Spec => [](DownstreamInOrder /\ StoredIsAhead)
  <1>1. TypeOK /\ OrderInv => DownstreamInOrder /\ StoredIsAhead
    BY DEF OrderInv, StreamSplit, DownstreamInOrder
  <1> QED
    BY <1>1, OrderInit, TypeCorrect, OrderStep, PTL DEF Spec

\* A request that came early is stored with its own body until its turn.
THEOREM StoredCorrect == Spec => []StoredIsAhead
  BY OrderCorrect, PTL
-----------------------------------------------------------------------------
(***************************************************************************)
(* The requests that wait.                                                 *)
(***************************************************************************)

WaitInv == WaitersBounded /\ WaitersAreParked /\ TimerCoversWaiter

\* WaitersAreParked depends on what the FIFO holds and on where the held
\* requests are, and on nothing else.
LEMMA ParkedKept ==
  ASSUME WaitersAreParked, UNCHANGED waiters, Alive' => Alive,
         \A r \in Roommate :
           /\ http'[r].st = "parked" => http[r].st = "parked"
           /\ http[r].st \in {"parked", "gone"} => http'[r].st \in {"parked", "gone"}
  PROVE  WaitersAreParked'
  BY DEF WaitersAreParked, Waiting, Waiters

\* Answering the oldest waiter takes it, and only it, out of the FIFO.
LEMMA AnsweredLeaves ==
  ASSUME TypeOK, WaitersAreParked, Alive, NEW b \in Nat, sendReplyUpstream(b)
  PROVE  WaitersAreParked'
  <1> DEFINE n == Len(waiters)
             p == waiters[n]
  <1>1. /\ n \in Nat \ {0} /\ p \in Roommate
        /\ waiters' \in Seq(Roommate) /\ Len(waiters') = n - 1
        /\ \A i \in 1..n - 1 : waiters'[i] = waiters[i]
    BY PopRightFacts DEF TypeOK, sendReplyUpstream, PeekRight
  <1>2. /\ \A i, j \in 1..n : waiters[i] = waiters[j] => i = j
        /\ \A i \in 1..n : waiters[i] \in Roommate
                             /\ http[waiters[i]].st \in {"parked", "gone"}
        /\ \A q \in Roommate : http[q].st = "parked" => \E i \in 1..n : waiters[i] = q
    BY DEF WaitersAreParked, Waiters, Waiting
  <1>3. /\ http'[p].st # "parked"
        /\ \A q \in Roommate \ {p} : http'[q] = http[q]
    BY <1>1 DEF TypeOK, sendReplyUpstream, PeekRight, Reply
  <1>4. \A q \in Roommate : http'[q].st = "parked" =>
          \E i \in 1..Len(waiters') : waiters'[i] = q
    <2>1. TAKE q \in Roommate
    <2>2. HAVE http'[q].st = "parked"
    <2>3. q # p /\ http[q].st = "parked"
      BY <1>3, <2>2
    <2>4. PICK i \in 1..n : waiters[i] = q
      BY <1>2, <2>3
    <2> QED
      BY <1>1, <2>3, <2>4
  <1>5. \A i \in 1..Len(waiters') :
          waiters'[i] \in Roommate /\ http'[waiters'[i]].st \in {"parked", "gone"}
    <2>1. TAKE i \in 1..Len(waiters')
    <2>2. i \in 1..n /\ i # n /\ n \in 1..n /\ waiters'[i] = waiters[i]
      BY <1>1
    <2>3. waiters[i] # p
      BY <1>2, <2>2
    <2> QED
      BY <1>2, <1>3, <2>2, <2>3
  <1>6. \A i, j \in 1..Len(waiters') : waiters'[i] = waiters'[j] => i = j
    BY <1>1, <1>2
  <1> QED
    BY <1>4, <1>5, <1>6 DEF WaitersAreParked, Waiters, Waiting

\* A packet that is taken joins the FIFO, where it was not before.
LEMMA TakenJoins ==
  ASSUME TypeOK, WaitersAreParked, NEW r \in Roommate, TakePacket(r)
  PROVE  WaitersAreParked'
  <1> DEFINE n == Len(waiters)
  <1>1. /\ n \in Nat
        /\ Len(waiters') = n + 1 /\ waiters'[1] = r
        /\ \A i \in 1..n : waiters'[i + 1] = waiters[i]
    BY PushLeftFacts DEF TypeOK, TakePacket
  <1>2. \A i \in 1..n + 1 : i # 1 => i - 1 \in 1..n /\ waiters'[i] = waiters[i - 1]
    <2>1. \A i \in 1..n + 1 : i # 1 => i - 1 \in 1..n /\ i - 1 + 1 = i
      BY <1>1
    <2> QED
      BY <1>1, <2>1
  <1>3. /\ \A i, j \in 1..n : waiters[i] = waiters[j] => i = j
        /\ \A i \in 1..n : waiters[i] \in Roommate
                             /\ http[waiters[i]].st \in {"parked", "gone"}
        /\ \A q \in Roommate : http[q].st = "parked" => \E i \in 1..n : waiters[i] = q
    BY DEF WaitersAreParked, Waiters, Waiting, TakePacket, Alive
  <1>4. http[r].st = "sent" /\ http'[r].st = "parked"
        /\ \A q \in Roommate \ {r} : http'[q] = http[q]
    BY ExchangeFacts DEF TypeOK, TakePacket
  <1>5. \A q \in Roommate : http'[q].st = "parked" =>
          \E i \in 1..n + 1 : waiters'[i] = q
    <2>1. TAKE q \in Roommate
    <2>2. HAVE http'[q].st = "parked"
    <2>3. CASE q = r
      BY <1>1, <2>3
    <2>4. CASE q # r
      <3>1. PICK i \in 1..n : waiters[i] = q
        BY <1>3, <1>4, <2>2, <2>4
      <3> QED
        BY <1>1, <3>1
    <2> QED
      BY <2>3, <2>4
  <1>6. \A i \in 1..n + 1 :
          waiters'[i] \in Roommate /\ http'[waiters'[i]].st \in {"parked", "gone"}
    <2>1. TAKE i \in 1..n + 1
    <2>2. CASE i = 1
      BY <1>1, <1>4, <2>2
    <2>3. CASE i # 1
      <3>1. i - 1 \in 1..n /\ waiters'[i] = waiters[i - 1]
        BY <1>2, <2>3
      <3>2. waiters[i - 1] # r
        BY <1>3, <1>4, <3>1
      <3> QED
        BY <1>3, <1>4, <3>1, <3>2
    <2> QED
      BY <2>2, <2>3
  <1>7. \A i, j \in 1..n + 1 : waiters'[i] = waiters'[j] => i = j
    <2>1. TAKE i, j \in 1..n + 1
    <2>2. HAVE waiters'[i] = waiters'[j]
    <2>3. ASSUME NEW k \in 1..n + 1, k # 1 PROVE waiters'[k] # r
      <3>1. k - 1 \in 1..n /\ waiters'[k] = waiters[k - 1]
        BY <1>2, <2>3
      <3> QED
        BY <1>3, <1>4, <3>1
    <2>4. CASE i = 1 \/ j = 1
      <3>1. waiters'[1] = r
        BY <1>1
      <3>2. waiters'[i] = r /\ waiters'[j] = r
        BY <2>2, <2>4, <3>1
      <3> QED
        BY <2>3, <3>2
    <2>5. CASE i # 1 /\ j # 1
      <3>1. i - 1 = j - 1
        BY <1>2, <1>3, <2>2, <2>5
      <3> QED
        BY <1>1, <3>1
    <2> QED
      BY <2>4, <2>5
  <1> QED
    BY <1>1, <1>5, <1>6, <1>7 DEF WaitersAreParked, Waiters, Waiting

\* How short the FIFO gets when a waiter is answered: the timer still runs for
\* those that stay.
LEMMA AnsweredShrinks ==
  ASSUME TypeOK, NEW b \in Nat, sendReplyUpstream(b)
  PROVE  /\ Len(waiters) \in Nat \ {0}
         /\ Len(waiters') = Len(waiters) - 1
         /\ waiters' # <<>> => armed' = armed
         /\ waiters' = <<>> <=> Len(waiters) = 1
  <1>1. /\ Len(waiters) \in Nat \ {0} /\ waiters' \in Seq(Roommate)
        /\ Len(waiters') = Len(waiters) - 1
    BY PopRightFacts DEF TypeOK, sendReplyUpstream
  <1>2. waiters' = <<>> <=> Len(waiters) = 1
    <2>1. waiters' = <<>> => Len(waiters') = 0
      BY EmptySeq
    <2>2. waiters' # <<>> => Len(waiters') \in Nat \ {0}
      BY <1>1, EmptySeq
    <2>3. Len(waiters') = 0 <=> Len(waiters) = 1
      BY <1>1
    <2> QED
      BY <2>1, <2>2, <2>3
  <1>3. waiters' # <<>> => armed' = armed
    BY <1>1, <1>2 DEF sendReplyUpstream, TimerAfterReply, TypeOK
  <1> QED
    BY <1>1, <1>2, <1>3

\* A packet that is taken finds at most one waiter, and starts the timer.
LEMMA TakenGrows ==
  ASSUME TypeOK, NEW r \in Roommate, TakePacket(r), WaitersBounded
  PROVE  /\ Len(waiters') \in 1..2
         /\ armed' = TRUE
  <1>1. Len(waiters) \in Nat /\ Len(waiters) <= 1
    BY DEF TypeOK, TakePacket, WaitersBounded
  <1>2. Len(waiters') = Len(waiters) + 1
    BY PushLeftFacts DEF TypeOK, TakePacket
  <1> QED
    BY <1>1, <1>2 DEF TakePacket, ResetTimer

\* What an action that neither takes nor answers a packet owes to WaitInv.
LEMMA WaitKept ==
  ASSUME WaitInv, UNCHANGED waiters,
         (armed' = armed /\ tick' = tick) \/ tick' \/ armed',
         Alive' => Alive,
         \/ pc' = pc /\ listening' = listening
         \/ ~listening' /\ pc \in {"coalesce", "send", "blocked", "conclude"}
         \/ pc' \in {"stopped", "panicked"},
         pc' \in {"top", "select"} => pc \in {"top", "select"},
         pc' \in {"coalesce", "send", "blocked", "conclude"} =>
           pc \in {"coalesce", "send", "blocked", "conclude"},
         \A r \in Roommate :
           /\ http'[r].st = "parked" => http[r].st = "parked"
           /\ http[r].st \in {"parked", "gone"} => http'[r].st \in {"parked", "gone"}
  PROVE  WaitInv'
  <1>1. WaitersAreParked'
    BY ParkedKept DEF WaitInv
  <1>2. WaitersBounded' /\ TimerCoversWaiter'
    BY DEF WaitInv, WaitersBounded, TimerCoversWaiter, Alive
  <1> QED
    BY <1>1, <1>2 DEF WaitInv

\* The same of an action that is not one of the goroutine.
LEMMA WaitStays ==
  ASSUME WaitInv, UNCHANGED <<pc, listening, waiters>>,
         (armed' = armed /\ tick' = tick) \/ tick' \/ armed',
         \A r \in Roommate :
           /\ http'[r].st = "parked" => http[r].st = "parked"
           /\ http[r].st \in {"parked", "gone"} => http'[r].st \in {"parked", "gone"}
  PROVE  WaitInv'
  <1>1. WaitersAreParked'
    BY ParkedKept DEF WaitInv, Alive
  <1>2. WaitersBounded' /\ TimerCoversWaiter'
    BY DEF WaitInv, WaitersBounded, TimerCoversWaiter, Alive
  <1> QED
    BY <1>1, <1>2 DEF WaitInv

\* Nothing waits at the start.
LEMMA WaitInit == Init => WaitInv
  BY EmptySeq
     DEF Init, WaitInv, WaitersBounded, WaitersAreParked, TimerCoversWaiter,
         Waiting, Waiters, Idle

\* Every step keeps the FIFO, the requests it holds and the timer in line.
LEMMA WaitStep == TypeOK /\ WaitInv /\ [Next]_vars => WaitInv'
  <1> SUFFICES ASSUME TypeOK, WaitInv, [Next]_vars PROVE WaitInv'
    OBVIOUS
  <1> USE DEF orderVars, timerVars, upVars, downVars, stopVars
  <1>0. /\ WaitersBounded /\ WaitersAreParked /\ TimerCoversWaiter
        /\ Len(waiters) \in Nat
    BY DEF WaitInv, TypeOK
  <1>1. CASE EnterSelect
    <2>1. WaitersAreParked'
      BY <1>0, <1>1, ParkedKept DEF EnterSelect, Alive
    <2>2. WaitersBounded' /\ TimerCoversWaiter'
      BY <1>0, <1>1 DEF EnterSelect, WaitersBounded, TimerCoversWaiter, Alive
    <2> QED
      BY <2>1, <2>2 DEF WaitInv
  <1>2. CASE PollTimeUp
    <2>1. CASE waiters = <<>>
      <3>1. UNCHANGED <<http, waiters, armed>> /\ pc = "select" /\ pc' = "top" /\ ~listening'
        BY <1>2, <2>1 DEF PollTimeUp
      <3>2. WaitersAreParked'
        BY <1>0, <3>1, ParkedKept DEF Alive
      <3>3. WaitersBounded' /\ TimerCoversWaiter'
        BY <1>0, <2>1, <3>1 DEF WaitersBounded, TimerCoversWaiter
      <3> QED
        BY <3>2, <3>3 DEF WaitInv
    <2>2. CASE waiters # <<>>
      <3>1. sendReplyUpstream(NoChunk) /\ pc = "select" /\ pc' = "top" /\ ~listening'
        BY <1>2, <2>2 DEF PollTimeUp
      <3>2. WaitersAreParked'
        BY <1>0, <3>1, AnsweredLeaves DEF Alive, NoChunk
      <3>3. Len(waiters') = 0 /\ waiters' = <<>>
        BY <1>0, <3>1, AnsweredShrinks DEF WaitersBounded, NoChunk
      <3> QED
        BY <3>1, <3>2, <3>3 DEF WaitInv, WaitersBounded, TimerCoversWaiter
    <2> QED
      BY <2>1, <2>2
  <1>3. CASE ReplyFromDownstream
    <2> DEFINE b == Head(fromDown)
    <2>1. b \in Nat
      BY <1>3 DEF ReplyFromDownstream, TypeOK
    <2>2. sendReplyUpstream(b) /\ pc = "select" /\ pc' = "top" /\ ~listening'
      BY <1>3 DEF ReplyFromDownstream
    <2> HIDE DEF b
    <2>3. WaitersAreParked'
      BY <1>0, <2>1, <2>2, AnsweredLeaves DEF Alive
    <2>4. Len(waiters') = 0 /\ waiters' = <<>>
      BY <1>0, <2>1, <2>2, AnsweredShrinks DEF WaitersBounded
    <2> QED
      BY <2>2, <2>3, <2>4 DEF WaitInv, WaitersBounded, TimerCoversWaiter
  <1>4. CASE WriteFails
    BY <1>4, WaitKept DEF WriteFails, Alive
  <1>5. CASE Coalesce
    BY <1>5, WaitKept DEF Coalesce, Alive
  <1>6. CASE CoalesceEnds
    BY <1>0, <1>6, WaitKept DEF CoalesceEnds, Alive, WaitersBounded
  <1>7. CASE SendDownstream
    BY <1>0, <1>7, WaitKept DEF SendDownstream, Alive, WaitersBounded
  <1>8. CASE SendAbandoned
    BY <1>0, <1>8, WaitKept DEF SendAbandoned, Alive, WaitersBounded
  <1>9. CASE Conclude
    <2>0. pc = "conclude" /\ pc' = "top" /\ ~listening' /\ UNCHANGED tick
          /\ Len(waiters) \in 1..2
      BY <1>0, <1>9 DEF Conclude, WaitersBounded, TypeOK
    <2>1. CASE MustReply
      <3>0. sendReplyUpstream(NoChunk)
        BY <1>9, <2>1 DEF Conclude
      <3>1. sendReplyUpstream(NoChunk) /\ Len(waiters) = 2
        BY <2>0, <2>1, <3>0 DEF MustReply
      <3>2. WaitersAreParked'
        BY <1>0, <2>0, <3>1, AnsweredLeaves DEF Alive, NoChunk
      <3>3. Len(waiters') = 1 /\ armed' = armed
        BY <3>1, AnsweredShrinks DEF NoChunk
      <3>4. waiters # <<>>
        BY <3>1 DEF sendReplyUpstream
      <3> QED
        BY <1>0, <2>0, <3>2, <3>3, <3>4
           DEF WaitInv, WaitersBounded, TimerCoversWaiter, Alive
    <2>2. CASE ~MustReply
      <3>1. UNCHANGED <<http, waiters, armed>> /\ Len(waiters) = 1
        BY <1>9, <2>0, <2>2 DEF Conclude, MustReply
      <3>2. WaitersAreParked'
        BY <1>0, <2>0, <3>1, ParkedKept DEF Alive
      <3> QED
        BY <1>0, <2>0, <3>1, <3>2
           DEF WaitInv, WaitersBounded, TimerCoversWaiter, Alive
    <2> QED
      BY <2>1, <2>2
  <1>10. CASE QuitOnStop
    BY <1>10, WaitKept DEF QuitOnStop, Alive
  <1>11. CASE CloseAll
    <2>1. pc' = "panicked" /\ waiters' = <<>> /\ ~Alive'
      BY <1>11 DEF CloseAll, Alive
    <2> QED
      BY <2>1 DEF WaitInv, WaitersBounded, WaitersAreParked, TimerCoversWaiter
  <1>12. ASSUME NEW r \in Roommate, Receive(r) PROVE WaitInv'
    <2>1. TakePacket(r) /\ pc' \in {"conclude", "coalesce", "panicked"} /\ ~listening'
      BY <1>12
         DEF Receive, ReceiveEmpty, ReceiveInOrder, ReceiveMisordered, TakePacket
    <2>2. WaitersAreParked'
      BY <1>0, <2>1, TakenJoins
    <2>3. Len(waiters') \in 1..2 /\ armed'
      BY <1>0, <2>1, TakenGrows
    <2> QED
      BY <2>1, <2>2, <2>3 DEF WaitInv, WaitersBounded, TimerCoversWaiter
  <1>13. CASE StopRequested
    BY <1>13, WaitStays DEF StopRequested
  <1>14. CASE CloseKeyRequested
    BY <1>14, WaitStays DEF CloseKeyRequested
  <1>15. CASE TimerFires
    BY <1>15, WaitStays DEF TimerFires
  <1>16. CASE WriterTakes
    BY <1>16, WaitStays DEF WriterTakes
  <1>17. CASE WriterEnds
    BY <1>17, WaitStays DEF WriterEnds
  <1>18. CASE ReaderReads
    BY <1>18, WaitStays DEF ReaderReads
  <1>19. CASE ReaderEnds
    BY <1>19, WaitStays DEF ReaderEnds
  <1>20. ASSUME NEW r \in Roommate,
                PostEmpty(r) \/ PostChunk(r) \/ TakeReply(r) \/ ClientGivesUp(r)
         PROVE  WaitInv'
    <2>1. /\ UNCHANGED <<pc, listening, waiters, armed, tick>>
          /\ \A q \in Roommate :
               /\ http'[q].st = "parked" => http[q].st = "parked"
               /\ http[q].st \in {"parked", "gone"} =>
                    http'[q].st \in {"parked", "gone"}
      <3>1. CASE PostEmpty(r)
        BY <3>1 DEF PostEmpty, TypeOK, Request
      <3>2. CASE PostChunk(r)
        BY <3>2 DEF PostChunk, TypeOK, Request
      <3>3. CASE TakeReply(r)
        BY <3>3 DEF TakeReply, TypeOK, Idle
      <3>4. CASE ClientGivesUp(r)
        BY <3>4 DEF ClientGivesUp, TypeOK, Gone
      <3> QED
        BY <1>20, <3>1, <3>2, <3>3, <3>4
    <2> QED
      BY <2>1, WaitStays
  <1>21. CASE UNCHANGED vars
    BY <1>21, WaitStays DEF vars
  <1> QED
    BY <1>1, <1>2, <1>3, <1>4, <1>5, <1>6, <1>7, <1>8, <1>9, <1>10, <1>11,
       <1>12, <1>13, <1>14, <1>15, <1>16, <1>17, <1>18, <1>19, <1>20, <1>21
       DEF Next, ServerNext, ClientNext, Loop

\* No request is forgotten and none is held twice, the goroutine holds at most
\* one when it is ready for the next event, and a timer covers it.
THEOREM WaitersCorrect ==
  Spec => [](WaitersAreParked /\ AtMostOneHeld /\ TimerCoversWaiter)
  <1>1. WaitInv => WaitersAreParked /\ AtMostOneHeld /\ TimerCoversWaiter
    BY DEF WaitInv, WaitersBounded, AtMostOneHeld
  <1> QED
    BY <1>1, WaitInit, TypeCorrect, WaitStep, PTL DEF Spec

\* The goroutine that is ready for the next event holds one request at most.
THEOREM HeldCorrect == Spec => []AtMostOneHeld
  BY WaitersCorrect, PTL

\* No request is held without a timer that runs or has fired.
THEOREM TimerCorrect == Spec => []TimerCoversWaiter
  BY WaitersCorrect, PTL
-----------------------------------------------------------------------------
(***************************************************************************)
(* The reply stream, and panics.                                           *)
(***************************************************************************)

ReplyInv == RepliesNumberTheStream /\ StreamRead

\* What an action that leaves the stream alone owes to ReplyInv.
LEMMA ReplyKept ==
  ASSUME ReplyInv, UNCHANGED <<fromDown, readDown, nextReplySerial>>,
         pc = "panicked" => pc' = "panicked",
         \A r \in Roommate :
           http'[r].st = "replied" /\ http'[r].body # NoChunk => http'[r] = http[r]
  PROVE  ReplyInv'
  BY DEF ReplyInv, RepliesNumberTheStream, StreamRead

\* What sendReplyUpstream does to the replies that are on their way.
LEMMA ReplyAdded ==
  ASSUME TypeOK, NEW b \in Nat, sendReplyUpstream(b)
  PROVE  /\ \A r \in Roommate :
              http'[r] = http[r] \/ (http'[r].body = b /\
                                     (b # NoChunk => http'[r].ser = nextReplySerial))
         /\ nextReplySerial' = IF b = NoChunk THEN nextReplySerial
                                              ELSE nextReplySerial + 1
  BY PopRightFacts DEF TypeOK, sendReplyUpstream, Reply, Numbered

\* Every step keeps the numbers of the reply stream.
LEMMA ReplyStep == TypeOK /\ ReplyInv /\ [Next]_vars => ReplyInv'
  <1> SUFFICES ASSUME TypeOK, ReplyInv, [Next]_vars PROVE ReplyInv'
    OBVIOUS
  <1> USE DEF orderVars, timerVars, upVars, downVars, stopVars
  <1>1. CASE EnterSelect
    BY <1>1, ReplyKept DEF EnterSelect
  <1>2. CASE PollTimeUp
    <2>1. pc = "select" /\ UNCHANGED <<fromDown, readDown>>
      BY <1>2 DEF PollTimeUp
    <2>2. CASE waiters = <<>>
      BY <1>2, <2>1, <2>2, ReplyKept DEF PollTimeUp
    <2>3. CASE waiters # <<>>
      <3>1. sendReplyUpstream(NoChunk)
        BY <1>2, <2>3 DEF PollTimeUp
      <3> QED
        BY <2>1, <3>1, ReplyAdded, ReplyKept DEF NoChunk
    <2> QED
      BY <2>2, <2>3
  <1>3. CASE ReplyFromDownstream
    <2> DEFINE b == Head(fromDown)
    <2>1. /\ fromDown \in Seq(Nat) /\ fromDown # <<>>
          /\ pc = "select" /\ pc' = "top" /\ readDown' = readDown
          /\ fromDown' = Tail(fromDown) /\ sendReplyUpstream(b)
      BY <1>3 DEF ReplyFromDownstream, TypeOK
    <2>2. /\ Len(fromDown) \in Nat \ {0} /\ b = fromDown[1]
          /\ Len(fromDown') = Len(fromDown) - 1
          /\ \A i \in 1..Len(fromDown') : fromDown'[i] = fromDown[i + 1]
      BY <2>1, EmptySeq, HeadTailProperties
    <2>3. /\ \A i \in 1..Len(fromDown) : fromDown[i] = nextReplySerial - 1 + i
          /\ readDown = nextReplySerial - 1 + Len(fromDown)
          /\ nextReplySerial \in Nat \ {0} /\ readDown \in Nat
      BY <2>1 DEF ReplyInv, RepliesNumberTheStream, StreamRead, TypeOK
    <2>4. b = nextReplySerial /\ b \in Nat /\ b # NoChunk
      BY <2>2, <2>3 DEF NoChunk
    <2> HIDE DEF b
    <2>5. /\ nextReplySerial' = nextReplySerial + 1
          /\ \A r \in Roommate :
               http'[r] = http[r] \/ (http'[r].body = b /\ http'[r].ser = b)
      BY <2>1, <2>4, ReplyAdded
    <2>6. \A i \in 1..Len(fromDown') : fromDown'[i] = nextReplySerial' - 1 + i
      BY <2>2, <2>3, <2>5
    <2>7. readDown' = nextReplySerial' - 1 + Len(fromDown')
      BY <2>1, <2>2, <2>3, <2>5
    <2> QED
      BY <2>5, <2>6, <2>7 DEF ReplyInv, RepliesNumberTheStream, StreamRead
  <1>4. CASE WriteFails
    BY <1>4 DEF WriteFails, ReplyInv, RepliesNumberTheStream, StreamRead
  <1>5. CASE Coalesce
    BY <1>5, ReplyKept DEF Coalesce
  <1>6. CASE CoalesceEnds
    BY <1>6, ReplyKept DEF CoalesceEnds
  <1>7. CASE SendDownstream
    BY <1>7, ReplyKept DEF SendDownstream
  <1>8. CASE SendAbandoned
    BY <1>8, ReplyKept DEF SendAbandoned
  <1>9. CASE Conclude
    <2>1. pc = "conclude" /\ UNCHANGED <<fromDown, readDown>>
      BY <1>9 DEF Conclude
    <2>2. CASE ~MustReply
      BY <1>9, <2>1, <2>2, ReplyKept DEF Conclude
    <2>3. CASE MustReply
      <3>1. sendReplyUpstream(NoChunk)
        BY <1>9, <2>3 DEF Conclude
      <3> QED
        BY <2>1, <3>1, ReplyAdded, ReplyKept DEF NoChunk
    <2> QED
      BY <2>2, <2>3
  <1>10. CASE QuitOnStop
    BY <1>10, ReplyKept DEF QuitOnStop
  <1>11. CASE CloseAll
    <2>1. \A r \in Roommate : http'[r] = http[r] \/ http'[r].body = NoChunk
      BY <1>11 DEF CloseAll, Reply
    <2>2. /\ pc = "select" /\ pc' = "panicked"
          /\ UNCHANGED <<fromDown, readDown, nextReplySerial>>
      BY <1>11 DEF CloseAll
    <2> QED
      BY <2>1, <2>2, ReplyKept
  <1>12. ASSUME NEW r \in Roommate, Receive(r) PROVE ReplyInv'
    <2>1. TakePacket(r)
      BY <1>12 DEF Receive, ReceiveEmpty, ReceiveInOrder, ReceiveMisordered
    <2>2. \A q \in Roommate : http'[q].st = "replied" => http'[q] = http[q]
      BY <2>1, ExchangeFacts DEF TakePacket, TypeOK
    <2> QED
      BY <2>1, <2>2, ReplyKept DEF TakePacket
  <1>13. CASE StopRequested
    BY <1>13, ReplyKept DEF StopRequested
  <1>14. CASE CloseKeyRequested
    BY <1>14, ReplyKept DEF CloseKeyRequested
  <1>15. CASE TimerFires
    BY <1>15, ReplyKept DEF TimerFires
  <1>16. CASE WriterTakes
    BY <1>16, ReplyKept DEF WriterTakes
  <1>17. CASE WriterEnds
    BY <1>17, ReplyKept DEF WriterEnds
  <1>18. CASE ReaderReads
    <2>1. /\ readDown' = readDown + 1 /\ fromDown' = Append(fromDown, readDown + 1)
          /\ UNCHANGED <<http, pc, nextReplySerial>> /\ pc # "panicked"
          /\ fromDown \in Seq(Nat) /\ Len(fromDown) \in Nat
          /\ readDown \in Nat /\ nextReplySerial \in Nat
      BY <1>18 DEF ReaderReads, TypeOK, Alive
    <2>2. Len(fromDown') = Len(fromDown) + 1
      BY <2>1
    <2>3. readDown' = nextReplySerial' - 1 + Len(fromDown')
      BY <2>1, <2>2 DEF ReplyInv, StreamRead
    <2>4. \A i \in 1..Len(fromDown') : fromDown'[i] = nextReplySerial' - 1 + i
      <3>1. TAKE i \in 1..Len(fromDown')
      <3>2. CASE i = Len(fromDown) + 1
        BY <2>1, <2>2, <2>3, <3>2
      <3>3. CASE i # Len(fromDown) + 1
        <4>1. i \in 1..Len(fromDown) /\ fromDown'[i] = fromDown[i]
          BY <2>1, <2>2, <3>3
        <4> QED
          BY <2>1, <4>1 DEF ReplyInv, RepliesNumberTheStream
      <3> QED
        BY <3>2, <3>3
    <2> QED
      BY <2>1, <2>3, <2>4 DEF ReplyInv, RepliesNumberTheStream, StreamRead
  <1>19. CASE ReaderEnds
    BY <1>19, ReplyKept DEF ReaderEnds
  <1>20. ASSUME NEW r \in Roommate,
                PostEmpty(r) \/ PostChunk(r) \/ TakeReply(r) \/ ClientGivesUp(r)
         PROVE  ReplyInv'
    <2>1. UNCHANGED <<pc, fromDown, readDown, nextReplySerial>>
      BY <1>20 DEF PostEmpty, PostChunk, TakeReply, ClientGivesUp
    <2>2. \A q \in Roommate : http'[q].st = "replied" => http'[q] = http[q]
      <3>1. CASE PostEmpty(r)
        BY <3>1 DEF PostEmpty, TypeOK, Request
      <3>2. CASE PostChunk(r)
        BY <3>2 DEF PostChunk, TypeOK, Request
      <3>3. CASE TakeReply(r)
        BY <3>3 DEF TakeReply, TypeOK, Idle
      <3>4. CASE ClientGivesUp(r)
        BY <3>4 DEF ClientGivesUp, TypeOK, Gone
      <3> QED
        BY <1>20, <3>1, <3>2, <3>3, <3>4
    <2> QED
      BY <2>1, <2>2, ReplyKept
  <1>21. CASE UNCHANGED vars
    BY <1>21, ReplyKept DEF vars
  <1> QED
    BY <1>1, <1>2, <1>3, <1>4, <1>5, <1>6, <1>7, <1>8, <1>9, <1>10, <1>11,
       <1>12, <1>13, <1>14, <1>15, <1>16, <1>17, <1>18, <1>19, <1>20, <1>21
       DEF Next, ServerNext, ClientNext, Loop

\* Replies with data are numbered without gaps in the order of the stream.
THEOREM RepliesCorrect == Spec => []RepliesNumberTheStream
  <1>1. Init => ReplyInv
    BY EmptySeq DEF Init, ReplyInv, RepliesNumberTheStream, StreamRead, Idle
  <1>2. ReplyInv => RepliesNumberTheStream
    BY DEF ReplyInv
  <1> QED
    BY <1>1, <1>2, TypeCorrect, ReplyStep, PTL DEF Spec

\* A step makes the goroutine panic only with a cause: the request that is
\* taken is never one that fails the sanity checks.
LEMMA PanicStep ==
  TypeOK /\ OrderInv /\ WaitInv /\ PanicHasCause /\ [Next]_vars => PanicHasCause'
  <1> SUFFICES ASSUME TypeOK, OrderInv, WaitInv, PanicHasCause, [Next]_vars,
                      pc' = "panicked"
               PROVE  closeKey' \/ \E r \in Roommate : http'[r].st = "gone"
    BY DEF PanicHasCause
  <1> USE DEF orderVars, timerVars, upVars, downVars, stopVars
  <1>1. CASE pc = "panicked"
    <2>1. UNCHANGED closeKey
          /\ \A r \in Roommate : http[r].st = "gone" => http'[r].st = "gone"
      <3>1. CASE UNCHANGED vars
        BY <3>1 DEF vars
      <3>2. ASSUME NEW r \in Roommate, TakeReply(r) \/ ClientGivesUp(r)
            PROVE  UNCHANGED closeKey
                   /\ \A q \in Roommate : http[q].st = "gone" => http'[q].st = "gone"
        BY <3>2 DEF TakeReply, ClientGivesUp, Gone, Idle, TypeOK
      <3>3. ~ServerNext /\ \A r \in Roommate : ~PostEmpty(r) /\ ~PostChunk(r)
        BY <1>1 DEF ServerNext, Loop, Alive, EnterSelect, PollTimeUp,
             ReplyFromDownstream, WriteFails, Coalesce, CoalesceEnds,
             SendDownstream, SendAbandoned, Conclude, QuitOnStop, CloseAll,
             Receive, ReceiveEmpty, ReceiveInOrder, ReceiveMisordered,
             TakePacket, StopRequested, CloseKeyRequested, TimerFires,
             WriterTakes, WriterEnds, ReaderReads, ReaderEnds,
             PostEmpty, PostChunk
      <3> QED
        BY <3>1, <3>2, <3>3 DEF Next, ClientNext
    <2> QED
      BY <1>1, <2>1 DEF PanicHasCause
  <1>2. CASE pc # "panicked"
    <2>1. CASE WriteFails
      <3>1. waiters # <<>>
        BY <2>1 DEF WriteFails, WaitInv, WaitersBounded
      <3>2. PeekRight \in Roommate
        BY <3>1, PopRightFacts DEF TypeOK
      <3> QED
        BY <2>1, <3>2 DEF WriteFails
    <2>2. CASE CloseAll
      BY <2>2 DEF CloseAll
    <2>3. ASSUME NEW r \in Roommate, ReceiveMisordered(r) PROVE FALSE
      <3>1. /\ http[r].st = "sent" /\ http[r].ser # NoSerial
            /\ SeenBefore(http[r].ser)
        BY <2>3 DEF ReceiveMisordered, TakePacket
      <3>2. /\ http[r].ser > lastRequestSerialNumberSeen
            /\ http[r].ser \notin DOMAIN misorderedRequests
        BY <3>1 DEF OrderInv, RequestsFresh
      <3>3. http[r].ser \in Int /\ lastRequestSerialNumberSeen \in Nat
        BY DEF TypeOK, Exchange, NoSerial
      <3> QED
        BY <3>1, <3>2, <3>3 DEF SeenBefore
    <2>4. WriteFails \/ CloseAll \/ \E r \in Roommate : ReceiveMisordered(r)
      BY <1>2 DEF Next, ServerNext, ClientNext, Loop, vars, EnterSelect,
           PollTimeUp, ReplyFromDownstream, Coalesce, CoalesceEnds,
           SendDownstream, SendAbandoned, Conclude, QuitOnStop, Receive,
           ReceiveEmpty, ReceiveInOrder, StopRequested, CloseKeyRequested,
           TimerFires, WriterTakes, WriterEnds, ReaderReads, ReaderEnds,
           PostEmpty, PostChunk, TakeReply, ClientGivesUp
    <2> QED
      BY <2>1, <2>2, <2>3, <2>4
  <1> QED
    BY <1>1, <1>2

\* The sanity checks on serial numbers never fire.
THEOREM PanicCorrect == Spec => []PanicHasCause
  <1>1. Init => OrderInv /\ WaitInv /\ PanicHasCause
    BY OrderInit, WaitInit DEF Init, PanicHasCause
  <1> QED
    BY <1>1, TypeCorrect, OrderStep, WaitStep, PanicStep, PTL DEF Spec
=============================================================================

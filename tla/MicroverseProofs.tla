-------------------------- MODULE MicroverseProofs --------------------------
(***************************************************************************)
(* No stored reply is forgotten, and neither direction loses or repeats a  *)
(* chunk, for any number of chunks, any numbers that the replies get, and  *)
(* whatever is stopped, and when.                                          *)
(***************************************************************************)
EXTENDS Microverse, SequenceTheorems, FiniteSetTheorems, WellFoundedInduction, TLAPS

(***************************************************************************)
(* What NoneStranded needs to be inductive: types, and of ser only that it *)
(* is a function of the roommates.                                         *)
(***************************************************************************)
RoomsTyped ==
  /\ at \in [Roommate -> Places]
  /\ ser = [r \in Roommate |-> ser[r]]
  /\ by \in [Roommate -> Seq(Nat)]

\* Chunks are numbers wherever they are on their way up.
ChunksTyped ==
  /\ \A n \in DOMAIN misorderedReplies : misorderedReplies[n] \in Nat
  /\ reply.body \in Nat
  /\ generated \in [Boundary -> Nat]

Typed == RoomsTyped /\ ChunksTyped
-----------------------------------------------------------------------------
LEMMA StrandedInit == MicroInit => Typed /\ NoneStranded
  <1> SUFFICES ASSUME MicroInit PROVE Typed /\ NoneStranded
    OBVIOUS
  <1>1. RoomsTyped
    BY DEF MicroInit, RoomsTyped, Places
  <1>2. ChunksTyped /\ NoneStranded
    BY DEF MicroInit, ChunksTyped, NoneStranded, NoChunk
  <1> QED
    BY <1>1, <1>2 DEF Typed

LEMMA EmptiedTyped ==
  ASSUME NEW f \in [Roommate -> Seq(Nat)], NEW r \in Roommate
  PROVE  [f EXCEPT ![r] = << >>] \in [Roommate -> Seq(Nat)]
  <1>1. << >> \in Seq(Nat)
    OBVIOUS
  <1> QED
    BY <1>1

\* An answer that starts carries a chunk or none.
LEMMA AnswerTyped ==
  ASSUME NEW held, NEW body \in Nat, StartReply(held, body)
  PROVE  reply'.body \in Nat
  BY DEF StartReply

\* A step of a roommate keeps the types, and whoever merges the reply before a
\* stored one has that one next.
LEMMA RoomKeeps ==
  ASSUME Typed, NoneStranded, NEW r \in Roommate, RoomStep(r)
  PROVE  (Typed /\ NoneStranded)'
  <1> USE DEF Typed, RoomsTyped, ChunksTyped, NoneStranded, Places, Move,
              replyVars, lpVars, endVars
  <1>1. CASE AskHome(r) \/ NoneIncoming(r) \/ LeaveHome(r)
    BY <1>1 DEF AskHome, NoneIncoming, LeaveHome
  <1>2. CASE TakeIncoming(r)
    BY <1>2 DEF TakeIncoming, Generates, Boundary
  <1>3. CASE ComeHome(r)
    <2>1. /\ at[r] = "arrive"
          /\ UNCHANGED <<ser, by, lastRecv, misorderedReplies, reply, generated>>
      BY <1>3 DEF ComeHome
    <2>2. PICK told \in SUBSET SentOut(r, [o \in Roommate |-> at[o] = "inner"]) :
            at' = [o \in Roommate |->
                     CASE o = r -> IF by[r] = <<>> THEN "top" ELSE "merge"
                       [] o \in told -> "told"
                       [] OTHER -> at[o]]
      BY <1>3 DEF ComeHome
    <2>3. \A o \in told : o \in Roommate /\ at[o] = "inner"
      BY <2>2 DEF SentOut, Other, Roommate
    <2>4. at' \in [Roommate -> Places]
      BY <2>2
    <2>5. \A q \in Roommate :
            at[q] \in {"arrive", "merge"} /\ by[q] # <<>> => at'[q] \in {"arrive", "merge"}
      BY <2>1, <2>2, <2>3
    <2> QED
      BY <2>1, <2>4, <2>5
  <1>4. CASE AddsPresent(r)
    <2> DEFINE next == misorderedReplies[ser[r] + 1]
    <2>1. next \in Nat /\ by' = [by EXCEPT ![r] = Append(by[r], next)]
      BY <1>4 DEF AddsPresent
    <2>2. Append(by[r], next) \in Seq(Nat) /\ Append(by[r], next) # <<>>
      BY <2>1
    <2> HIDE DEF next
    <2>3. by' \in [Roommate -> Seq(Nat)] /\ by'[r] # <<>>
      BY <2>1, <2>2
    <2>4. /\ at[r] = "merge" /\ UNCHANGED <<at, reply, generated>>
          /\ lastRecv' = ser[r] + 1
          /\ ser' = [ser EXCEPT ![r] = @ + 1]
          /\ \A n \in DOMAIN misorderedReplies' : misorderedReplies'[n] \in Nat
      BY <1>4 DEF AddsPresent, Taken
    <2> QED
      BY <2>3, <2>4
  <1>5. CASE AddsNoMore(r)
    BY <1>5 DEF AddsNoMore
  <1>6. CASE DeliverUp(r)
    BY <1>6 DEF DeliverUp, Absorbs
  <1>7. CASE NumberRequest(r)
    BY <1>7 DEF NumberRequest
  <1>8. CASE AbandonRequest(r)
    BY <1>8 DEF AbandonRequest
  <1>9. CASE JudgeReply(r)
    <2>1. /\ at[r] = "got" /\ at' = [at EXCEPT ![r] = "arrive"]
          /\ ser' = [ser EXCEPT ![r] = IF by'[r] = <<>> THEN NoSerial ELSE @]
          /\ UNCHANGED <<reply, generated>>
      BY <1>9 DEF JudgeReply
    <2>2. CASE by[r] = <<>>
      BY <1>9, <2>1, <2>2 DEF JudgeReply
    <2>3. CASE by[r] # <<>> /\ InTurn(ser[r])
      <3>1. lastRecv' = ser[r] /\ UNCHANGED <<by, misorderedReplies>>
        BY <1>9, <2>3 DEF JudgeReply
      <3> QED
        BY <2>1, <2>3, <3>1
    <2>4. CASE by[r] # <<>> /\ ~InTurn(ser[r])
      <3>1. /\ misorderedReplies' =
                 [n \in DOMAIN misorderedReplies \cup {ser[r]} |->
                    IF n = ser[r] THEN by[r][1] ELSE misorderedReplies[n]]
            /\ by' = [by EXCEPT ![r] = <<>>]
            /\ UNCHANGED lastRecv
        BY <1>9, <2>4 DEF JudgeReply
      <3>2. by[r][1] \in Nat
        BY <2>4
      <3>3. ser[r] # lastRecv + 1
        BY <2>4 DEF InTurn
      <3>4. by' \in [Roommate -> Seq(Nat)]
        BY <3>1, EmptiedTyped
      <3>5. /\ at' \in [Roommate -> Places]
            /\ ser' = [q \in Roommate |-> ser'[q]]
        BY <2>1
      <3>6. \A n \in DOMAIN misorderedReplies' : misorderedReplies'[n] \in Nat
        BY <3>1, <3>2
      <3>7. \A q \in Roommate : at[q] \in {"arrive", "merge"} =>
                                 /\ at'[q] = at[q] /\ by'[q] = by[q]
                                 /\ ser'[q] = ser[q]
        BY <2>1, <3>1
      <3>8. lastRecv + 1 \in DOMAIN misorderedReplies' =>
              lastRecv + 1 \in DOMAIN misorderedReplies
        BY <3>1, <3>3
      <3> QED
        BY <2>1, <3>1, <3>4, <3>5, <3>6, <3>7, <3>8
    <2> QED
      BY <2>2, <2>3, <2>4
  <1> QED
    BY <1>1, <1>2, <1>3, <1>4, <1>5, <1>6, <1>7, <1>8, <1>9 DEF RoomStep

\* A step of the poller touches no roommate that has a reply to merge.
LEMMA LpKeeps ==
  ASSUME Typed, NoneStranded, LpStep
  PROVE  (Typed /\ NoneStranded)'
  <1> USE DEF Typed, RoomsTyped, ChunksTyped, NoneStranded, Places, Move,
              roomVars, replyVars, endVars, NoChunk
  <1>1. CASE LpTimeUp \/ LpFromDown \/ LpLingers
    <2>1. UNCHANGED <<at, ser, by, lastRecv, misorderedReplies>>
      BY <1>1 DEF LpTimeUp, LpFromDown, LpLingers
    <2>2. CASE LpTimeUp
      BY <2>1, <2>2, AnswerTyped DEF LpTimeUp
    <2>3. CASE LpFromDown \/ LpLingers
      <3>1. Generates("dn") /\ StartReply(waiting, Generated("dn"))
        BY <2>3 DEF LpFromDown, LpLingers
      <3>2. Generated("dn") \in Nat /\ generated' \in [Boundary -> Nat]
        BY <3>1 DEF Generates, Generated, Boundary
      <3>3. reply'.body \in Nat
        BY <3>1, <3>2, AnswerTyped
      <3> QED
        BY <2>1, <3>2, <3>3
    <2> QED
      BY <1>1, <2>2, <2>3
  <1>2. CASE LpToDown \/ LpDropsWork
    BY <1>2 DEF LpToDown, LpDropsWork, Absorbs
  <1>3. CASE LpMovesOn
    BY <1>3, AnswerTyped DEF LpMovesOn
  <1>4. ASSUME NEW r \in Roommate, LpTake(r) PROVE (Typed /\ NoneStranded)'
    BY <1>4 DEF LpTake
  <1>5. ASSUME NEW r \in Roommate, LpAnswers(r) PROVE (Typed /\ NoneStranded)'
    <2>1. by' \in [Roommate -> Seq(Nat)]
      BY <1>5 DEF LpAnswers
    <2> QED
      BY <1>5, <2>1 DEF LpAnswers
  <1> QED
    BY <1>1, <1>2, <1>3, <1>4, <1>5 DEF LpStep

LEMMA StrandedStep ==
  Typed /\ NoneStranded /\ [MicroNext]_microVars => (Typed /\ NoneStranded)'
  <1> SUFFICES ASSUME Typed, NoneStranded, [MicroNext]_microVars
               PROVE  (Typed /\ NoneStranded)'
    OBVIOUS
  <1> USE DEF Typed, RoomsTyped, ChunksTyped, NoneStranded, Places, Move,
              roomVars, replyVars, lpVars, endVars
  <1>1. ASSUME NEW r \in Roommate, RoommateQuits(r) \/ RoommateEnds(r)
        PROVE  (Typed /\ NoneStranded)'
    <2>1. /\ at[r] \in {"top", "inner", "deliver"} /\ at' = [at EXCEPT ![r] = "done"]
          /\ by' = by \/ by' = [by EXCEPT ![r] = <<>>]
          /\ UNCHANGED <<ser, lastRecv, misorderedReplies, reply, generated>>
      BY <1>1 DEF RoommateQuits, RoommateEnds
    <2>2. by' \in [Roommate -> Seq(Nat)] /\ \A q \in Roommate : q # r => by'[q] = by[q]
      <3>1. CASE by' = by
        BY <3>1
      <3>2. CASE by' = [by EXCEPT ![r] = <<>>]
        BY <3>2, EmptiedTyped
      <3> QED
        BY <2>1, <3>1, <3>2
    <2>3. /\ at' \in [Roommate -> Places]
          /\ \A q \in Roommate : at[q] \in {"arrive", "merge"} =>
                                  at'[q] = at[q] /\ by'[q] = by[q]
      BY <2>1, <2>2
    <2> QED
      BY <2>1, <2>2, <2>3
  <1>2. ASSUME NEW b \in Boundary, GenTimerFires(b) \/ BoundaryQuits(b)
        PROVE  (Typed /\ NoneStranded)'
    BY <1>2 DEF GenTimerFires, BoundaryQuits
  <1>3. CASE LpQuits \/ StopAll \/ StopNext
    <2>1. UNCHANGED <<at, ser, by, lastRecv, misorderedReplies, reply, generated>>
      BY <1>3 DEF LpQuits, StopAll, StopNext
    <2> QED
      BY <2>1
  <1>4. CASE UNCHANGED microVars
    BY <1>4 DEF microVars
  <1> QED
    BY <1>1, <1>2, <1>3, <1>4, RoomKeeps, LpKeeps DEF MicroNext

\* A stored reply whose turn has come is not forgotten.
THEOREM StrandedCorrect == MicroSpec => []NoneStranded
  BY StrandedInit, StrandedStep, PTL DEF MicroSpec
-----------------------------------------------------------------------------
(***************************************************************************)
(* Types of the positions, counters and numbers.                           *)
(***************************************************************************)

Parts == Boundary \cup {"ab", "lp"}

PartsTyped ==
  /\ lp \in {"select", "absorb", "linger", "answer", "done"}
  /\ waiting \in Nat
  /\ bound \in [Boundary -> {"loop", "gen", "done"}]
  /\ reqStop \subseteq Parts /\ toStop \in Seq(Parts)

NumbersTyped ==
  /\ ser \in [Roommate -> Nat \cup {NoSerial}]
  /\ nextSend \in Nat \ {0} /\ lastRecv \in Nat /\ nextReply \in Nat \ {0}
  /\ reply \in [ser : Nat \cup {NoSerial}, body : Nat]
  /\ DOMAIN misorderedReplies \subseteq Nat \cup {NoSerial}
  /\ forceReplySn \in [1..Forced -> 1..Forced]
  /\ \A i, j \in 1..Forced : forceReplySn[i] = forceReplySn[j] => i = j

\* Every step keeps the types of the parts' positions and of the stop.
LEMMA PartsStep == PartsTyped /\ [MicroNext]_microVars => PartsTyped'
  <1> SUFFICES ASSUME PartsTyped, [MicroNext]_microVars PROVE PartsTyped'
    OBVIOUS
  <1> USE DEF PartsTyped
  <1>1. CASE UNCHANGED <<lp, waiting, bound, stopVars>>
    BY <1>1 DEF stopVars
  <1>2. ASSUME NEW b \in Boundary, GenTimerFires(b) \/ BoundaryQuits(b)
        PROVE  PartsTyped'
    BY <1>2 DEF GenTimerFires, BoundaryQuits, lpVars, stopVars
  <1>3. ASSUME NEW r \in Roommate, TakeIncoming(r) PROVE PartsTyped'
    BY <1>3 DEF TakeIncoming, Generates, lpVars, stopVars
  <1>4. ASSUME NEW r \in Roommate, DeliverUp(r) PROVE PartsTyped'
    BY <1>4 DEF DeliverUp, Absorbs, lpVars, stopVars
  <1>5. ASSUME NEW held \in Nat, NEW body, StartReply(held, body)
        PROVE  lp' = "answer" /\ waiting' \in Nat
    BY <1>5 DEF StartReply
  <1>6. CASE LpFromDown \/ LpLingers
    <2>1. /\ StartReply(waiting, Generated("dn"))
          /\ bound' = [bound EXCEPT !["dn"] = "loop"] /\ UNCHANGED stopVars
      BY <1>6 DEF LpFromDown, LpLingers, Generates
    <2> QED
      BY <1>5, <2>1 DEF stopVars
  <1>7. CASE LpTimeUp \/ LpMovesOn
    BY <1>5, <1>7 DEF LpTimeUp, LpMovesOn, endVars, stopVars
  <1>8. CASE LpToDown \/ LpDropsWork
    BY <1>8 DEF LpToDown, LpDropsWork, Absorbs, endVars, stopVars
  <1>9. ASSUME NEW r \in Roommate, LpTake(r) PROVE PartsTyped'
    <2>1. lp' \in {"linger", "absorb"} /\ waiting' = waiting + 1
          /\ UNCHANGED <<bound, stopVars>>
      BY <1>9, Zenon DEF LpTake, endVars
    <2> QED
      BY <2>1 DEF stopVars
  <1>10. ASSUME NEW r \in Roommate, LpAnswers(r) PROVE PartsTyped'
    BY <1>10 DEF LpAnswers, endVars, stopVars
  <1>11. CASE LpQuits
    BY <1>11 DEF LpQuits, endVars, stopVars
  <1>12. CASE StopAll
    <2>1. /\ toStop' \in StopOrders /\ reqStop' = {Head(toStop')}
          /\ UNCHANGED <<lp, waiting, bound>>
      BY <1>12 DEF StopAll, lpVars, endVars
    <2> DEFINE first == <<"up", "ab", "lp", "dn">>
               second == <<"dn", "lp", "ab", "up">>
    <2>2. /\ first \in Seq(Parts) /\ first # <<>>
          /\ second \in Seq(Parts) /\ second # <<>>
      <3>1. Len(first) = 4 /\ Len(second) = 4
        OBVIOUS
      <3>2. first \in Seq(Parts) /\ second \in Seq(Parts)
        BY DEF Parts, Boundary
      <3> QED
        BY <3>1, <3>2, EmptySeq
    <2>3. toStop' \in Seq(Parts) /\ toStop' # <<>>
      <3>1. toStop' = first \/ toStop' = second
        BY <2>1, Zenon DEF StopOrders
      <3> QED
        BY <2>2, <3>1, Zenon
    <2>4. Head(toStop') \in Parts
      BY <2>3, HeadTailProperties
    <2> QED
      BY <2>1, <2>3, <2>4
  <1>13. CASE StopNext
    <2>1. /\ toStop # <<>> /\ toStop' = Tail(toStop)
          /\ reqStop' = IF Tail(toStop) = <<>> THEN reqStop
                        ELSE reqStop \cup {Head(Tail(toStop))}
          /\ UNCHANGED <<lp, waiting, bound>>
      BY <1>13 DEF StopNext, lpVars, endVars
    <2>2. Tail(toStop) \in Seq(Parts)
      BY <2>1, HeadTailProperties
    <2>3. Tail(toStop) # <<>> => Head(Tail(toStop)) \in Parts
      BY <2>2, HeadTailProperties
    <2> QED
      BY <2>1, <2>2, <2>3
  <1> QED
    <2>1. ASSUME NEW r \in Roommate, RoomStep(r) PROVE PartsTyped'
      BY <2>1, <1>1, <1>3, <1>4
      DEF RoomStep, AskHome, NoneIncoming, LeaveHome, ComeHome, AddsPresent,
          AddsNoMore, NumberRequest, AbandonRequest, JudgeReply, lpVars, endVars
    <2>2. ASSUME NEW r \in Roommate, RoommateQuits(r) \/ RoommateEnds(r)
          PROVE  PartsTyped'
      BY <2>2, <1>1 DEF RoommateQuits, RoommateEnds, lpVars, endVars
    <2> QED
      BY <2>1, <2>2, <1>1, <1>2, <1>6, <1>7, <1>8, <1>9, <1>10, <1>11, <1>12, <1>13
      DEF MicroNext, LpStep, microVars, lpVars, endVars

\* Every step keeps the types of the numbers.
LEMMA NumbersStep ==
  Typed /\ NumbersTyped /\ [MicroNext]_microVars => NumbersTyped'
  <1> SUFFICES ASSUME Typed, NumbersTyped, [MicroNext]_microVars
               PROVE  NumbersTyped'
    OBVIOUS
  <1> USE DEF NumbersTyped, NoSerial
  <1> DEFINE numbers == <<ser, replyVars, nextReply, reply, forceReplySn>>
  <1>1. CASE UNCHANGED numbers
    BY <1>1 DEF replyVars
  <1>2. ASSUME NEW r \in Roommate, AddsPresent(r) PROVE NumbersTyped'
    <2>1. /\ ser' = [ser EXCEPT ![r] = @ + 1] /\ lastRecv' = ser[r] + 1
          /\ DOMAIN misorderedReplies' \subseteq DOMAIN misorderedReplies
          /\ UNCHANGED <<nextSend, nextReply, reply, forceReplySn>>
      BY <1>2 DEF AddsPresent, Taken, lpVars
    <2> QED
      BY <2>1
  <1>3. ASSUME NEW r \in Roommate, AddsNoMore(r) \/ AbandonRequest(r)
        PROVE  NumbersTyped'
    BY <1>3 DEF AddsNoMore, AbandonRequest, replyVars, lpVars
  <1>4. ASSUME NEW r \in Roommate, NumberRequest(r) PROVE NumbersTyped'
    <2>1. /\ \/ UNCHANGED <<ser, nextSend>>
             \/ ser' = [ser EXCEPT ![r] = nextSend] /\ nextSend' = nextSend + 1
          /\ UNCHANGED <<lastRecv, misorderedReplies, nextReply, reply, forceReplySn>>
      BY <1>4 DEF NumberRequest, lpVars
    <2> QED
      BY <2>1
  <1>5. ASSUME NEW r \in Roommate, JudgeReply(r) PROVE NumbersTyped'
    <2>1. /\ ser' = [ser EXCEPT ![r] = IF by'[r] = <<>> THEN NoSerial ELSE @]
          /\ UNCHANGED <<nextSend, nextReply, reply, forceReplySn>>
      BY <1>5 DEF JudgeReply, lpVars
    <2>2. ser' \in [Roommate -> Nat \cup {NoSerial}]
      BY <2>1
    <2>3. CASE by[r] = <<>>
      BY <1>5, <2>1, <2>2, <2>3 DEF JudgeReply
    <2>4. CASE by[r] # <<>> /\ InTurn(ser[r])
      <3>1. lastRecv' = ser[r] /\ UNCHANGED misorderedReplies
        BY <1>5, <2>4 DEF JudgeReply
      <3> QED
        BY <2>1, <2>2, <2>4, <3>1 DEF InTurn
    <2>5. CASE by[r] # <<>> /\ ~InTurn(ser[r])
      <3>1. /\ DOMAIN misorderedReplies' = DOMAIN misorderedReplies \cup {ser[r]}
            /\ UNCHANGED lastRecv
        BY <1>5, <2>5 DEF JudgeReply
      <3> QED
        BY <2>1, <2>2, <3>1
    <2> QED
      BY <2>3, <2>4, <2>5
  <1>6. ASSUME NEW held, NEW body \in Nat, StartReply(held, body)
        PROVE  /\ reply' \in [ser : Nat \cup {NoSerial}, body : Nat]
               /\ nextReply' \in Nat \ {0}
    <2>1. ReplySerial \in Nat
      BY MicroverseAssumption DEF ReplySerial
    <2> QED
      BY <1>6, <2>1 DEF StartReply
  <1>7. CASE LpFromDown \/ LpLingers
    <2>1. Generated("dn") \in Nat
      BY DEF Generated, Typed, ChunksTyped, Boundary
    <2>2. /\ StartReply(waiting, Generated("dn"))
          /\ UNCHANGED <<ser, replyVars, forceReplySn>>
      BY <1>7 DEF LpFromDown, LpLingers, roomVars
    <2> QED
      BY <1>6, <2>1, <2>2 DEF replyVars
  <1>8. CASE LpTimeUp \/ LpMovesOn
    <2>1. /\ StartReply(waiting, NoChunk) \/ UNCHANGED <<reply, nextReply>>
          /\ UNCHANGED <<ser, replyVars, forceReplySn>>
      BY <1>8 DEF LpTimeUp, LpMovesOn, roomVars
    <2> QED
      BY <1>6, <2>1 DEF replyVars, NoChunk
  <1>9. ASSUME NEW r \in Roommate, LpTake(r) PROVE NumbersTyped'
    <2>1. /\ ser' = [ser EXCEPT ![r] = NoSerial]
          /\ UNCHANGED <<replyVars, nextReply, reply, forceReplySn>>
      BY <1>9 DEF LpTake
    <2> QED
      BY <2>1 DEF replyVars
  <1>10. ASSUME NEW r \in Roommate, LpAnswers(r) PROVE NumbersTyped'
    BY <1>10 DEF LpAnswers, replyVars, NoChunk
  <1> QED
    <2> HIDE DEF NumbersTyped
    <2>1. ASSUME NEW r \in Roommate, RoomStep(r) PROVE NumbersTyped'
      BY <2>1, <1>1, <1>2, <1>3, <1>4, <1>5
      DEF RoomStep, AskHome, TakeIncoming, NoneIncoming, LeaveHome, ComeHome,
          DeliverUp, lpVars
    <2>2. ASSUME NEW r \in Roommate, RoommateQuits(r) \/ RoommateEnds(r)
          PROVE  NumbersTyped'
      BY <2>2, <1>1 DEF RoommateQuits, RoommateEnds, lpVars
    <2>3. ASSUME NEW b \in Boundary, GenTimerFires(b) \/ BoundaryQuits(b)
          PROVE  NumbersTyped'
      BY <2>3, <1>1 DEF GenTimerFires, BoundaryQuits, lpVars, roomVars
    <2>4. CASE LpToDown \/ LpDropsWork \/ LpQuits \/ StopAll \/ StopNext
      BY <2>4, <1>1 DEF LpToDown, LpDropsWork, LpQuits, StopAll, StopNext, lpVars,
         roomVars
    <2>5. CASE UNCHANGED microVars
      BY <2>5, <1>1 DEF microVars, lpVars, roomVars
    <2> QED
      BY <2>1, <2>2, <2>3, <2>4, <2>5, <1>7, <1>8, <1>9, <1>10
      DEF MicroNext, LpStep
-----------------------------------------------------------------------------
(***************************************************************************)
(* What each has in hand, and when.                                        *)
(***************************************************************************)

\* A roommate waits for a reply with empty hands and carries a number only
\* together with what the number is of.
HandsKnown ==
  \A r \in Roommate :
    /\ at[r] \in {"top", "inner", "told", "depart", "number", "request", "wait"}
         => by[r] = <<>>
    /\ at[r] = "got" => Len(by[r]) <= 1
    /\ work[r] # NoChunk => at[r] \in {"depart", "number", "request"}
    /\ ser[r] # NoSerial => at[r] \in {"request", "got", "arrive", "merge"}
    /\ at[r] = "arrive" /\ by[r] = <<>> => ser[r] = NoSerial
    /\ at[r] = "request" => (work[r] = NoChunk <=> ser[r] = NoSerial)

\* LittlePoll starts a reply when it has none, and takes work when it has none.
PollerKnown ==
  /\ lp \in {"select", "absorb", "linger"} => reply.body = NoChunk
  /\ lp # "absorb" => writeMe = <<>>

WorkTyped == work \in [Roommate -> Nat]

LEMMA WorkStep == Typed /\ WorkTyped /\ [MicroNext]_microVars => WorkTyped'
  <1> SUFFICES ASSUME Typed, WorkTyped, [MicroNext]_microVars PROVE WorkTyped'
    OBVIOUS
  <1> USE DEF WorkTyped
  <1>1. CASE UNCHANGED work
    BY <1>1
  <1>2. ASSUME NEW r \in Roommate, TakeIncoming(r) PROVE WorkTyped'
    <2>1. Generated("up") \in Nat
      BY DEF Generated, Typed, ChunksTyped, Boundary
    <2> QED
      BY <1>2, <2>1 DEF TakeIncoming
  <1>3. ASSUME NEW r \in Roommate, AbandonRequest(r) \/ LpTake(r) PROVE WorkTyped'
    <2>1. work' = [work EXCEPT ![r] = NoChunk]
      BY <1>3 DEF AbandonRequest, LpTake
    <2> QED
      BY <2>1 DEF NoChunk
  <1> QED
    BY <1>1, <1>2, <1>3
    DEF MicroNext, RoomStep, AskHome, NoneIncoming, LeaveHome, ComeHome,
        AddsPresent, AddsNoMore, DeliverUp, NumberRequest, JudgeReply,
        RoommateQuits, RoommateEnds, LpStep, LpTimeUp, LpFromDown, LpToDown,
        LpDropsWork, LpLingers, LpMovesOn, LpAnswers, LpQuits, GenTimerFires,
        BoundaryQuits, StopAll, StopNext, roomVars, microVars

LEMMA HandsStep ==
  Typed /\ NumbersTyped /\ WorkTyped /\ HandsKnown /\ [MicroNext]_microVars
    => HandsKnown'
  <1> SUFFICES ASSUME Typed, NumbersTyped, WorkTyped, HandsKnown,
                      [MicroNext]_microVars
               PROVE  HandsKnown'
    OBVIOUS
  <1>1. /\ at \in [Roommate -> Places] /\ by \in [Roommate -> Seq(Nat)]
        /\ work \in [Roommate -> Nat] /\ ser \in [Roommate -> Nat \cup {NoSerial}]
        /\ nextSend \in Nat
    BY DEF Typed, RoomsTyped, NumbersTyped, WorkTyped
  <1>2. CASE UNCHANGED <<at, by, work, ser>>
    BY <1>2 DEF HandsKnown
  <1>3. ASSUME NEW r \in Roommate, AskHome(r) PROVE HandsKnown'
    BY <1>1, <1>3 DEF HandsKnown, AskHome, Move
  <1>4. ASSUME NEW r \in Roommate, TakeIncoming(r) PROVE HandsKnown'
    <2>1. /\ at[r] \in {"inner", "told"} /\ at' = [at EXCEPT ![r] = "depart"]
          /\ \E w : work' = [work EXCEPT ![r] = w]
          /\ UNCHANGED <<by, ser>>
      BY <1>4 DEF TakeIncoming, Move
    <2> QED
      BY <1>1, <2>1 DEF HandsKnown
  <1>5. ASSUME NEW r \in Roommate, NoneIncoming(r) \/ LeaveHome(r) PROVE HandsKnown'
    BY <1>1, <1>5 DEF HandsKnown, NoneIncoming, LeaveHome, Move
  <1>6. ASSUME NEW r \in Roommate, ComeHome(r) PROVE HandsKnown'
    <2>1. /\ at[r] = "arrive" /\ UNCHANGED <<work, ser, by>>
          /\ \A o \in Roommate :
               \/ o = r /\ at'[o] = IF by[r] = <<>> THEN "top" ELSE "merge"
               \/ at[o] = "inner" /\ at'[o] = "told"
               \/ o # r /\ at'[o] = at[o]
      <3>1. PICK told \in SUBSET SentOut(r, [o \in Roommate |-> at[o] = "inner"]) :
              at' = [o \in Roommate |->
                       CASE o = r -> IF by[r] = <<>> THEN "top" ELSE "merge"
                         [] o \in told -> "told"
                         [] OTHER -> at[o]]
        BY <1>6 DEF ComeHome
      <3>2. \A o \in told : o \in Roommate /\ at[o] = "inner"
        BY <3>1 DEF SentOut, Other, Roommate
      <3>3. at[r] = "arrive" /\ UNCHANGED <<work, ser, by>>
        BY <1>6 DEF ComeHome
      <3> QED
        BY <3>1, <3>2, <3>3
    <2> QED
      BY <1>1, <2>1 DEF HandsKnown
  <1>7. ASSUME NEW r \in Roommate, AddsPresent(r) PROVE HandsKnown'
    <2>1. /\ at[r] = "merge" /\ UNCHANGED <<at, work>>
          /\ \E b : by' = [by EXCEPT ![r] = b]
          /\ \E n : ser' = [ser EXCEPT ![r] = n]
      BY <1>7 DEF AddsPresent
    <2> QED
      BY <1>1, <2>1 DEF HandsKnown
  <1>8. ASSUME NEW r \in Roommate, AddsNoMore(r) PROVE HandsKnown'
    BY <1>1, <1>8 DEF HandsKnown, AddsNoMore, Move
  <1>9. ASSUME NEW r \in Roommate, DeliverUp(r) PROVE HandsKnown'
    BY <1>1, <1>9 DEF HandsKnown, DeliverUp, Move
  <1>10. ASSUME NEW r \in Roommate, NumberRequest(r) PROVE HandsKnown'
    <2>1. /\ at[r] = "number" /\ at' = [at EXCEPT ![r] = "request"]
          /\ UNCHANGED <<work, by>>
      BY <1>10 DEF NumberRequest, Move
    <2>2. ser[r] = NoSerial
      BY <2>1 DEF HandsKnown
    <2>3. ser' = [ser EXCEPT ![r] = IF work[r] = NoChunk THEN NoSerial ELSE nextSend]
      <3>1. CASE work[r] = NoChunk
        <4>1. ser' = ser
          BY <1>10, <3>1 DEF NumberRequest
        <4> QED
          BY <1>1, <2>2, <3>1, <4>1
      <3>2. CASE work[r] # NoChunk
        BY <1>10, <3>2 DEF NumberRequest
      <3> QED
        BY <3>1, <3>2
    <2>4. nextSend # NoSerial
      BY <1>1 DEF NoSerial
    <2> QED
      BY <1>1, <2>1, <2>3, <2>4 DEF HandsKnown
  <1>11. ASSUME NEW r \in Roommate, AbandonRequest(r) PROVE HandsKnown'
    BY <1>1, <1>11 DEF HandsKnown, AbandonRequest, Move
  <1>12. ASSUME NEW r \in Roommate, JudgeReply(r) PROVE HandsKnown'
    <2>1. /\ at[r] = "got" /\ at' = [at EXCEPT ![r] = "arrive"] /\ work' = work
          /\ ser' = [ser EXCEPT ![r] = IF by'[r] = <<>> THEN NoSerial ELSE @]
      BY <1>12 DEF JudgeReply, Move
    <2>2. by' = by \/ by' = [by EXCEPT ![r] = <<>>]
      BY <1>12 DEF JudgeReply
    <2> QED
      BY <1>1, <2>1, <2>2 DEF HandsKnown
  <1>13. ASSUME NEW r \in Roommate, RoommateQuits(r) \/ RoommateEnds(r)
         PROVE  HandsKnown'
    <2>1. /\ at[r] \in {"top", "inner", "deliver"} /\ at' = [at EXCEPT ![r] = "done"]
          /\ by' = by \/ by' = [by EXCEPT ![r] = <<>>]
          /\ UNCHANGED <<ser, work>>
      BY <1>13 DEF RoommateQuits, RoommateEnds, Move
    <2> QED
      BY <1>1, <2>1 DEF HandsKnown
  <1>14. ASSUME NEW r \in Roommate, LpTake(r) PROVE HandsKnown'
    <2>1. /\ at[r] = "request" /\ at' = [at EXCEPT ![r] = "wait"]
          /\ work' = [work EXCEPT ![r] = NoChunk]
          /\ ser' = [ser EXCEPT ![r] = NoSerial] /\ by' = by
      BY <1>14 DEF LpTake, Move
    <2> QED
      BY <1>1, <2>1 DEF HandsKnown
  <1>15. ASSUME NEW r \in Roommate, LpAnswers(r) PROVE HandsKnown'
    <2>1. /\ at[r] = "wait" /\ at' = [at EXCEPT ![r] = "got"] /\ work' = work
          /\ ser' = [ser EXCEPT ![r] = reply.ser]
          /\ by' = [by EXCEPT ![r] = IF reply.body = NoChunk THEN <<>> ELSE <<reply.body>>]
      BY <1>15 DEF LpAnswers, Move
    <2>2. by'[r] = <<>> \/ by'[r] = <<reply.body>>
      BY <1>1, <2>1
    <2>3. Len(by'[r]) <= 1
      <3>1. CASE by'[r] = <<>>
        BY <3>1
      <3>2. CASE by'[r] = <<reply.body>>
        BY <3>2
      <3> QED
        BY <2>2, <3>1, <3>2
    <2>4. \A q \in Roommate : q # r => by'[q] = by[q] /\ ser'[q] = ser[q]
      BY <1>1, <2>1
    <2> HIDE DEF HandsKnown
    <2>5. at'[r] = "got" /\ work'[r] = work[r] /\ \A q \in Roommate : q # r => at'[q] = at[q]
      BY <1>1, <2>1
    <2>6. work[r] = NoChunk
      BY <2>1 DEF HandsKnown
    <2> QED
      BY <2>1, <2>3, <2>4, <2>5, <2>6 DEF HandsKnown
  <1> QED
    BY <1>2, <1>3, <1>4, <1>5, <1>6, <1>7, <1>8, <1>9, <1>10, <1>11, <1>12,
       <1>13, <1>14, <1>15
    DEF MicroNext, RoomStep, LpStep, LpTimeUp, LpFromDown, LpToDown, LpDropsWork,
        LpLingers, LpMovesOn, LpQuits, GenTimerFires, BoundaryQuits, StopAll,
        StopNext, roomVars, microVars

LEMMA PollerStep == PollerKnown /\ [MicroNext]_microVars => PollerKnown'
  <1> SUFFICES ASSUME PollerKnown, [MicroNext]_microVars PROVE PollerKnown'
    OBVIOUS
  <1> USE DEF PollerKnown
  <1>1. CASE UNCHANGED <<lp, reply, writeMe>>
    BY <1>1
  <1>2. ASSUME NEW held, NEW body, StartReply(held, body), writeMe' = writeMe,
               lp # "absorb"
        PROVE  PollerKnown'
    BY <1>2 DEF StartReply
  <1>3. CASE LpTimeUp \/ LpFromDown \/ LpLingers
    BY <1>2, <1>3 DEF LpTimeUp, LpFromDown, LpLingers
  <1>4. CASE LpMovesOn
    BY <1>2, <1>4 DEF LpMovesOn
  <1>5. CASE LpToDown \/ LpDropsWork
    BY <1>5 DEF LpToDown, LpDropsWork
  <1>6. ASSUME NEW r \in Roommate, LpTake(r) PROVE PollerKnown'
    <2>1. /\ lp = "select" /\ reply' = reply
          /\ lp' = "absorb" \/ (lp' = "linger" /\ writeMe' = writeMe)
      BY <1>6, Zenon DEF LpTake
    <2> QED
      BY <2>1
  <1>7. ASSUME NEW r \in Roommate, LpAnswers(r) PROVE PollerKnown'
    BY <1>7 DEF LpAnswers
  <1>8. CASE LpQuits
    BY <1>8 DEF LpQuits
  <1> QED
    <2> HIDE DEF PollerKnown
    <2>1. ASSUME NEW r \in Roommate,
                 RoomStep(r) \/ RoommateQuits(r) \/ RoommateEnds(r)
          PROVE  PollerKnown'
      BY <2>1, <1>1
      DEF RoomStep, AskHome, TakeIncoming, NoneIncoming, LeaveHome, ComeHome,
          AddsPresent, AddsNoMore, DeliverUp, NumberRequest, AbandonRequest,
          JudgeReply, RoommateQuits, RoommateEnds, lpVars
    <2> QED
      BY <2>1, <1>1, <1>3, <1>4, <1>5, <1>6, <1>7, <1>8
      DEF MicroNext, LpStep, GenTimerFires, BoundaryQuits, StopAll, StopNext,
          lpVars, microVars
-----------------------------------------------------------------------------
(***************************************************************************)
(* The numbers of replies.                                                 *)
(***************************************************************************)

\* The number of the i-th reply with a body; those that have been given.
SerialOf(i) == IF i \in DOMAIN forceReplySn THEN forceReplySn[i] ELSE i

Given == {SerialOf(i) : i \in 1..(nextReply - 1)}

Brings(r) == at[r] = "got" /\ by[r] # <<>>

\* A number is at one place only: with the answer that LittlePoll is sending,
\* with a roommate that has yet to judge its reply, or stored.
ReplySerials ==
  /\ reply.body # NoChunk =>
       reply.ser \in Given /\ reply.ser \notin DOMAIN misorderedReplies
  /\ \A r \in Roommate : Brings(r) =>
       /\ ser[r] \in Given /\ ser[r] \notin DOMAIN misorderedReplies
       /\ reply.body # NoChunk => reply.ser # ser[r]
       /\ \A q \in Roommate : Brings(q) /\ q # r => ser[q] # ser[r]
  /\ DOMAIN misorderedReplies \subseteq Given

\* The forced numbers permute an initial segment, so that no number is given
\* twice.
LEMMA SerialsDiffer ==
  ASSUME NumbersTyped, NEW i \in Nat \ {0}, NEW j \in Nat \ {0}, i # j
  PROVE  SerialOf(i) # SerialOf(j) /\ SerialOf(i) \in Nat
  <1>1. /\ DOMAIN forceReplySn = 1..Forced /\ Forced \in Nat
        /\ \A k \in 1..Forced : forceReplySn[k] \in 1..Forced
        /\ \A k, l \in 1..Forced : forceReplySn[k] = forceReplySn[l] => k = l
    BY MicroverseAssumption DEF NumbersTyped
  <1> QED
    BY <1>1 DEF SerialOf

\* A reply that starts has a number never given before.
LEMMA FreshSerial ==
  ASSUME NumbersTyped, NEW held, NEW body, StartReply(held, body),
         forceReplySn' = forceReplySn
  PROVE  /\ reply'.body = body
         /\ Given \subseteq Given'
         /\ body # NoChunk => reply'.ser \in Given' /\ reply'.ser \notin Given
  <1>1. nextReply \in Nat \ {0}
    BY DEF NumbersTyped
  <1>2. reply'.body = body
    BY DEF StartReply
  <1>3. nextReply' = IF body = NoChunk THEN nextReply ELSE nextReply + 1
    BY DEF StartReply
  <1>4. \A i : SerialOf(i)' = SerialOf(i)
    BY DEF SerialOf
  <1>5. Given' = {SerialOf(i) : i \in 1..(nextReply' - 1)}
    BY <1>4 DEF Given
  <1>6. Given \subseteq Given'
    BY <1>1, <1>3, <1>5 DEF Given
  <1>7. ASSUME body # NoChunk PROVE reply'.ser \in Given' /\ reply'.ser \notin Given
    <2>1. reply'.ser = SerialOf(nextReply)
      BY <1>7 DEF StartReply, ReplySerial, SerialOf
    <2>2. SerialOf(nextReply) \in Given'
      BY <1>1, <1>3, <1>5, <1>7
    <2>3. SerialOf(nextReply) \notin Given
      <3>1. \A i \in 1..(nextReply - 1) : SerialOf(i) # SerialOf(nextReply)
        BY <1>1, SerialsDiffer
      <3> QED
        BY <3>1 DEF Given
    <2> QED
      BY <2>1, <2>2, <2>3
  <1> QED
    BY <1>2, <1>6, <1>7

LEMMA ReplySerialsStart ==
  ASSUME NumbersTyped, ReplySerials, reply.body = NoChunk,
         NEW held, NEW body, StartReply(held, body),
         UNCHANGED <<at, by, ser, misorderedReplies, forceReplySn>>
  PROVE  ReplySerials'
  <1>1. /\ reply'.body = body
        /\ Given \subseteq Given'
        /\ body # NoChunk => reply'.ser \in Given' /\ reply'.ser \notin Given
    BY FreshSerial
  <1>2. \A r : Brings(r)' <=> Brings(r)
    BY DEF Brings
  <1> QED
    BY <1>1, <1>2 DEF ReplySerials

LEMMA ReplySerialsStep ==
  Typed /\ NumbersTyped /\ HandsKnown /\ PollerKnown /\ ReplySerials
  /\ [MicroNext]_microVars => ReplySerials'
  <1> SUFFICES ASSUME Typed, NumbersTyped, HandsKnown, PollerKnown,
                      ReplySerials, [MicroNext]_microVars
               PROVE  ReplySerials'
    OBVIOUS
  <1>1. /\ at \in [Roommate -> Places] /\ by \in [Roommate -> Seq(Nat)]
        /\ ser \in [Roommate -> Nat \cup {NoSerial}]
    BY DEF Typed, RoomsTyped, NumbersTyped
  \* Nothing is given, and nobody comes to have anything.
  <1>2. ASSUME UNCHANGED <<nextReply, forceReplySn, reply>>,
               DOMAIN misorderedReplies' \subseteq DOMAIN misorderedReplies,
               \A r \in Roommate : Brings(r)' => Brings(r) /\ ser'[r] = ser[r]
        PROVE  ReplySerials'
    <2>1. Given' = Given
      BY <1>2 DEF Given, SerialOf
    <2> QED
      BY <1>2, <2>1 DEF ReplySerials
  <1>3. CASE UNCHANGED <<at, by, ser, misorderedReplies, nextReply, forceReplySn, reply>>
    BY <1>2, <1>3 DEF Brings
  <1>4. ASSUME NEW r \in Roommate, RoomStep(r), ~JudgeReply(r) PROVE ReplySerials'
    <2>1. /\ UNCHANGED <<nextReply, forceReplySn, reply>>
          /\ DOMAIN misorderedReplies' \subseteq DOMAIN misorderedReplies
      BY <1>4 DEF RoomStep, AskHome, TakeIncoming, NoneIncoming, LeaveHome,
         ComeHome, AddsPresent, Taken, AddsNoMore, DeliverUp, NumberRequest,
         AbandonRequest, lpVars, replyVars
    <2>2. \A q \in Roommate : Brings(q)' => Brings(q) /\ ser'[q] = ser[q]
      <3>1. CASE AskHome(r) \/ TakeIncoming(r) \/ NoneIncoming(r) \/ LeaveHome(r)
        BY <1>1, <3>1 DEF AskHome, TakeIncoming, NoneIncoming, LeaveHome, Move, Brings
      <3>2. CASE ComeHome(r)
        <4>1. PICK told \in SUBSET SentOut(r, [o \in Roommate |-> at[o] = "inner"]) :
                at' = [o \in Roommate |->
                         CASE o = r -> IF by[r] = <<>> THEN "top" ELSE "merge"
                           [] o \in told -> "told"
                           [] OTHER -> at[o]]
          BY <3>2 DEF ComeHome
        <4>2. \A q \in Roommate : at'[q] = "got" => at[q] = "got"
          BY <4>1
        <4> QED
          BY <3>2, <4>2 DEF ComeHome, Brings
      <3>3. CASE AddsPresent(r)
        <4>1. /\ at[r] = "merge" /\ at' = at
              /\ \A q \in Roommate : q # r => by'[q] = by[q] /\ ser'[q] = ser[q]
          BY <1>1, <3>3 DEF AddsPresent
        <4> QED
          BY <4>1 DEF Brings
      <3>4. CASE AddsNoMore(r) \/ DeliverUp(r) \/ NumberRequest(r) \/ AbandonRequest(r)
        BY <1>1, <3>4
        DEF AddsNoMore, DeliverUp, NumberRequest, AbandonRequest, Move, Brings
      <3> QED
        BY <1>4, <3>1, <3>2, <3>3, <3>4 DEF RoomStep
    <2> QED
      BY <1>2, <2>1, <2>2
  <1>5. ASSUME NEW r \in Roommate, JudgeReply(r) PROVE ReplySerials'
    <2>1. /\ at[r] = "got" /\ at' = [at EXCEPT ![r] = "arrive"]
          /\ UNCHANGED <<nextReply, forceReplySn, reply>>
          /\ \A q \in Roommate : q # r => ser'[q] = ser[q]
      BY <1>1, <1>5 DEF JudgeReply, Move, lpVars
    <2>2. \A q \in Roommate : q # r => by'[q] = by[q]
      <3>1. by' = by \/ by' = [by EXCEPT ![r] = <<>>]
        BY <1>5 DEF JudgeReply
      <3> QED
        BY <1>1, <3>1
    <2>3. \A q \in Roommate : Brings(q)' => q # r /\ Brings(q) /\ ser'[q] = ser[q]
      BY <1>1, <2>1, <2>2 DEF Brings
    <2>4. CASE misorderedReplies' = misorderedReplies
      BY <1>2, <2>1, <2>3, <2>4
    <2>5. CASE /\ by[r] # <<>>
               /\ DOMAIN misorderedReplies' = DOMAIN misorderedReplies \cup {ser[r]}
      <3>1. Given' = Given
        BY <2>1 DEF Given, SerialOf
      <3>2. Brings(r)
        BY <2>1, <2>5 DEF Brings
      <3> QED
        BY <2>1, <2>3, <2>5, <3>1, <3>2 DEF ReplySerials
    <2> QED
      BY <1>5, <2>4, <2>5 DEF JudgeReply
  <1>6. ASSUME NEW r \in Roommate, RoommateQuits(r) \/ RoommateEnds(r)
        PROVE  ReplySerials'
    <2>1. /\ at' = [at EXCEPT ![r] = "done"]
          /\ \A q \in Roommate : q # r => by'[q] = by[q]
          /\ UNCHANGED <<ser, misorderedReplies, nextReply, forceReplySn, reply>>
      BY <1>1, <1>6 DEF RoommateQuits, RoommateEnds, Move, lpVars, replyVars
    <2> QED
      BY <1>1, <1>2, <2>1 DEF Brings
  <1>7. CASE LpTimeUp \/ LpFromDown \/ LpLingers \/ LpMovesOn
    <2>1. /\ UNCHANGED <<at, by, ser, misorderedReplies, forceReplySn>>
          /\ lp \in {"select", "linger"}
          /\ \/ StartReply(waiting, NoChunk) \/ StartReply(waiting, Generated("dn"))
             \/ UNCHANGED <<reply, nextReply>>
      BY <1>7 DEF LpTimeUp, LpFromDown, LpLingers, LpMovesOn, roomVars, replyVars
    <2>2. reply.body = NoChunk
      BY <2>1 DEF PollerKnown
    <2> QED
      BY <1>3, <2>1, <2>2, ReplySerialsStart
  <1>8. ASSUME NEW r \in Roommate, LpTake(r) PROVE ReplySerials'
    <2>1. /\ at[r] = "request" /\ at' = [at EXCEPT ![r] = "wait"]
          /\ \A q \in Roommate : q # r => ser'[q] = ser[q]
          /\ UNCHANGED <<by, misorderedReplies, nextReply, forceReplySn, reply>>
      BY <1>1, <1>8 DEF LpTake, Move, replyVars
    <2> QED
      BY <1>1, <1>2, <2>1 DEF Brings
  <1>9. ASSUME NEW r \in Roommate, LpAnswers(r) PROVE ReplySerials'
    <2>1. /\ at[r] = "wait" /\ at' = [at EXCEPT ![r] = "got"]
          /\ ser' = [ser EXCEPT ![r] = reply.ser]
          /\ by' = [by EXCEPT ![r] = IF reply.body = NoChunk THEN <<>> ELSE <<reply.body>>]
          /\ reply' = [ser |-> NoSerial, body |-> NoChunk]
          /\ UNCHANGED <<misorderedReplies, nextReply, forceReplySn>>
      BY <1>9 DEF LpAnswers, Move, replyVars
    <2>2. Given' = Given
      BY <2>1 DEF Given, SerialOf
    <2>3. /\ by'[r] # <<>> => reply.body # NoChunk
          /\ ser'[r] = reply.ser /\ reply'.body = NoChunk
          /\ \A q \in Roommate : q # r => /\ by'[q] = by[q] /\ ser'[q] = ser[q]
                                          /\ at'[q] = at[q]
      BY <1>1, <2>1
    <2>4. Brings(r)' => reply.body # NoChunk
      BY <2>3 DEF Brings
    <2>5. \A q \in Roommate : q # r => (Brings(q)' <=> Brings(q))
      BY <2>3 DEF Brings
    <2> QED
      BY <2>1, <2>2, <2>3, <2>4, <2>5 DEF ReplySerials
  <1>10. CASE LpToDown \/ LpDropsWork \/ LpQuits \/ StopAll \/ StopNext
    BY <1>3, <1>10 DEF LpToDown, LpDropsWork, LpQuits, StopAll, StopNext, roomVars,
       replyVars, lpVars
  <1>11. ASSUME NEW b \in Boundary, GenTimerFires(b) \/ BoundaryQuits(b)
         PROVE  ReplySerials'
    BY <1>3, <1>11 DEF GenTimerFires, BoundaryQuits, roomVars, replyVars, lpVars
  <1>12. CASE UNCHANGED microVars
    BY <1>3, <1>12 DEF microVars, roomVars, replyVars, lpVars
  <1> QED
    BY <1>4, <1>5, <1>6, <1>7, <1>8, <1>9, <1>10, <1>11, <1>12 DEF MicroNext, LpStep
-----------------------------------------------------------------------------
(***************************************************************************)
(* The numbers of requests.                                                *)
(***************************************************************************)

Posts(r) == at[r] = "request" /\ ser[r] # NoSerial

\* What has been taken in order, what is stored and what is still with a
\* roommate have different numbers, all of them given.
ReqSerials ==
  /\ lastReq < nextSend
  /\ \A r \in Roommate : Posts(r) =>
       /\ lastReq < ser[r] /\ ser[r] < nextSend /\ ser[r] \notin DOMAIN misorderedReqs
       /\ \A q \in Roommate : Posts(q) /\ q # r => ser[q] # ser[r]
  /\ \A n \in DOMAIN misorderedReqs : lastReq < n /\ n < nextSend

DownTyped ==
  /\ lastReq \in Nat
  /\ \A n \in DOMAIN misorderedReqs : n \in Nat /\ misorderedReqs[n] \in Nat
  /\ writeMe \in Seq(Nat)
  /\ absorbed \in [Boundary -> Seq(Nat)]

\* A run of stored requests without a gap has an end, and LastFollowing is one.
LEMMA LastFollowingIs ==
  ASSUME NEW n \in Nat, NEW top \in Nat,
         \A k \in DOMAIN misorderedReqs : k \in n..top
  PROVE  /\ LastFollowing(n) \in {n} \cup DOMAIN misorderedReqs
         /\ (n + 1)..LastFollowing(n) \subseteq DOMAIN misorderedReqs
         /\ LastFollowing(n) + 1 \notin DOMAIN misorderedReqs
  <1> DEFINE Free == {k \in Nat : k > n /\ k \notin DOMAIN misorderedReqs}
             Ends(m) == /\ (n + 1)..m \subseteq DOMAIN misorderedReqs
                        /\ m + 1 \notin DOMAIN misorderedReqs
  <1>1. Free \subseteq Nat /\ Free # {}
    <2>1. n + top + 1 \in Free
      OBVIOUS
    <2> QED
      BY <2>1
  <1>2. PICK k \in Free : \A j \in Free : ~(<<j, k>> \in OpToRel(<, Nat))
    <2> HIDE DEF Free
    <2> QED
      BY <1>1, NatLessThanWellFounded, WFMin
  <1>3. \A j \in Free : ~(j < k)
    BY <1>2 DEF OpToRel
  <1>4. k - 1 \in {n} \cup DOMAIN misorderedReqs /\ Ends(k - 1)
    <2>1. \A j \in (n + 1)..(k - 1) : j \in DOMAIN misorderedReqs
      BY <1>3
    <2>2. k \in Nat /\ k > n /\ k \notin DOMAIN misorderedReqs
      OBVIOUS
    <2>3. (k - 1) + 1 = k
      BY <2>2
    <2>4. k - 1 = n \/ k - 1 \in (n + 1)..(k - 1)
      BY <2>2
    <2> QED
      BY <2>1, <2>2, <2>3, <2>4
  <1>5. LastFollowing(n) = CHOOSE m \in {n} \cup DOMAIN misorderedReqs : Ends(m)
    BY DEF LastFollowing
  <1>6. \E m \in {n} \cup DOMAIN misorderedReqs : Ends(m)
    BY <1>4
  <1>7. LastFollowing(n) \in {n} \cup DOMAIN misorderedReqs /\ Ends(LastFollowing(n))
    <2> HIDE DEF Ends
    <2> QED
      BY <1>5, <1>6
  <1> QED
    BY <1>7

\* The three cases of LpTake: nothing to take down, the next one together with
\* what was stored behind it, and one that is stored.
LEMMA TakesNothing ==
  ASSUME DownTyped, NEW r \in Roommate, LpTake(r), ser[r] = NoSerial
  PROVE  lp' = "linger" /\ UNCHANGED <<lastReq, misorderedReqs, writeMe>>
  <1>1. ser[r] # lastReq + 1
    BY DEF DownTyped, NoSerial
  <1> QED
    BY <1>1 DEF LpTake

LEMMA TakesNext ==
  ASSUME Typed, NumbersTyped, WorkTyped, DownTyped, ReqSerials,
         NEW r \in Roommate, LpTake(r), ser[r] # NoSerial, ser[r] = lastReq + 1
  PROVE  /\ ser[r] \in Nat /\ lastReq' \in Nat
         /\ ser[r] <= lastReq' /\ lastReq' < nextSend
         /\ lastReq' \in {ser[r]} \cup DOMAIN misorderedReqs
         /\ (ser[r] + 1)..lastReq' \subseteq DOMAIN misorderedReqs
         /\ Following(ser[r]) \in Seq(Nat)
         /\ Len(Following(ser[r])) = lastReq' - ser[r]
         /\ \A i \in 1..(lastReq' - ser[r]) :
              Following(ser[r])[i] = misorderedReqs[ser[r] + i]
         /\ writeMe' = <<work[r]>> \o Following(ser[r])
         /\ misorderedReqs' = [n \in {m \in DOMAIN misorderedReqs :
                                        m > lastReq'} |-> misorderedReqs[n]]
  <1>1. /\ writeMe' = <<work[r]>> \o Following(ser[r])
        /\ lastReq' = LastFollowing(ser[r])
        /\ misorderedReqs' = [n \in {m \in DOMAIN misorderedReqs :
                                       m > lastReq'} |-> misorderedReqs[n]]
    BY DEF LpTake
  <1>2. /\ ser[r] \in Nat /\ nextSend \in Nat /\ lastReq \in Nat
        /\ \A k \in DOMAIN misorderedReqs : k \in ser[r]..nextSend
    <2>1. ser[r] \in Nat /\ nextSend \in Nat /\ lastReq \in Nat
      BY DEF NumbersTyped, DownTyped
    <2>2. \A k \in DOMAIN misorderedReqs : k \in Nat /\ lastReq < k /\ k < nextSend
      BY DEF DownTyped, ReqSerials
    <2> QED
      BY <2>1, <2>2
  <1>3. /\ lastReq' \in {ser[r]} \cup DOMAIN misorderedReqs
        /\ (ser[r] + 1)..lastReq' \subseteq DOMAIN misorderedReqs
    BY <1>1, <1>2, LastFollowingIs
  <1>4. Posts(r)
    BY DEF LpTake, Posts
  <1>5. ser[r] < nextSend
    BY <1>4 DEF ReqSerials
  <1>6. lastReq' \in Nat /\ ser[r] <= lastReq' /\ lastReq' < nextSend
    <2>1. CASE lastReq' = ser[r]
      BY <1>2, <1>5, <2>1
    <2>2. CASE lastReq' \in DOMAIN misorderedReqs
      BY <1>2, <2>2 DEF ReqSerials
    <2> QED
      BY <1>3, <2>1, <2>2
  <1> DEFINE n == lastReq' - ser[r]
  <1>7. n \in Nat /\ \A i \in 1..n : ser[r] + i \in (ser[r] + 1)..lastReq'
    <2>1. \A a, b \in Nat : a <= b =>
            b - a \in Nat /\ \A i \in 1..(b - a) : a + i \in (a + 1)..b
      OBVIOUS
    <2> QED
      BY <1>2, <1>6, <2>1
  <1>8. Following(ser[r]) = [i \in 1..n |-> misorderedReqs[ser[r] + i]]
    BY <1>1 DEF Following
  <1>9. \A i \in 1..n : misorderedReqs[ser[r] + i] \in Nat
    BY <1>3, <1>7 DEF DownTyped
  <1>10. /\ Following(ser[r]) \in Seq(Nat) /\ Len(Following(ser[r])) = n
         /\ \A i \in 1..n : Following(ser[r])[i] = misorderedReqs[ser[r] + i]
    <2> HIDE DEF n
    <2> QED
      BY <1>7, <1>8, <1>9
  <1> QED
    BY <1>1, <1>2, <1>3, <1>6, <1>10

LEMMA TakesLater ==
  ASSUME NEW r \in Roommate, LpTake(r), ser[r] # NoSerial, ser[r] # lastReq + 1
  PROVE  /\ misorderedReqs' =
              [n \in DOMAIN misorderedReqs \cup {ser[r]} |->
                 IF n = ser[r] THEN work[r] ELSE misorderedReqs[n]]
         /\ lp' = "linger" /\ UNCHANGED <<lastReq, writeMe>>
  BY DEF LpTake

LEMMA DownTypedStep ==
  Typed /\ NumbersTyped /\ WorkTyped /\ ReqSerials /\ DownTyped
  /\ [MicroNext]_microVars => DownTyped'
  <1> SUFFICES ASSUME Typed, NumbersTyped, WorkTyped, ReqSerials, DownTyped,
                      [MicroNext]_microVars
               PROVE  DownTyped'
    OBVIOUS
  <1>1. CASE UNCHANGED <<lastReq, misorderedReqs, writeMe, absorbed>>
    BY <1>1 DEF DownTyped
  <1>2. ASSUME NEW b \in Boundary, NEW chunks \in Seq(Nat), Absorbs(b, chunks)
        PROVE  absorbed' \in [Boundary -> Seq(Nat)]
    <2>1. absorbed[b] \o chunks \in Seq(Nat)
      BY <1>2, ConcatProperties DEF DownTyped
    <2>2. absorbed' = [absorbed EXCEPT ![b] = absorbed[b] \o chunks]
      BY <1>2 DEF Absorbs
    <2> HIDE DEF DownTyped
    <2>3. absorbed \in [Boundary -> Seq(Nat)]
      BY DEF DownTyped
    <2> QED
      BY <2>1, <2>2, <2>3
  <1>3. ASSUME NEW r \in Roommate, DeliverUp(r) PROVE DownTyped'
    <2>1. by[r] \in Seq(Nat) /\ "up" \in Boundary
      BY DEF Typed, RoomsTyped, Boundary
    <2>2. Absorbs("up", by[r]) /\ UNCHANGED <<lastReq, misorderedReqs, writeMe>>
      BY <1>3 DEF DeliverUp, lpVars
    <2> QED
      BY <1>2, <2>1, <2>2 DEF DownTyped
  <1>4. CASE LpToDown
    <2>1. Absorbs("dn", writeMe) /\ writeMe' = <<>>
          /\ UNCHANGED <<lastReq, misorderedReqs>>
      BY <1>4 DEF LpToDown
    <2>2. absorbed' \in [Boundary -> Seq(Nat)]
      BY <1>2, <2>1 DEF DownTyped, Boundary
    <2>3. << >> \in Seq(Nat)
      OBVIOUS
    <2> QED
      BY <2>1, <2>2, <2>3 DEF DownTyped
  <1>5. CASE LpDropsWork
    <2>1. << >> \in Seq(Nat)
      OBVIOUS
    <2> QED
      BY <1>5, <2>1 DEF LpDropsWork, DownTyped, endVars
  <1>6. ASSUME NEW r \in Roommate, LpTake(r) PROVE DownTyped'
    <2>1. absorbed' = absorbed
      BY <1>6 DEF LpTake, endVars
    <2>2. ser[r] \in Nat \cup {NoSerial} /\ work[r] \in Nat
      BY DEF NumbersTyped, WorkTyped
    <2>3. CASE ser[r] = NoSerial
      BY <1>1, <1>6, <2>1, <2>3, TakesNothing
    <2>4. CASE ser[r] # NoSerial /\ ser[r] = lastReq + 1
      <3>1. /\ lastReq' \in Nat /\ Following(ser[r]) \in Seq(Nat)
            /\ writeMe' = <<work[r]>> \o Following(ser[r])
            /\ misorderedReqs' = [n \in {m \in DOMAIN misorderedReqs :
                                           m > lastReq'} |-> misorderedReqs[n]]
        BY <1>6, <2>4, TakesNext
      <3>2. <<work[r]>> \in Seq(Nat)
        BY <2>2
      <3>3. writeMe' \in Seq(Nat)
        BY <3>1, <3>2, ConcatProperties
      <3>4. \A n \in DOMAIN misorderedReqs' : n \in Nat /\ misorderedReqs'[n] \in Nat
        BY <3>1 DEF DownTyped
      <3> QED
        BY <2>1, <3>1, <3>3, <3>4 DEF DownTyped
    <2>5. CASE ser[r] # NoSerial /\ ser[r] # lastReq + 1
      <3>1. /\ misorderedReqs' =
                 [n \in DOMAIN misorderedReqs \cup {ser[r]} |->
                    IF n = ser[r] THEN work[r] ELSE misorderedReqs[n]]
            /\ UNCHANGED <<lastReq, writeMe>>
        BY <1>6, <2>5, TakesLater
      <3> QED
        BY <2>1, <2>2, <2>5, <3>1 DEF DownTyped
    <2> QED
      BY <2>3, <2>4, <2>5
  <1> QED
    <2>1. ASSUME NEW r \in Roommate, RoomStep(r) PROVE DownTyped'
      BY <2>1, <1>1, <1>3
      DEF RoomStep, AskHome, TakeIncoming, Generates, NoneIncoming, LeaveHome,
          ComeHome, AddsPresent, AddsNoMore, NumberRequest, AbandonRequest,
          JudgeReply, lpVars, endVars
    <2>2. ASSUME NEW r \in Roommate, RoommateQuits(r) \/ RoommateEnds(r)
          PROVE  DownTyped'
      BY <2>2, <1>1 DEF RoommateQuits, RoommateEnds, lpVars, endVars
    <2>3. ASSUME NEW b \in Boundary, GenTimerFires(b) \/ BoundaryQuits(b)
          PROVE  DownTyped'
      BY <2>3, <1>1 DEF GenTimerFires, BoundaryQuits, lpVars
    <2>4. CASE LpTimeUp \/ LpFromDown \/ LpLingers \/ LpMovesOn \/ LpQuits
      BY <2>4, <1>1 DEF LpTimeUp, LpFromDown, LpLingers, LpMovesOn, LpQuits,
         Generates, endVars
    <2>5. ASSUME NEW r \in Roommate, LpAnswers(r) PROVE DownTyped'
      BY <2>5, <1>1 DEF LpAnswers, endVars
    <2>6. CASE StopAll \/ StopNext \/ UNCHANGED microVars
      BY <2>6, <1>1 DEF StopAll, StopNext, microVars, lpVars, endVars
    <2> QED
      BY <2>1, <2>2, <2>3, <2>4, <2>5, <2>6, <1>4, <1>5, <1>6 DEF MicroNext, LpStep

LEMMA ReqSerialsStep ==
  Typed /\ NumbersTyped /\ WorkTyped /\ DownTyped /\ HandsKnown /\ ReqSerials
  /\ [MicroNext]_microVars => ReqSerials'
  <1> SUFFICES ASSUME Typed, NumbersTyped, WorkTyped, DownTyped, HandsKnown,
                      ReqSerials, [MicroNext]_microVars
               PROVE  ReqSerials'
    OBVIOUS
  <1>1. /\ at \in [Roommate -> Places]
        /\ ser \in [Roommate -> Nat \cup {NoSerial}]
        /\ nextSend \in Nat /\ lastReq \in Nat
    BY DEF Typed, RoomsTyped, NumbersTyped, DownTyped
  \* Nothing is numbered or taken, and nobody comes to post anything.
  <1>2. ASSUME UNCHANGED <<nextSend, lastReq, misorderedReqs>>,
               \A r \in Roommate : Posts(r)' => Posts(r) /\ ser'[r] = ser[r]
        PROVE  ReqSerials'
    BY <1>2 DEF ReqSerials
  <1>3. CASE UNCHANGED <<at, ser, nextSend, lastReq, misorderedReqs>>
    BY <1>2, <1>3 DEF Posts
  <1>4. ASSUME NEW r \in Roommate, RoomStep(r), ~NumberRequest(r) PROVE ReqSerials'
    <2>1. UNCHANGED <<nextSend, lastReq, misorderedReqs>>
      BY <1>4 DEF RoomStep, AskHome, TakeIncoming, NoneIncoming, LeaveHome,
         ComeHome, AddsPresent, AddsNoMore, DeliverUp, JudgeReply,
         AbandonRequest, lpVars, replyVars
    <2>2. \A q \in Roommate : Posts(q)' => Posts(q) /\ ser'[q] = ser[q]
      <3>1. CASE AskHome(r) \/ TakeIncoming(r) \/ NoneIncoming(r) \/ LeaveHome(r)
        BY <1>1, <3>1 DEF AskHome, TakeIncoming, NoneIncoming, LeaveHome, Move, Posts
      <3>2. CASE ComeHome(r)
        <4>1. PICK told \in SUBSET SentOut(r, [o \in Roommate |-> at[o] = "inner"]) :
                at' = [o \in Roommate |->
                         CASE o = r -> IF by[r] = <<>> THEN "top" ELSE "merge"
                           [] o \in told -> "told"
                           [] OTHER -> at[o]]
          BY <3>2 DEF ComeHome
        <4>2. \A q \in Roommate : at'[q] = "request" => at[q] = "request"
          BY <4>1
        <4> QED
          BY <3>2, <4>2 DEF ComeHome, Posts
      <3>3. CASE AddsPresent(r) \/ JudgeReply(r)
        <4>1. /\ at[r] \in {"merge", "got"} /\ at' \in {at, [at EXCEPT ![r] = "arrive"]}
              /\ \A q \in Roommate : q # r => ser'[q] = ser[q]
          BY <1>1, <3>3 DEF AddsPresent, JudgeReply, Move
        <4> QED
          BY <1>1, <4>1 DEF Posts
      <3>4. CASE AddsNoMore(r) \/ DeliverUp(r) \/ AbandonRequest(r)
        BY <1>1, <3>4 DEF AddsNoMore, DeliverUp, AbandonRequest, Move, Posts
      <3> QED
        BY <1>4, <3>1, <3>2, <3>3, <3>4 DEF RoomStep
    <2> QED
      BY <1>2, <2>1, <2>2
  <1>5. ASSUME NEW r \in Roommate, NumberRequest(r) PROVE ReqSerials'
    <2>1. /\ at[r] = "number" /\ at' = [at EXCEPT ![r] = "request"]
          /\ UNCHANGED <<lastReq, misorderedReqs>>
          /\ \/ UNCHANGED <<ser, nextSend>>
             \/ ser' = [ser EXCEPT ![r] = nextSend] /\ nextSend' = nextSend + 1
      BY <1>5 DEF NumberRequest, Move, lpVars
    <2>2. ser[r] = NoSerial
      BY <2>1 DEF HandsKnown
    <2>3. CASE UNCHANGED <<ser, nextSend>>
      BY <1>1, <1>2, <2>1, <2>2, <2>3 DEF Posts
    <2>4. CASE ser' = [ser EXCEPT ![r] = nextSend] /\ nextSend' = nextSend + 1
      <3>1. \A q \in Roommate : q # r => ser'[q] = ser[q] /\ at'[q] = at[q]
        BY <1>1, <2>1, <2>4
      <3>2. \A q \in Roommate : q # r => (Posts(q)' <=> Posts(q))
        BY <3>1 DEF Posts
      <3>3. \A q \in Roommate : Posts(q) => ser[q] \in Nat
        BY <1>1 DEF Posts
      <3>4. ser'[r] = nextSend
        BY <1>1, <2>4
      <3>5. \A n \in DOMAIN misorderedReqs : n \in Nat
        BY DEF DownTyped
      <3>6. \A q \in Roommate : Posts(q)' =>
              /\ lastReq < ser'[q] /\ ser'[q] < nextSend + 1
              /\ ser'[q] \notin DOMAIN misorderedReqs
              /\ q # r => ser'[q] < nextSend
        BY <1>1, <3>1, <3>2, <3>3, <3>4, <3>5 DEF ReqSerials
      <3>7. \A q, o \in Roommate : Posts(q)' /\ Posts(o)' /\ q # o => ser'[q] # ser'[o]
        BY <1>1, <3>1, <3>2, <3>4, <3>6 DEF ReqSerials
      <3>8. \A n \in DOMAIN misorderedReqs : lastReq < n /\ n < nextSend + 1
        BY <1>1, <3>5 DEF ReqSerials
      <3> HIDE DEF ReqSerials
      <3>9. lastReq < nextSend + 1
        BY <1>1 DEF ReqSerials
      <3> QED
        BY <2>1, <2>4, <3>6, <3>7, <3>8, <3>9 DEF ReqSerials
    <2> QED
      BY <2>1, <2>3, <2>4
  <1>6. ASSUME NEW r \in Roommate, RoommateQuits(r) \/ RoommateEnds(r)
        PROVE  ReqSerials'
    <2>1. /\ at' = [at EXCEPT ![r] = "done"]
          /\ UNCHANGED <<ser, nextSend, lastReq, misorderedReqs>>
      BY <1>1, <1>6 DEF RoommateQuits, RoommateEnds, Move, lpVars, replyVars
    <2> QED
      BY <1>1, <1>2, <2>1 DEF Posts
  <1>7. CASE LpTimeUp \/ LpFromDown \/ LpLingers \/ LpMovesOn \/ LpToDown
             \/ LpDropsWork \/ LpQuits
    BY <1>3, <1>7 DEF LpTimeUp, LpFromDown, LpLingers, LpMovesOn, LpToDown,
       LpDropsWork, LpQuits, roomVars, replyVars
  <1>8. ASSUME NEW r \in Roommate, LpTake(r) PROVE ReqSerials'
    <2>1. /\ at[r] = "request" /\ at' = [at EXCEPT ![r] = "wait"]
          /\ ser' = [ser EXCEPT ![r] = NoSerial]
          /\ nextSend' = nextSend
      BY <1>8 DEF LpTake, Move, replyVars
    <2>2. \A q \in Roommate : Posts(q)' => Posts(q) /\ q # r /\ ser'[q] = ser[q]
      BY <1>1, <2>1 DEF Posts
    <2>3. CASE ser[r] = NoSerial
      BY <1>2, <1>8, <2>1, <2>2, <2>3, TakesNothing
    <2>4. CASE ser[r] # NoSerial /\ ser[r] = lastReq + 1
      <3>1. /\ lastReq' \in Nat /\ ser[r] <= lastReq' /\ lastReq' < nextSend
            /\ (ser[r] + 1)..lastReq' \subseteq DOMAIN misorderedReqs
            /\ misorderedReqs' = [n \in {m \in DOMAIN misorderedReqs :
                                           m > lastReq'} |-> misorderedReqs[n]]
        BY <1>8, <2>4, TakesNext
      <3>2. Posts(r) /\ ser[r] \in Nat
        BY <1>1, <2>1, <2>4 DEF Posts
      <3>3. \A q \in Roommate : Posts(q)' => lastReq' < ser[q]
        <4> SUFFICES ASSUME NEW q \in Roommate, Posts(q)' PROVE lastReq' < ser[q]
          OBVIOUS
        <4>1. /\ Posts(q) /\ q # r /\ ser[q] \in Nat
              /\ lastReq < ser[q] /\ ser[q] # ser[r]
              /\ ser[q] \notin DOMAIN misorderedReqs
          BY <1>1, <2>2, <3>2 DEF ReqSerials, Posts
        <4>2. ser[q] \notin (ser[r] + 1)..lastReq'
          BY <3>1, <4>1
        <4> QED
          BY <1>1, <2>4, <3>1, <3>2, <4>1, <4>2
      <3>4. DOMAIN misorderedReqs' \subseteq DOMAIN misorderedReqs
            /\ \A n \in DOMAIN misorderedReqs' : lastReq' < n
        BY <1>1, <3>1 DEF DownTyped
      <3> QED
        BY <2>1, <2>2, <3>1, <3>3, <3>4 DEF ReqSerials
    <2>5. CASE ser[r] # NoSerial /\ ser[r] # lastReq + 1
      <3>1. /\ DOMAIN misorderedReqs' = DOMAIN misorderedReqs \cup {ser[r]}
            /\ lastReq' = lastReq
        BY <1>8, <2>5, TakesLater
      <3>2. Posts(r)
        BY <2>1, <2>5 DEF Posts
      <3> QED
        BY <2>1, <2>2, <3>1, <3>2 DEF ReqSerials
    <2> QED
      BY <2>3, <2>4, <2>5
  <1>9. ASSUME NEW r \in Roommate, LpAnswers(r) PROVE ReqSerials'
    <2>1. /\ at' = [at EXCEPT ![r] = "got"]
          /\ ser' = [ser EXCEPT ![r] = reply.ser]
          /\ UNCHANGED <<nextSend, lastReq, misorderedReqs>>
      BY <1>9 DEF LpAnswers, Move, replyVars
    <2>2. \A q \in Roommate : Posts(q)' => Posts(q) /\ ser'[q] = ser[q]
      BY <1>1, <2>1 DEF Posts
    <2> QED
      BY <1>2, <2>1, <2>2
  <1>10. CASE StopAll \/ StopNext
    BY <1>3, <1>10 DEF StopAll, StopNext, roomVars, replyVars, lpVars
  <1>11. ASSUME NEW b \in Boundary, GenTimerFires(b) \/ BoundaryQuits(b)
         PROVE  ReqSerials'
    BY <1>3, <1>11 DEF GenTimerFires, BoundaryQuits, roomVars, replyVars, lpVars
  <1>12. CASE UNCHANGED microVars
    BY <1>3, <1>12 DEF microVars, roomVars, replyVars, lpVars
  <1> QED
    BY <1>4, <1>5, <1>6, <1>7, <1>8, <1>9, <1>10, <1>11, <1>12 DEF MicroNext, LpStep
-----------------------------------------------------------------------------
(***************************************************************************)
(* The places of one chunk before and after a step.                        *)
(***************************************************************************)

AtMostOne(S) == \A p, q \in S : p = q

\* From the places S to the places T a step repeats no chunk; nor loses it.
NoneMade(S, T) == (AtMostOne(S) => AtMostOne(T)) /\ (T # {} => S # {})

Preserved(S, T) == NoneMade(S, T) /\ (S # {} => T # {})

LEMMA SamePlaces == ASSUME NEW S PROVE Preserved(S, S)
  BY DEF Preserved, NoneMade

LEMMA Lost == ASSUME NEW S, NEW T, T \subseteq S PROVE NoneMade(S, T)
  BY DEF NoneMade, AtMostOne

\* One chunk moves from old to new, if it is at old at all.
LEMMA Moved ==
  ASSUME NEW S, NEW T, NEW old, NEW new,
         \A p \in T : (p \in S /\ p # old) \/ (p = new /\ old \in S),
         \A p \in S : p \in T \/ new \in T
  PROVE  Preserved(S, T)
  BY DEF Preserved, NoneMade, AtMostOne

\* Several move at once, no two of them to the same place.
LEMMA Mapped ==
  ASSUME NEW S, NEW T, NEW f \in [T -> S],
         \A p, q \in T : f[p] = f[q] => p = q,
         S # {} => T # {}
  PROVE  Preserved(S, T)
  BY DEF Preserved, NoneMade, AtMostOne

AbsorbedAt(b, c) ==
  {<<"absorbed", i>> : i \in {j \in DOMAIN absorbed[b] : absorbed[b][j] = c}}

\* What a boundary absorbs goes from the places <<a, i>> to behind what it has
\* absorbed before.
LEMMA AbsorbsMoves ==
  ASSUME DownTyped, NEW b \in Boundary, NEW chunks \in Seq(Nat),
         Absorbs(b, chunks), NEW c, NEW a, a # "absorbed", NEW Rest,
         \A i : <<a, i>> \notin Rest
  PROVE  Preserved(
           AbsorbedAt(b, c) \cup Rest
             \cup {<<a, i>> : i \in {j \in DOMAIN chunks : chunks[j] = c}},
           AbsorbedAt(b, c)' \cup Rest)
  <1> DEFINE L == Len(absorbed[b])
             J == {j \in DOMAIN chunks : chunks[j] = c}
             H == {<<a, i>> : i \in J}
             M == {<<"absorbed", L + i>> : i \in J}
             X == AbsorbedAt(b, c) \cup Rest
             f == [p \in X \cup M |->
                     IF p \in X THEN p ELSE <<a, p[2] - L>>]
  <1>1. absorbed[b] \in Seq(Nat) /\ absorbed'[b] = absorbed[b] \o chunks
    BY DEF Absorbs, DownTyped
  <1>2. /\ L \in Nat /\ J \subseteq Nat \ {0}
        /\ DOMAIN absorbed[b] = 1..L
        /\ DOMAIN absorbed'[b] = 1..(L + Len(chunks))
        /\ Len(chunks) \in Nat /\ DOMAIN chunks = 1..Len(chunks)
    BY <1>1, ConcatProperties
  <1>3. /\ \A i \in 1..L : absorbed'[b][i] = absorbed[b][i]
        /\ \A i \in 1..Len(chunks) : absorbed'[b][L + i] = chunks[i]
    BY <1>1, <1>2, ConcatProperties
  <1>4. AbsorbedAt(b, c)' = AbsorbedAt(b, c) \cup M
    <2>1. AbsorbedAt(b, c)' \subseteq AbsorbedAt(b, c) \cup M
      <3> SUFFICES ASSUME NEW i \in DOMAIN absorbed'[b], absorbed'[b][i] = c
                   PROVE  <<"absorbed", i>> \in AbsorbedAt(b, c) \cup M
        BY DEF AbsorbedAt
      <3>1. CASE i <= L
        <4>1. i \in DOMAIN absorbed[b] /\ absorbed[b][i] = c
          BY <1>2, <1>3, <3>1
        <4> QED
          BY <4>1 DEF AbsorbedAt
      <3>2. CASE i > L
        <4>1. i - L \in 1..Len(chunks) /\ i = L + (i - L)
          BY <1>2, <3>2
        <4>2. i - L \in J
          BY <1>2, <1>3, <4>1
        <4> QED
          BY <4>1, <4>2
      <3> QED
        BY <1>2, <3>1, <3>2
    <2>2. AbsorbedAt(b, c) \subseteq AbsorbedAt(b, c)'
      <3> SUFFICES ASSUME NEW i \in DOMAIN absorbed[b], absorbed[b][i] = c
                   PROVE  i \in DOMAIN absorbed'[b] /\ absorbed'[b][i] = c
        BY DEF AbsorbedAt
      <3> QED
        BY <1>2, <1>3
    <2>3. M \subseteq AbsorbedAt(b, c)'
      <3> SUFFICES ASSUME NEW i \in J
                   PROVE  L + i \in DOMAIN absorbed'[b] /\ absorbed'[b][L + i] = c
        BY DEF AbsorbedAt
      <3> QED
        BY <1>2, <1>3
    <2> QED
      BY <2>1, <2>2, <2>3
  <1>5. \A i : <<a, i>> \notin X
    BY DEF AbsorbedAt
  <1>6. ASSUME NEW p \in M PROVE p[2] - L \in J /\ p = <<"absorbed", L + (p[2] - L)>>
    <2>1. PICK i \in J : p = <<"absorbed", L + i>>
      OBVIOUS
    <2>2. p[2] = L + i /\ i \in Nat
      BY <1>2, <2>1
    <2> HIDE DEF J, M
    <2>3. p[2] - L = i
      BY <1>2, <2>2
    <2> QED
      BY <2>1, <2>3
  <1>7. f \in [X \cup M -> X \cup H]
    BY <1>6
  <1>8. \A p, q \in X \cup M : f[p] = f[q] => p = q
    <2> HIDE DEF X, M, J, L
    <2> SUFFICES ASSUME NEW p \in X \cup M, NEW q \in X \cup M, f[p] = f[q]
                 PROVE  p = q
      OBVIOUS
    <2>1. CASE p \in X /\ q \in X
      BY <2>1
    <2>2. CASE p \notin X /\ q \in X
      BY <1>5, <2>2
    <2>3. CASE p \in X /\ q \notin X
      BY <1>5, <2>3
    <2>4. CASE p \notin X /\ q \notin X
      <3>1. p[2] - L = q[2] - L
        BY <2>4
      <3> QED
        BY <1>6, <2>4, <3>1
    <2> QED
      BY <2>1, <2>2, <2>3, <2>4
  <1>9. X \cup H # {} => X \cup M # {}
    OBVIOUS
  <1>10. Preserved(X \cup H, X \cup M)
    <2> HIDE DEF X, H, M, f
    <2> QED
      BY <1>7, <1>8, <1>9, Mapped
  <1>11. AbsorbedAt(b, c)' \cup Rest = X \cup M
    BY <1>4
  <1> QED
    BY <1>10, <1>11
-----------------------------------------------------------------------------
(***************************************************************************)
(* Up.                                                                     *)
(***************************************************************************)

HandOf(r, c) == {<<r, i>> : i \in {j \in DOMAIN by[r] : by[r][j] = c}}

KeptUp(c) ==
  {<<"kept", n>> : n \in {m \in DOMAIN misorderedReplies : misorderedReplies[m] = c}}

Answering(c) == {<<"reply", n>> : n \in {m \in {reply.ser} : reply.body = c}}

\* A chunk from downstream is at one place, which a running tunnel has for
\* every chunk generated and none for one that is not.
UpOnce ==
  \A c \in Nat \ {0} :
    /\ AtMostOne(OnItsWayUp(c))
    /\ OnItsWayUp(c) # {} => c <= generated["dn"]
    /\ TunnelRuns /\ c <= generated["dn"] => OnItsWayUp(c) # {}

UpPlacesKnown ==
  \A c : \A r \in Roommate :
    OnItsWayUp(c) = AbsorbedAt("up", c) \cup (HandOf(r, c) \cup HandOf(Other(r), c))
                      \cup KeptUp(c) \cup Answering(c)

LEMMA UpPlaces == UpPlacesKnown
  <1> SUFFICES ASSUME NEW c, NEW r \in Roommate
               PROVE  UNION {HandOf(q, c) : q \in Roommate}
                        = HandOf(r, c) \cup HandOf(Other(r), c)
    BY DEF UpPlacesKnown, OnItsWayUp, AbsorbedAt, HandOf, KeptUp, Answering
  <1>1. \A q : q \in Roommate <=> q = r \/ q = Other(r)
    BY DEF Roommate, Other
  <1> QED
    BY <1>1

LEMMA UpPlacesAfter == UpPlacesKnown'
  BY UpPlaces, PTL

LEMMA UpKept ==
  ASSUME UpOnce, generated'["dn"] = generated["dn"], TunnelRuns' => TunnelRuns,
         \A c \in Nat \ {0} :
           \/ Preserved(OnItsWayUp(c), OnItsWayUp(c)')
           \/ ~TunnelRuns' /\ NoneMade(OnItsWayUp(c), OnItsWayUp(c)')
  PROVE  UpOnce'
  BY DEF UpOnce, Preserved, NoneMade

LEMMA UpSame ==
  ASSUME UpOnce, generated'["dn"] = generated["dn"], TunnelRuns' => TunnelRuns,
         absorbed'["up"] = absorbed["up"], UNCHANGED <<by, misorderedReplies>>,
         reply' = reply \/ (reply.body = NoChunk /\ reply'.body = NoChunk)
  PROVE  UpOnce'
  <1> SUFFICES ASSUME NEW c \in Nat \ {0} PROVE OnItsWayUp(c)' = OnItsWayUp(c)
    BY SamePlaces, UpKept
  <1>1. "alpha" \in Roommate
    BY DEF Roommate
  <1>2. Answering(c)' = Answering(c)
    BY DEF Answering, NoChunk
  <1>3. /\ AbsorbedAt("up", c)' = AbsorbedAt("up", c)
        /\ \A r \in Roommate : HandOf(r, c)' = HandOf(r, c)
        /\ KeptUp(c)' = KeptUp(c)
    BY DEF AbsorbedAt, HandOf, KeptUp
  <1>4. Other("alpha") \in Roommate
    BY DEF Roommate, Other
  <1> QED
    BY <1>1, <1>2, <1>3, <1>4, UpPlaces, UpPlacesAfter DEF UpPlacesKnown

LEMMA RoommatesNamed ==
  \A r \in Roommate : /\ Other(r) \in Roommate /\ Other(r) # r
                      /\ r \notin {"absorbed", "kept", "reply", "write"}
  BY DEF Roommate, Other

\* The stored reply goes behind those that the roommate has already.
LEMMA UpAdds ==
  ASSUME Typed, NEW r \in Roommate, AddsPresent(r), NEW c \in Nat \ {0}
  PROVE  Preserved(OnItsWayUp(c), OnItsWayUp(c)')
  <1> DEFINE n == ser[r] + 1
             old == <<"kept", n>>
             new == <<r, Len(by[r]) + 1>>
             o == Other(r)
  <1>1. /\ n \in DOMAIN misorderedReplies
        /\ by' = [by EXCEPT ![r] = Append(by[r], misorderedReplies[n])]
        /\ misorderedReplies' = Taken(n)
        /\ UNCHANGED <<reply, absorbed>>
    BY DEF AddsPresent, lpVars, endVars
  <1>2. by \in [Roommate -> Seq(Nat)] /\ misorderedReplies[n] \in Nat
    BY <1>1 DEF Typed, RoomsTyped, ChunksTyped
  <1>3. by'[r] = Append(by[r], misorderedReplies[n]) /\ by'[o] = by[o]
    BY <1>1, <1>2, RoommatesNamed
  <1>4. /\ AbsorbedAt("up", c)' = AbsorbedAt("up", c)
        /\ Answering(c)' = Answering(c)
        /\ HandOf(o, c)' = HandOf(o, c)
    BY <1>1, <1>3 DEF AbsorbedAt, Answering, HandOf
  <1>5. KeptUp(c)' = KeptUp(c) \ {old}
    <2>1. {m \in DOMAIN misorderedReplies' : misorderedReplies'[m] = c}
            = {m \in DOMAIN misorderedReplies : misorderedReplies[m] = c} \ {n}
      <3> HIDE DEF n
      <3> QED
        BY <1>1 DEF Taken
    <2>2. \A m : <<"kept", m>> = old => m = n
      OBVIOUS
    <2> HIDE DEF n
    <2> QED
      BY <2>1, <2>2 DEF KeptUp
  <1>6. old \in KeptUp(c) <=> misorderedReplies[n] = c
    BY <1>1 DEF KeptUp
  <1>7. HandOf(r, c)' = HandOf(r, c) \cup {p \in {new} : misorderedReplies[n] = c}
    <2>1. /\ DOMAIN by'[r] = DOMAIN by[r] \cup {Len(by[r]) + 1}
          /\ \A i \in DOMAIN by[r] : by'[r][i] = by[r][i]
          /\ by'[r][Len(by[r]) + 1] = misorderedReplies[n]
          /\ Len(by[r]) + 1 \notin DOMAIN by[r]
      <3>1. by[r] \in Seq(Nat)
        BY <1>2
      <3> HIDE DEF n
      <3> QED
        BY <1>2, <1>3, <3>1, AppendProperties
    <2>2. {j \in DOMAIN by'[r] : by'[r][j] = c}
            = {j \in DOMAIN by[r] : by[r][j] = c}
                \cup {j \in {Len(by[r]) + 1} : misorderedReplies[n] = c}
      <3> HIDE DEF n
      <3> QED
        BY <2>1
    <2> HIDE DEF n
    <2> QED
      BY <2>2 DEF HandOf
  <1>8. /\ old \notin AbsorbedAt("up", c) \cup Answering(c)
        /\ old \notin HandOf(r, c) \cup HandOf(o, c) /\ old # new
    BY RoommatesNamed DEF AbsorbedAt, Answering, HandOf
  <1>9. /\ OnItsWayUp(c) = AbsorbedAt("up", c) \cup (HandOf(r, c) \cup HandOf(o, c))
                             \cup KeptUp(c) \cup Answering(c)
        /\ OnItsWayUp(c)' = AbsorbedAt("up", c)' \cup (HandOf(r, c)' \cup HandOf(o, c)')
                              \cup KeptUp(c)' \cup Answering(c)'
    BY UpPlaces, UpPlacesAfter DEF UpPlacesKnown
  <1> HIDE DEF old, new, o, n
  <1>10. /\ \A p \in OnItsWayUp(c)' :
              (p \in OnItsWayUp(c) /\ p # old) \/ (p = new /\ old \in OnItsWayUp(c))
         /\ \A p \in OnItsWayUp(c) : p \in OnItsWayUp(c)' \/ new \in OnItsWayUp(c)'
    BY <1>4, <1>5, <1>6, <1>7, <1>8, <1>9
  <1> QED
    BY <1>10, Moved

LEMMA UpDelivers ==
  ASSUME Typed, DownTyped, NEW r \in Roommate, DeliverUp(r), NEW c \in Nat \ {0}
  PROVE  Preserved(OnItsWayUp(c), OnItsWayUp(c)')
  <1> DEFINE o == Other(r)
             Rest == HandOf(o, c) \cup KeptUp(c) \cup Answering(c)
  <1>1. /\ Absorbs("up", by[r]) /\ by' = [by EXCEPT ![r] = <<>>]
        /\ UNCHANGED <<reply, misorderedReplies>>
    BY DEF DeliverUp, lpVars, replyVars
  <1>2. by \in [Roommate -> Seq(Nat)] /\ by[r] \in Seq(Nat) /\ "up" \in Boundary
    BY DEF Typed, RoomsTyped, Boundary
  <1>3. by'[r] = << >> /\ by'[o] = by[o]
    BY <1>1, <1>2, RoommatesNamed
  <1>4. /\ KeptUp(c)' = KeptUp(c) /\ Answering(c)' = Answering(c)
        /\ HandOf(o, c)' = HandOf(o, c)
    BY <1>1, <1>3 DEF KeptUp, Answering, HandOf
  <1>5. HandOf(r, c)' = {}
    BY <1>3 DEF HandOf
  <1>6. \A i : <<r, i>> \notin Rest
    BY RoommatesNamed DEF HandOf, KeptUp, Answering
  <1> HIDE DEF o, Rest
  <1>7. Preserved(
          AbsorbedAt("up", c) \cup Rest
            \cup {<<r, i>> : i \in {j \in DOMAIN by[r] : by[r][j] = c}},
          AbsorbedAt("up", c)' \cup Rest)
    BY <1>1, <1>2, <1>6, RoommatesNamed, AbsorbsMoves
  <1>8. OnItsWayUp(c) = AbsorbedAt("up", c) \cup Rest
            \cup {<<r, i>> : i \in {j \in DOMAIN by[r] : by[r][j] = c}}
    BY UpPlaces DEF UpPlacesKnown, HandOf, Rest, o
  <1>9. OnItsWayUp(c)' = AbsorbedAt("up", c)' \cup Rest
    BY <1>4, <1>5, UpPlacesAfter DEF UpPlacesKnown, Rest, o
  <1> QED
    BY <1>7, <1>8, <1>9

\* back stays in hand, or is stored at a number where nothing is.
LEMMA UpJudges ==
  ASSUME Typed, NumbersTyped, HandsKnown, ReplySerials,
         NEW r \in Roommate, JudgeReply(r), NEW c \in Nat \ {0}
  PROVE  Preserved(OnItsWayUp(c), OnItsWayUp(c)')
  <1> DEFINE o == Other(r)
             old == <<r, 1>>
             new == <<"kept", ser[r]>>
  <1>1. at[r] = "got" /\ UNCHANGED <<reply, absorbed>>
    BY DEF JudgeReply, lpVars, endVars
  <1>2. by \in [Roommate -> Seq(Nat)] /\ Len(by[r]) <= 1
    BY <1>1 DEF Typed, RoomsTyped, HandsKnown
  <1>3. /\ AbsorbedAt("up", c)' = AbsorbedAt("up", c)
        /\ Answering(c)' = Answering(c)
    BY <1>1 DEF AbsorbedAt, Answering
  <1>4. /\ OnItsWayUp(c) = AbsorbedAt("up", c) \cup (HandOf(r, c) \cup HandOf(o, c))
                             \cup KeptUp(c) \cup Answering(c)
        /\ OnItsWayUp(c)' = AbsorbedAt("up", c)' \cup (HandOf(r, c)' \cup HandOf(o, c)')
                              \cup KeptUp(c)' \cup Answering(c)'
    BY UpPlaces, UpPlacesAfter DEF UpPlacesKnown
  <1>5. CASE UNCHANGED <<by, misorderedReplies>>
    <2>1. OnItsWayUp(c)' = OnItsWayUp(c)
      BY <1>3, <1>4, <1>5 DEF HandOf, KeptUp
    <2> QED
      BY <2>1, SamePlaces
  <1>6. CASE /\ by[r] # <<>> /\ by' = [by EXCEPT ![r] = <<>>]
             /\ misorderedReplies' =
                  [n \in DOMAIN misorderedReplies \cup {ser[r]} |->
                     IF n = ser[r] THEN by[r][1] ELSE misorderedReplies[n]]
    <2>1. Brings(r)
      BY <1>1, <1>6 DEF Brings
    <2>2. ser[r] \notin DOMAIN misorderedReplies
      BY <2>1 DEF ReplySerials
    <2>3. by'[r] = << >> /\ by'[o] = by[o]
      BY <1>2, <1>6, RoommatesNamed
    <2>4. HandOf(r, c)' = {} /\ HandOf(o, c)' = HandOf(o, c)
      BY <2>3 DEF HandOf
    <2>5. HandOf(r, c) = {p \in {old} : by[r][1] = c}
      <3>1. DOMAIN by[r] = {1}
        BY <1>2, <1>6
      <3> QED
        BY <3>1 DEF HandOf
    <2>6. KeptUp(c)' = KeptUp(c) \cup {p \in {new} : by[r][1] = c}
      <3>1. {m \in DOMAIN misorderedReplies' : misorderedReplies'[m] = c}
              = {m \in DOMAIN misorderedReplies : misorderedReplies[m] = c}
                  \cup {m \in {ser[r]} : by[r][1] = c}
        BY <1>6, <2>2
      <3> QED
        BY <3>1 DEF KeptUp
    <2>7. /\ old \notin AbsorbedAt("up", c) \cup Answering(c)
          /\ old \notin KeptUp(c) \cup HandOf(o, c)
      BY RoommatesNamed DEF AbsorbedAt, Answering, HandOf, KeptUp
    <2> HIDE DEF old, new, o
    <2>8. /\ \A p \in OnItsWayUp(c)' :
               (p \in OnItsWayUp(c) /\ p # old) \/ (p = new /\ old \in OnItsWayUp(c))
          /\ \A p \in OnItsWayUp(c) : p \in OnItsWayUp(c)' \/ new \in OnItsWayUp(c)'
      BY <1>3, <1>4, <2>4, <2>5, <2>6, <2>7
    <2> QED
      BY <2>8, Moved
  <1> QED
    BY <1>5, <1>6 DEF JudgeReply

\* The answer reaches a roommate whose hands are empty.
LEMMA UpAnswers ==
  ASSUME Typed, NumbersTyped, HandsKnown,
         NEW r \in Roommate, LpAnswers(r), NEW c \in Nat \ {0}
  PROVE  Preserved(OnItsWayUp(c), OnItsWayUp(c)')
  <1> DEFINE o == Other(r)
             old == <<"reply", reply.ser>>
             new == <<r, 1>>
  <1>1. /\ at[r] = "wait" /\ UNCHANGED <<absorbed, misorderedReplies>>
        /\ by' = [by EXCEPT ![r] = IF reply.body = NoChunk THEN <<>> ELSE <<reply.body>>]
        /\ reply' = [ser |-> NoSerial, body |-> NoChunk]
    BY DEF LpAnswers, endVars, replyVars
  <1>2. by \in [Roommate -> Seq(Nat)] /\ by[r] = << >>
    BY <1>1 DEF Typed, RoomsTyped, HandsKnown
  <1>3. /\ by'[r] = IF reply.body = NoChunk THEN <<>> ELSE <<reply.body>>
        /\ by'[o] = by[o]
    BY <1>1, <1>2, RoommatesNamed
  <1>4. /\ AbsorbedAt("up", c)' = AbsorbedAt("up", c)
        /\ KeptUp(c)' = KeptUp(c) /\ HandOf(o, c)' = HandOf(o, c)
    BY <1>1, <1>3 DEF AbsorbedAt, KeptUp, HandOf
  <1>5. HandOf(r, c) = {} /\ Answering(c)' = {}
    BY <1>1, <1>2 DEF HandOf, Answering, NoChunk
  <1>6. Answering(c) = {p \in {old} : reply.body = c}
    BY DEF Answering
  <1>7. HandOf(r, c)' = {p \in {new} : reply.body = c}
    <2>1. CASE reply.body = NoChunk
      <3>1. by'[r] = << >>
        BY <1>3, <2>1
      <3> QED
        BY <2>1, <3>1 DEF HandOf, NoChunk
    <2>2. CASE reply.body # NoChunk
      <3>1. by'[r] = <<reply.body>>
        BY <1>3, <2>2
      <3>2. {j \in DOMAIN by'[r] : by'[r][j] = c} = {j \in {1} : reply.body = c}
        BY <3>1
      <3> QED
        BY <3>2 DEF HandOf
    <2> QED
      BY <2>1, <2>2
  <1>8. /\ old \notin AbsorbedAt("up", c) \cup KeptUp(c) \cup HandOf(o, c)
        /\ old # new
    BY RoommatesNamed DEF AbsorbedAt, HandOf, KeptUp
  <1>9. /\ OnItsWayUp(c) = AbsorbedAt("up", c) \cup (HandOf(r, c) \cup HandOf(o, c))
                             \cup KeptUp(c) \cup Answering(c)
        /\ OnItsWayUp(c)' = AbsorbedAt("up", c)' \cup (HandOf(r, c)' \cup HandOf(o, c)')
                              \cup KeptUp(c)' \cup Answering(c)'
    BY UpPlaces, UpPlacesAfter DEF UpPlacesKnown
  <1> HIDE DEF old, new, o
  <1>10. /\ \A p \in OnItsWayUp(c)' :
              (p \in OnItsWayUp(c) /\ p # old) \/ (p = new /\ old \in OnItsWayUp(c))
         /\ \A p \in OnItsWayUp(c) : p \in OnItsWayUp(c)' \/ new \in OnItsWayUp(c)'
    BY <1>4, <1>5, <1>6, <1>7, <1>8, <1>9
  <1> QED
    BY <1>10, Moved

\* A roommate that stops drops what it has in hand.
LEMMA UpQuits ==
  ASSUME Typed, NEW r \in Roommate, RoommateQuits(r), NEW c \in Nat \ {0}
  PROVE  NoneMade(OnItsWayUp(c), OnItsWayUp(c)')
  <1>1. /\ by' = [by EXCEPT ![r] = <<>>]
        /\ UNCHANGED <<reply, misorderedReplies, absorbed>>
    BY DEF RoommateQuits, lpVars, replyVars, endVars
  <1>2. by'[r] = << >> /\ by'[Other(r)] = by[Other(r)]
    BY <1>1, RoommatesNamed DEF Typed, RoomsTyped
  <1>3. /\ AbsorbedAt("up", c)' = AbsorbedAt("up", c)
        /\ KeptUp(c)' = KeptUp(c) /\ Answering(c)' = Answering(c)
        /\ HandOf(Other(r), c)' = HandOf(Other(r), c) /\ HandOf(r, c)' = {}
    BY <1>1, <1>2 DEF AbsorbedAt, KeptUp, Answering, HandOf
  <1>4. OnItsWayUp(c)' \subseteq OnItsWayUp(c)
    BY <1>3, UpPlaces, UpPlacesAfter DEF UpPlacesKnown
  <1> QED
    BY <1>4, Lost

\* A chunk that downstream generates is nowhere yet, and then with the answer
\* that LittlePoll sends.
LEMMA UpGenerates ==
  ASSUME Typed, UpOnce, reply.body = NoChunk, TunnelRuns' => TunnelRuns,
         Generates("dn"), StartReply(waiting, Generated("dn")),
         UNCHANGED <<by, misorderedReplies>>
  PROVE  UpOnce'
  <1> DEFINE new == generated["dn"] + 1
  <1>1. /\ generated' = [generated EXCEPT !["dn"] = @ + 1]
        /\ absorbed' = absorbed /\ reply'.body = new
    BY DEF Generates, Generated, StartReply
  <1>2. generated["dn"] \in Nat /\ generated'["dn"] = new
    BY <1>1 DEF Typed, ChunksTyped, Boundary
  <1> SUFFICES ASSUME NEW c \in Nat \ {0}
               PROVE  /\ AtMostOne(OnItsWayUp(c)')
                      /\ OnItsWayUp(c)' # {} => c <= new
                      /\ TunnelRuns' /\ c <= new => OnItsWayUp(c)' # {}
    BY <1>2 DEF UpOnce
  <1>3. Answering(c) = {} /\ Answering(c)' = {p \in {<<"reply", reply'.ser>>} : c = new}
    BY <1>1 DEF Answering, NoChunk
  <1>4. /\ AbsorbedAt("up", c)' = AbsorbedAt("up", c) /\ KeptUp(c)' = KeptUp(c)
        /\ \A r \in Roommate : HandOf(r, c)' = HandOf(r, c)
    BY <1>1 DEF AbsorbedAt, KeptUp, HandOf
  <1>5. OnItsWayUp(c)' = OnItsWayUp(c) \cup {p \in {<<"reply", reply'.ser>>} : c = new}
    <2>1. "alpha" \in Roommate /\ Other("alpha") \in Roommate
      BY RoommatesNamed DEF Roommate
    <2> HIDE DEF new
    <2> QED
      BY <1>3, <1>4, <2>1, UpPlaces, UpPlacesAfter DEF UpPlacesKnown
  <1>6. /\ AtMostOne(OnItsWayUp(c))
        /\ OnItsWayUp(c) # {} => c <= generated["dn"]
        /\ TunnelRuns /\ c <= generated["dn"] => OnItsWayUp(c) # {}
    BY DEF UpOnce
  <1>7. CASE c = new
    <2>1. OnItsWayUp(c) = {}
      BY <1>2, <1>6, <1>7
    <2>2. OnItsWayUp(c)' = {<<"reply", reply'.ser>>}
      BY <1>5, <1>7, <2>1
    <2>3. AtMostOne({<<"reply", reply'.ser>>})
      BY DEF AtMostOne
    <2>4. AtMostOne(OnItsWayUp(c)') /\ OnItsWayUp(c)' # {}
      BY <2>2, <2>3, Zenon
    <2> QED
      BY <1>2, <1>7, <2>4
  <1>8. CASE c # new
    <2>1. OnItsWayUp(c)' = OnItsWayUp(c)
      BY <1>5, <1>8
    <2> QED
      BY <1>2, <1>6, <1>8, <2>1
  <1> QED
    BY <1>7, <1>8

LEMMA StopsOnlyGrow == [MicroNext]_microVars => (TunnelRuns' => TunnelRuns)
  <1> SUFFICES ASSUME [MicroNext]_microVars PROVE reqStop \subseteq reqStop'
    BY DEF TunnelRuns
  <1>1. CASE UNCHANGED reqStop
    BY <1>1
  <1>2. CASE StopAll \/ StopNext
    BY <1>2 DEF StopAll, StopNext
  <1>3. ASSUME NEW r \in Roommate,
               RoomStep(r) \/ RoommateQuits(r) \/ RoommateEnds(r)
        PROVE  UNCHANGED reqStop
    BY <1>3 DEF RoomStep, AskHome, TakeIncoming, NoneIncoming, LeaveHome, ComeHome,
       AddsPresent, AddsNoMore, DeliverUp, NumberRequest, AbandonRequest,
       JudgeReply, RoommateQuits, RoommateEnds, stopVars
  <1>4. ASSUME NEW r \in Roommate, LpTake(r) \/ LpAnswers(r) PROVE UNCHANGED reqStop
    BY <1>4 DEF LpTake, LpAnswers, stopVars
  <1>5. ASSUME LpTimeUp \/ LpFromDown \/ LpToDown \/ LpDropsWork \/ LpLingers
                 \/ LpMovesOn \/ LpQuits
        PROVE  UNCHANGED reqStop
    BY <1>5 DEF LpTimeUp, LpFromDown, LpToDown, LpDropsWork, LpLingers, LpMovesOn,
       LpQuits, stopVars
  <1>6. ASSUME NEW b \in Boundary, GenTimerFires(b) \/ BoundaryQuits(b)
        PROVE  UNCHANGED reqStop
    BY <1>6 DEF GenTimerFires, BoundaryQuits, stopVars
  <1>7. CASE UNCHANGED microVars
    BY <1>7 DEF microVars, stopVars
  <1> QED
    BY <1>1, <1>2, <1>3, <1>4, <1>5, <1>6, <1>7 DEF MicroNext, LpStep

LEMMA UpStep ==
  Typed /\ NumbersTyped /\ DownTyped /\ HandsKnown /\ PollerKnown
  /\ ReplySerials /\ UpOnce /\ [MicroNext]_microVars => UpOnce'
  <1> SUFFICES ASSUME Typed, NumbersTyped, DownTyped, HandsKnown, PollerKnown,
                      ReplySerials, UpOnce, [MicroNext]_microVars
               PROVE  UpOnce'
    OBVIOUS
  <1>1. TunnelRuns' => TunnelRuns
    BY StopsOnlyGrow
  <1>2. CASE UNCHANGED <<generated, absorbed, by, misorderedReplies, reply>>
    BY <1>1, <1>2, UpSame
  <1>3. ASSUME NEW r \in Roommate, TakeIncoming(r) PROVE UpOnce'
    <2>1. /\ generated' = [generated EXCEPT !["up"] = @ + 1]
          /\ UNCHANGED <<absorbed, by, misorderedReplies, reply>>
      BY <1>3 DEF TakeIncoming, Generates, lpVars, replyVars
    <2>2. generated'["dn"] = generated["dn"]
      BY <2>1 DEF Typed, ChunksTyped, Boundary
    <2> QED
      BY <1>1, <2>1, <2>2, UpSame
  <1>4. CASE LpToDown
    <2>1. /\ absorbed' = [absorbed EXCEPT !["dn"] = @ \o writeMe]
          /\ UNCHANGED <<generated, by, misorderedReplies, reply>>
      BY <1>4 DEF LpToDown, Absorbs, roomVars, replyVars
    <2>2. absorbed'["up"] = absorbed["up"]
      BY <2>1 DEF DownTyped, Boundary
    <2> QED
      BY <1>1, <2>1, <2>2, UpSame
  <1>5. ASSUME NEW r \in Roommate,
               AddsPresent(r) \/ DeliverUp(r) \/ JudgeReply(r) \/ LpAnswers(r)
        PROVE  UpOnce'
    <2>1. generated' = generated
      BY <1>5 DEF AddsPresent, DeliverUp, Absorbs, JudgeReply, LpAnswers, endVars
    <2>2. \A c \in Nat \ {0} : Preserved(OnItsWayUp(c), OnItsWayUp(c)')
      BY <1>5, UpAdds, UpDelivers, UpJudges, UpAnswers
    <2> QED
      BY <1>1, <2>1, <2>2, UpKept
  <1>6. ASSUME NEW r \in Roommate, RoommateQuits(r) PROVE UpOnce'
    <2>1. "ab" \in reqStop /\ UNCHANGED <<generated, reqStop>>
      BY <1>6 DEF RoommateQuits, endVars, stopVars
    <2>2. ~TunnelRuns'
      BY <2>1 DEF TunnelRuns
    <2>3. \A c \in Nat \ {0} : NoneMade(OnItsWayUp(c), OnItsWayUp(c)')
      BY <1>6, UpQuits
    <2> QED
      BY <1>1, <2>1, <2>2, <2>3, UpKept
  <1>7. CASE LpFromDown \/ LpLingers
    <2>1. /\ lp \in {"select", "linger"}
          /\ Generates("dn") /\ StartReply(waiting, Generated("dn"))
          /\ UNCHANGED <<by, misorderedReplies>>
      BY <1>7 DEF LpFromDown, LpLingers, roomVars, replyVars
    <2>2. reply.body = NoChunk
      BY <2>1 DEF PollerKnown
    <2> QED
      BY <1>1, <2>1, <2>2, UpGenerates
  <1>8. CASE LpTimeUp \/ LpMovesOn
    <2>1. /\ lp \in {"select", "linger"}
          /\ StartReply(waiting, NoChunk) \/ UNCHANGED reply
          /\ UNCHANGED <<generated, absorbed, by, misorderedReplies>>
      BY <1>8 DEF LpTimeUp, LpMovesOn, roomVars, replyVars, endVars
    <2>2. reply.body = NoChunk
      BY <2>1 DEF PollerKnown
    <2>3. reply' = reply \/ (reply.body = NoChunk /\ reply'.body = NoChunk)
      BY <2>1, <2>2 DEF StartReply
    <2> QED
      BY <1>1, <2>1, <2>3, UpSame
  <1>9. ASSUME NEW r \in Roommate,
               \/ AskHome(r) \/ NoneIncoming(r) \/ LeaveHome(r) \/ ComeHome(r)
               \/ AddsNoMore(r) \/ NumberRequest(r) \/ AbandonRequest(r)
               \/ RoommateEnds(r) \/ LpTake(r)
        PROVE  UpOnce'
    BY <1>2, <1>9 DEF AskHome, NoneIncoming, LeaveHome, ComeHome, AddsNoMore,
       NumberRequest, AbandonRequest, RoommateEnds, LpTake, replyVars, lpVars,
       endVars
  <1>10. CASE LpDropsWork \/ LpQuits \/ StopAll \/ StopNext \/ UNCHANGED microVars
    BY <1>2, <1>10 DEF LpDropsWork, LpQuits, StopAll, StopNext, microVars,
       roomVars, replyVars, lpVars, endVars
  <1>11. ASSUME NEW b \in Boundary, GenTimerFires(b) \/ BoundaryQuits(b)
         PROVE  UpOnce'
    BY <1>2, <1>11 DEF GenTimerFires, BoundaryQuits, roomVars, replyVars, lpVars
  <1> QED
    BY <1>3, <1>4, <1>5, <1>6, <1>7, <1>8, <1>9, <1>10, <1>11
    DEF MicroNext, RoomStep, LpStep
-----------------------------------------------------------------------------
(***************************************************************************)
(* Down.                                                                   *)
(***************************************************************************)

AtWork(c) == {<<r, 0>> : r \in {q \in Roommate : work[q] = c}}

KeptDown(c) ==
  {<<"kept", n>> : n \in {m \in DOMAIN misorderedReqs : misorderedReqs[m] = c}}

Writing(c) == {<<"write", i>> : i \in {j \in DOMAIN writeMe : writeMe[j] = c}}

\* The same for a chunk from upstream.
DownOnce ==
  \A c \in Nat \ {0} :
    /\ AtMostOne(OnItsWayDown(c))
    /\ OnItsWayDown(c) # {} => c <= generated["up"]
    /\ TunnelRuns /\ c <= generated["up"] => OnItsWayDown(c) # {}

DownPlacesKnown ==
  \A c : OnItsWayDown(c) = AbsorbedAt("dn", c) \cup AtWork(c) \cup KeptDown(c)
                             \cup Writing(c)

LEMMA DownPlaces == DownPlacesKnown
  BY DEF DownPlacesKnown, OnItsWayDown, AbsorbedAt, AtWork, KeptDown, Writing

LEMMA DownPlacesAfter == DownPlacesKnown'
  BY DownPlaces, PTL

LEMMA DownKept ==
  ASSUME DownOnce, generated'["up"] = generated["up"], TunnelRuns' => TunnelRuns,
         \A c \in Nat \ {0} :
           \/ Preserved(OnItsWayDown(c), OnItsWayDown(c)')
           \/ ~TunnelRuns' /\ NoneMade(OnItsWayDown(c), OnItsWayDown(c)')
  PROVE  DownOnce'
  BY DEF DownOnce, Preserved, NoneMade

LEMMA DownSame ==
  ASSUME DownOnce, generated'["up"] = generated["up"], TunnelRuns' => TunnelRuns,
         absorbed'["dn"] = absorbed["dn"], UNCHANGED <<work, misorderedReqs, writeMe>>
  PROVE  DownOnce'
  <1> SUFFICES ASSUME NEW c \in Nat \ {0} PROVE OnItsWayDown(c)' = OnItsWayDown(c)
    BY SamePlaces, DownKept
  <1> QED
    BY DEF OnItsWayDown

\* What a roommate has to take down; NoChunk is at no place.
LEMMA WorkGone ==
  ASSUME NEW r \in Roommate, WorkTyped, work' = [work EXCEPT ![r] = NoChunk],
         NEW c \in Nat \ {0}
  PROVE  /\ AtWork(c)' = AtWork(c) \ {<<r, 0>>}
         /\ <<r, 0>> \in AtWork(c) <=> work[r] = c
  <1>1. \A q \in Roommate : work'[q] = IF q = r THEN 0 ELSE work[q]
    BY DEF WorkTyped, NoChunk
  <1>2. \A p : p \in AtWork(c)' <=> \E q \in Roommate : p = <<q, 0>> /\ q # r /\ work[q] = c
    BY <1>1 DEF AtWork
  <1>3. \A p : p \in AtWork(c) <=> \E q \in Roommate : p = <<q, 0>> /\ work[q] = c
    BY DEF AtWork
  <1>4. \A q : <<q, 0>> = <<r, 0>> => q = r
    OBVIOUS
  <1> QED
    BY <1>2, <1>3, <1>4

\* A roommate that is told to stop drops what it has to take down.
LEMMA DownAbandons ==
  ASSUME WorkTyped, NEW r \in Roommate, AbandonRequest(r), NEW c \in Nat \ {0}
  PROVE  NoneMade(OnItsWayDown(c), OnItsWayDown(c)')
  <1>1. /\ work' = [work EXCEPT ![r] = NoChunk]
        /\ UNCHANGED <<absorbed, misorderedReqs, writeMe>>
    BY DEF AbandonRequest, lpVars, endVars
  <1>2. AtWork(c)' \subseteq AtWork(c)
    BY <1>1, WorkGone
  <1>3. OnItsWayDown(c)' \subseteq OnItsWayDown(c)
    BY <1>1, <1>2, DownPlaces, DownPlacesAfter
    DEF DownPlacesKnown, AbsorbedAt, KeptDown, Writing
  <1> QED
    BY <1>3, Lost

LEMMA DownDrops ==
  ASSUME LpDropsWork, NEW c \in Nat \ {0}
  PROVE  NoneMade(OnItsWayDown(c), OnItsWayDown(c)')
  <1>1. writeMe' = << >> /\ UNCHANGED <<absorbed, misorderedReqs, work>>
    BY DEF LpDropsWork, roomVars, endVars
  <1>2. OnItsWayDown(c)' \subseteq OnItsWayDown(c)
    BY <1>1 DEF OnItsWayDown
  <1> QED
    BY <1>2, Lost

LEMMA DownDelivers ==
  ASSUME DownTyped, LpToDown, NEW c \in Nat \ {0}
  PROVE  Preserved(OnItsWayDown(c), OnItsWayDown(c)')
  <1> DEFINE Rest == AtWork(c) \cup KeptDown(c)
  <1>1. /\ Absorbs("dn", writeMe) /\ writeMe' = << >>
        /\ UNCHANGED <<work, misorderedReqs>>
    BY DEF LpToDown, roomVars
  <1>2. AtWork(c)' = AtWork(c) /\ KeptDown(c)' = KeptDown(c) /\ Writing(c)' = {}
    BY <1>1 DEF AtWork, KeptDown, Writing
  <1>3. \A i : <<"write", i>> \notin Rest
    BY RoommatesNamed DEF AtWork, KeptDown
  <1>4. writeMe \in Seq(Nat) /\ "dn" \in Boundary
    BY DEF DownTyped, Boundary
  <1> HIDE DEF Rest
  <1>5. Preserved(
          AbsorbedAt("dn", c) \cup Rest
            \cup {<<"write", i>> : i \in {j \in DOMAIN writeMe : writeMe[j] = c}},
          AbsorbedAt("dn", c)' \cup Rest)
    BY <1>1, <1>3, <1>4, AbsorbsMoves
  <1>6. OnItsWayDown(c) = AbsorbedAt("dn", c) \cup Rest
            \cup {<<"write", i>> : i \in {j \in DOMAIN writeMe : writeMe[j] = c}}
    BY DownPlaces DEF DownPlacesKnown, Writing, Rest
  <1>7. OnItsWayDown(c)' = AbsorbedAt("dn", c)' \cup Rest
    BY <1>2, DownPlacesAfter DEF DownPlacesKnown, Rest
  <1> QED
    BY <1>5, <1>6, <1>7

\* A request that comes too early is stored at a number where nothing is.
LEMMA DownStores ==
  ASSUME WorkTyped, ReqSerials, NEW r \in Roommate, LpTake(r),
         ser[r] # NoSerial, ser[r] # lastReq + 1, NEW c \in Nat \ {0}
  PROVE  Preserved(OnItsWayDown(c), OnItsWayDown(c)')
  <1> DEFINE old == <<r, 0>>
             new == <<"kept", ser[r]>>
  <1>1. /\ at[r] = "request" /\ work' = [work EXCEPT ![r] = NoChunk]
        /\ absorbed' = absorbed
    BY DEF LpTake, endVars
  <1>2. /\ misorderedReqs' =
             [n \in DOMAIN misorderedReqs \cup {ser[r]} |->
                IF n = ser[r] THEN work[r] ELSE misorderedReqs[n]]
        /\ writeMe' = writeMe
    BY TakesLater
  <1>3. ser[r] \notin DOMAIN misorderedReqs
    BY <1>1 DEF ReqSerials, Posts
  <1>4. KeptDown(c)' = KeptDown(c) \cup {p \in {new} : work[r] = c}
    <2>1. {m \in DOMAIN misorderedReqs' : misorderedReqs'[m] = c}
            = {m \in DOMAIN misorderedReqs : misorderedReqs[m] = c}
                \cup {m \in {ser[r]} : work[r] = c}
      BY <1>2, <1>3
    <2> QED
      BY <2>1 DEF KeptDown
  <1>5. AtWork(c)' = AtWork(c) \ {old} /\ (old \in AtWork(c) <=> work[r] = c)
    BY <1>1, WorkGone
  <1>6. AbsorbedAt("dn", c)' = AbsorbedAt("dn", c) /\ Writing(c)' = Writing(c)
    BY <1>1, <1>2 DEF AbsorbedAt, Writing
  <1>7. /\ old \notin AbsorbedAt("dn", c) \cup KeptDown(c) \cup Writing(c)
        /\ old # new
    BY RoommatesNamed DEF AbsorbedAt, KeptDown, Writing
  <1>8. /\ OnItsWayDown(c) = AbsorbedAt("dn", c) \cup AtWork(c) \cup KeptDown(c)
                               \cup Writing(c)
        /\ OnItsWayDown(c)' = AbsorbedAt("dn", c)' \cup AtWork(c)' \cup KeptDown(c)'
                                \cup Writing(c)'
    BY DownPlaces, DownPlacesAfter DEF DownPlacesKnown
  <1> HIDE DEF old, new
  <1>9. /\ \A p \in OnItsWayDown(c)' :
              (p \in OnItsWayDown(c) /\ p # old) \/ (p = new /\ old \in OnItsWayDown(c))
        /\ \A p \in OnItsWayDown(c) : p \in OnItsWayDown(c)' \/ new \in OnItsWayDown(c)'
    BY <1>4, <1>5, <1>6, <1>7, <1>8
  <1> QED
    BY <1>9, Moved

\* The next request and all that is stored behind it without a gap become
\* what LittlePoll writes, each at its own index.
LEMMA DownTakesNext ==
  ASSUME Typed, NumbersTyped, WorkTyped, DownTyped, PollerKnown, ReqSerials,
         NEW r \in Roommate, LpTake(r), ser[r] # NoSerial, ser[r] = lastReq + 1,
         NEW c \in Nat \ {0}
  PROVE  Preserved(OnItsWayDown(c), OnItsWayDown(c)')
  <1> DEFINE n == ser[r]
             k == lastReq' - n
             old == <<r, 0>>
             Stays == AbsorbedAt("dn", c) \cup AtWork(c)' \cup KeptDown(c)'
             After == Stays \cup Writing(c)'
             f == [p \in After |-> IF p \in Stays THEN p
                                   ELSE IF p[2] = 1 THEN old
                                   ELSE <<"kept", n + p[2] - 1>>]
  <1>1. /\ lp = "select" /\ at[r] = "request"
        /\ work' = [work EXCEPT ![r] = NoChunk] /\ absorbed' = absorbed
    BY DEF LpTake, endVars
  <1>2. /\ n \in Nat /\ lastReq' \in Nat /\ n <= lastReq' /\ lastReq \in Nat
        /\ (n + 1)..lastReq' \subseteq DOMAIN misorderedReqs
        /\ Following(n) \in Seq(Nat) /\ Len(Following(n)) = k
        /\ \A i \in 1..k : Following(n)[i] = misorderedReqs[n + i]
        /\ writeMe' = <<work[r]>> \o Following(n)
        /\ misorderedReqs' = [m \in {j \in DOMAIN misorderedReqs : j > lastReq'} |->
                                misorderedReqs[m]]
    BY TakesNext DEF DownTyped
  <1>3. k \in Nat
    <2>1. \A a, b \in Nat : a <= b => b - a \in Nat
      OBVIOUS
    <2> QED
      BY <1>2, <2>1
  <1>4. writeMe = << >> /\ Writing(c) = {}
    BY <1>1 DEF PollerKnown, Writing
  <1>5. /\ DOMAIN writeMe' = 1..(k + 1) /\ writeMe'[1] = work[r]
        /\ \A j \in 2..(k + 1) :
             /\ n + j - 1 \in (n + 1)..lastReq'
             /\ writeMe'[j] = misorderedReqs[n + j - 1]
    <2>1. <<work[r]>> \in Seq(Nat) /\ Len(<<work[r]>>) = 1 /\ <<work[r]>>[1] = work[r]
      BY DEF WorkTyped
    <2> HIDE DEF k, n
    <2>2. /\ Len(writeMe') = k + 1 /\ writeMe' \in Seq(Nat) /\ writeMe'[1] = work[r]
          /\ \A j \in 2..(k + 1) : writeMe'[j] = Following(n)[j - 1]
      BY <1>2, <1>3, <2>1, ConcatProperties
    <2>3. \A j \in 2..(k + 1) : /\ j - 1 \in 1..k /\ n + (j - 1) = n + j - 1
                                /\ n + j - 1 \in (n + 1)..(n + k)
      BY <1>2, <1>3
    <2>4. n + k = lastReq'
      BY <1>2 DEF k, n
    <2>5. DOMAIN writeMe' = 1..(k + 1)
      BY <1>3, <2>2
    <2>6. \A j \in 2..(k + 1) : Following(n)[j - 1] = misorderedReqs[n + (j - 1)]
      BY <1>2, <2>3
    <2> QED
      BY <2>2, <2>3, <2>4, <2>5, <2>6
  <1>6. AtWork(c)' = AtWork(c) \ {old} /\ (old \in AtWork(c) <=> work[r] = c)
    BY <1>1, WorkGone
  <1>7. /\ OnItsWayDown(c) = AbsorbedAt("dn", c) \cup AtWork(c) \cup KeptDown(c)
                               \cup Writing(c)
        /\ OnItsWayDown(c)' = AbsorbedAt("dn", c)' \cup AtWork(c)' \cup KeptDown(c)'
                                \cup Writing(c)'
        /\ AbsorbedAt("dn", c)' = AbsorbedAt("dn", c)
    BY <1>1, DownPlaces, DownPlacesAfter DEF DownPlacesKnown, AbsorbedAt
  <1>8. KeptDown(c)' = {<<"kept", m>> : m \in {j \in DOMAIN misorderedReqs :
                                              j > lastReq' /\ misorderedReqs[j] = c}}
    <2>1. {m \in DOMAIN misorderedReqs' : misorderedReqs'[m] = c}
            = {j \in DOMAIN misorderedReqs : j > lastReq' /\ misorderedReqs[j] = c}
      BY <1>2
    <2> QED
      BY <2>1 DEF KeptDown
  <1>9. \A p \in Writing(c)' :
          \/ p = <<"write", 1>> /\ work[r] = c
          \/ \E j \in 2..(k + 1) : /\ p = <<"write", j>>
                                  /\ <<"kept", n + j - 1>> \in KeptDown(c)
    <2> SUFFICES ASSUME NEW j \in DOMAIN writeMe', writeMe'[j] = c
                 PROVE  \/ j = 1 /\ work[r] = c
                        \/ j \in 2..(k + 1) /\ <<"kept", n + j - 1>> \in KeptDown(c)
      BY DEF Writing
    <2>1. j = 1 \/ j \in 2..(k + 1)
      BY <1>3, <1>5
    <2>2. CASE j = 1
      BY <1>5, <2>2
    <2>3. CASE j \in 2..(k + 1)
      <3>1. n + j - 1 \in DOMAIN misorderedReqs /\ misorderedReqs[n + j - 1] = c
        BY <1>2, <1>5, <2>3
      <3> QED
        BY <2>3, <3>1 DEF KeptDown
    <2> QED
      BY <2>1, <2>2, <2>3
  <1>10. \A p \in Stays : /\ p # old /\ p \in OnItsWayDown(c)
                          /\ \A m \in (n + 1)..lastReq' : p # <<"kept", m>>
    <2>1. \A p \in AbsorbedAt("dn", c) : p # old /\ \A m : p # <<"kept", m>>
      BY RoommatesNamed DEF AbsorbedAt
    <2>2. \A p \in AtWork(c)' : p # old /\ \A m : p # <<"kept", m>>
      BY <1>6, RoommatesNamed DEF AtWork
    <2>3. \A p \in KeptDown(c)' : /\ p # old /\ p \in KeptDown(c)
                                  /\ \A m \in (n + 1)..lastReq' : p # <<"kept", m>>
      <3> SUFFICES ASSUME NEW j \in DOMAIN misorderedReqs, j > lastReq',
                          misorderedReqs[j] = c
                   PROVE  /\ <<"kept", j>> # old /\ <<"kept", j>> \in KeptDown(c)
                          /\ \A m \in (n + 1)..lastReq' : j # m
        BY <1>8
      <3>1. <<"kept", j>> # old /\ <<"kept", j>> \in KeptDown(c)
        BY RoommatesNamed DEF KeptDown
      <3>2. j \in Nat
        BY DEF DownTyped
      <3> QED
        BY <1>2, <3>1, <3>2
    <2> HIDE DEF old, n
    <2> QED
      BY <1>6, <1>7, <2>1, <2>2, <2>3
  <1>11. f \in [After -> OnItsWayDown(c)]
    <2> SUFFICES ASSUME NEW p \in After PROVE f[p] \in OnItsWayDown(c)
      OBVIOUS
    <2>1. CASE p \in Stays
      BY <1>10, <2>1
    <2>2. CASE p \notin Stays
      <3>1. p \in Writing(c)'
        BY <2>2
      <3>2. CASE p = <<"write", 1>> /\ work[r] = c
        <4>1. f[p] = old
          BY <2>2, <3>2
        <4> HIDE DEF f, old
        <4> QED
          BY <1>6, <1>7, <3>2, <4>1
      <3>3. CASE \E j \in 2..(k + 1) : /\ p = <<"write", j>>
                                      /\ <<"kept", n + j - 1>> \in KeptDown(c)
        <4>1. PICK j \in 2..(k + 1) : /\ p = <<"write", j>>
                                     /\ <<"kept", n + j - 1>> \in KeptDown(c)
          BY <3>3
        <4>2. p[2] = j /\ j # 1
          BY <1>3, <4>1
        <4>3. f[p] = <<"kept", n + j - 1>>
          BY <2>2, <4>2
        <4> QED
          BY <1>7, <4>1, <4>3
      <3> QED
        BY <1>9, <3>1, <3>2, <3>3
    <2> QED
      BY <2>1, <2>2
  <1>12. \A p \in After : \/ p \in Stays /\ f[p] = p
                          \/ p = <<"write", 1>> /\ f[p] = old
                          \/ \E j \in 2..(k + 1) : /\ p = <<"write", j>>
                                                  /\ f[p] = <<"kept", n + j - 1>>
    <2> SUFFICES ASSUME NEW p \in After, p \notin Stays
                 PROVE  \/ p = <<"write", 1>> /\ f[p] = old
                        \/ \E j \in 2..(k + 1) : /\ p = <<"write", j>>
                                                /\ f[p] = <<"kept", n + j - 1>>
      OBVIOUS
    <2>1. p \in Writing(c)'
      OBVIOUS
    <2>2. CASE p = <<"write", 1>>
      BY <2>2
    <2>3. CASE \E j \in 2..(k + 1) : p = <<"write", j>>
      <3>1. PICK j \in 2..(k + 1) : p = <<"write", j>>
        BY <2>3
      <3>2. p[2] = j /\ j # 1
        BY <1>3, <3>1
      <3>3. f[p] = <<"kept", n + j - 1>>
        BY <3>2
      <3> QED
        BY <3>1, <3>3
    <2> QED
      BY <1>9, <2>1, <2>2, <2>3
  <1>13. \A p, q \in After : f[p] = f[q] => p = q
    <2>1. \A j \in 2..(k + 1) : /\ n + j - 1 \in (n + 1)..lastReq'
                                /\ <<"kept", n + j - 1>> # old
      BY <1>5, RoommatesNamed
    <2>2. \A i, j \in 2..(k + 1) : <<"kept", n + i - 1>> = <<"kept", n + j - 1>> => i = j
      BY <1>2, <1>3
    <2>3. \A p \in Stays : \A j \in 2..(k + 1) : p # <<"kept", n + j - 1>>
      BY <1>10, <2>1
    <2> HIDE DEF f, old, Stays, After, n, k
    <2> QED
      BY <1>10, <1>12, <2>1, <2>2, <2>3
  <1>14. OnItsWayDown(c) # {} => After # {}
    <2> SUFFICES ASSUME NEW p \in OnItsWayDown(c) PROVE After # {}
      OBVIOUS
    <2>1. CASE p \in AbsorbedAt("dn", c)
      BY <2>1
    <2>2. CASE p \in AtWork(c)
      <3>1. CASE p = old
        <4>1. 1 \in DOMAIN writeMe' /\ writeMe'[1] = c
          BY <1>3, <1>5, <1>6, <2>2, <3>1
        <4>2. <<"write", 1>> \in Writing(c)'
          BY <4>1 DEF Writing
        <4> QED
          BY <4>2
      <3>2. CASE p # old
        BY <1>6, <2>2, <3>2
      <3> QED
        BY <3>1, <3>2
    <2>3. CASE p \in KeptDown(c)
      <3>1. PICK m \in DOMAIN misorderedReqs : misorderedReqs[m] = c
        BY <2>3 DEF KeptDown
      <3>2. m \in Nat /\ n < m
        <4>1. m \in Nat /\ lastReq < m
          BY DEF DownTyped, ReqSerials
        <4>2. m # n
          BY <1>1, <3>1 DEF ReqSerials, Posts
        <4> QED
          BY <1>2, <4>1, <4>2
      <3>3. CASE m > lastReq'
        BY <1>8, <3>1, <3>3
      <3>4. CASE m <= lastReq'
        <4> DEFINE j == m - n + 1
        <4>1. j \in 2..(k + 1) /\ n + j - 1 = m
          BY <1>2, <3>2, <3>4
        <4> HIDE DEF j
        <4>2. j \in DOMAIN writeMe' /\ writeMe'[j] = c
          BY <1>3, <1>5, <3>1, <4>1
        <4>3. <<"write", j>> \in Writing(c)'
          BY <4>2 DEF Writing
        <4> QED
          BY <4>3
      <3> QED
        BY <1>2, <3>2, <3>3, <3>4
    <2> QED
      BY <1>4, <1>7, <2>1, <2>2, <2>3
  <1>15. After = OnItsWayDown(c)'
    BY <1>7
  <1> QED
    <2> HIDE DEF f, After
    <2> QED
      BY <1>11, <1>13, <1>14, <1>15, Mapped

\* A chunk that upstream generates is nowhere yet, and then with the roommate
\* that has none.
LEMMA DownGenerates ==
  ASSUME Typed, WorkTyped, HandsKnown, DownOnce, TunnelRuns' => TunnelRuns,
         NEW r \in Roommate, TakeIncoming(r)
  PROVE  DownOnce'
  <1> DEFINE new == generated["up"] + 1
  <1>1. /\ generated' = [generated EXCEPT !["up"] = @ + 1]
        /\ work' = [work EXCEPT ![r] = new] /\ at[r] \in {"inner", "told"}
        /\ UNCHANGED <<absorbed, misorderedReqs, writeMe>>
    BY DEF TakeIncoming, Generates, Generated, lpVars
  <1>2. generated["up"] \in Nat /\ generated'["up"] = new
    BY <1>1 DEF Typed, ChunksTyped, Boundary
  <1>3. work[r] = NoChunk
    BY <1>1 DEF HandsKnown
  <1> SUFFICES ASSUME NEW c \in Nat \ {0}
               PROVE  /\ AtMostOne(OnItsWayDown(c)')
                      /\ OnItsWayDown(c)' # {} => c <= new
                      /\ TunnelRuns' /\ c <= new => OnItsWayDown(c)' # {}
    BY <1>2 DEF DownOnce
  <1>4. AtWork(c)' = AtWork(c) \cup {p \in {<<r, 0>>} : c = new}
    <2>1. \A q \in Roommate : work'[q] = IF q = r THEN new ELSE work[q]
      BY <1>1 DEF WorkTyped
    <2> HIDE DEF new
    <2>2. {q \in Roommate : work'[q] = c} = {q \in Roommate : work[q] = c}
                                              \cup {q \in {r} : c = new}
      BY <1>3, <2>1 DEF NoChunk
    <2> QED
      BY <2>2 DEF AtWork
  <1>5. OnItsWayDown(c)' = OnItsWayDown(c) \cup {p \in {<<r, 0>>} : c = new}
    <2>1. /\ AbsorbedAt("dn", c)' = AbsorbedAt("dn", c)
          /\ KeptDown(c)' = KeptDown(c) /\ Writing(c)' = Writing(c)
      BY <1>1 DEF AbsorbedAt, KeptDown, Writing
    <2> HIDE DEF new
    <2> QED
      BY <1>4, <2>1, DownPlaces, DownPlacesAfter DEF DownPlacesKnown
  <1>6. /\ AtMostOne(OnItsWayDown(c))
        /\ OnItsWayDown(c) # {} => c <= generated["up"]
        /\ TunnelRuns /\ c <= generated["up"] => OnItsWayDown(c) # {}
    BY DEF DownOnce
  <1>7. CASE c = new
    <2>1. OnItsWayDown(c) = {}
      BY <1>2, <1>6, <1>7
    <2>2. OnItsWayDown(c)' = {<<r, 0>>}
      BY <1>5, <1>7, <2>1
    <2>3. AtMostOne({<<r, 0>>})
      BY DEF AtMostOne
    <2>4. AtMostOne(OnItsWayDown(c)') /\ OnItsWayDown(c)' # {}
      BY <2>2, <2>3, Zenon
    <2> QED
      BY <1>2, <1>7, <2>4
  <1>8. CASE c # new
    <2>1. OnItsWayDown(c)' = OnItsWayDown(c)
      BY <1>5, <1>8
    <2> QED
      BY <1>2, <1>6, <1>8, <2>1
  <1> QED
    BY <1>7, <1>8

LEMMA DownStep ==
  Typed /\ NumbersTyped /\ WorkTyped /\ DownTyped /\ HandsKnown /\ PollerKnown
  /\ ReqSerials /\ DownOnce /\ [MicroNext]_microVars => DownOnce'
  <1> SUFFICES ASSUME Typed, NumbersTyped, WorkTyped, DownTyped, HandsKnown,
                      PollerKnown, ReqSerials, DownOnce, [MicroNext]_microVars
               PROVE  DownOnce'
    OBVIOUS
  <1>1. TunnelRuns' => TunnelRuns
    BY StopsOnlyGrow
  <1>2. CASE UNCHANGED <<generated, absorbed, work, misorderedReqs, writeMe>>
    BY <1>1, <1>2, DownSame
  <1>3. ASSUME NEW r \in Roommate, TakeIncoming(r) PROVE DownOnce'
    BY <1>1, <1>3, DownGenerates
  <1>4. CASE LpFromDown \/ LpLingers
    <2>1. /\ generated' = [generated EXCEPT !["dn"] = @ + 1]
          /\ UNCHANGED <<absorbed, work, misorderedReqs, writeMe>>
      BY <1>4 DEF LpFromDown, LpLingers, Generates, roomVars
    <2>2. generated'["up"] = generated["up"]
      BY <2>1 DEF Typed, ChunksTyped, Boundary
    <2> QED
      BY <1>1, <2>1, <2>2, DownSame
  <1>5. ASSUME NEW r \in Roommate, DeliverUp(r) PROVE DownOnce'
    <2>1. /\ absorbed' = [absorbed EXCEPT !["up"] = @ \o by[r]]
          /\ UNCHANGED <<generated, work, misorderedReqs, writeMe>>
      BY <1>5 DEF DeliverUp, Absorbs, lpVars
    <2>2. absorbed'["dn"] = absorbed["dn"]
      BY <2>1 DEF DownTyped, Boundary
    <2> QED
      BY <1>1, <2>1, <2>2, DownSame
  <1>6. CASE LpToDown
    <2>1. generated' = generated
      BY <1>6 DEF LpToDown, Absorbs
    <2> QED
      BY <1>1, <1>6, <2>1, DownDelivers, DownKept
  <1>7. ASSUME NEW r \in Roommate, LpTake(r) PROVE DownOnce'
    <2>1. at[r] = "request" /\ generated' = generated /\ absorbed' = absorbed
      BY <1>7 DEF LpTake, endVars
    <2>2. CASE ser[r] = NoSerial
      <3>1. work' = [work EXCEPT ![r] = NoChunk]
        BY <1>7 DEF LpTake
      <3>2. work[r] = NoChunk
        BY <2>1, <2>2 DEF HandsKnown
      <3>3. work' = work
        BY <3>1, <3>2 DEF WorkTyped
      <3>4. UNCHANGED <<misorderedReqs, writeMe>>
        BY <1>7, <2>2, TakesNothing
      <3> QED
        BY <1>2, <2>1, <3>3, <3>4
    <2>3. ASSUME ser[r] # NoSerial, NEW c \in Nat \ {0}
          PROVE  Preserved(OnItsWayDown(c), OnItsWayDown(c)')
      BY <1>7, <2>3, DownTakesNext, DownStores
    <2> QED
      BY <1>1, <2>1, <2>2, <2>3, DownKept
  <1>8. ASSUME NEW r \in Roommate, AbandonRequest(r) PROVE DownOnce'
    <2>1. "ab" \in reqStop /\ UNCHANGED <<generated, reqStop>>
      BY <1>8 DEF AbandonRequest, endVars, stopVars
    <2>2. ~TunnelRuns'
      BY <2>1 DEF TunnelRuns
    <2>3. \A c \in Nat \ {0} : NoneMade(OnItsWayDown(c), OnItsWayDown(c)')
      BY <1>8, DownAbandons
    <2> QED
      BY <1>1, <2>1, <2>2, <2>3, DownKept
  <1>9. CASE LpDropsWork
    <2>1. "lp" \in reqStop /\ UNCHANGED <<generated, reqStop>>
      BY <1>9 DEF LpDropsWork, endVars, stopVars
    <2>2. ~TunnelRuns'
      BY <2>1 DEF TunnelRuns
    <2>3. \A c \in Nat \ {0} : NoneMade(OnItsWayDown(c), OnItsWayDown(c)')
      BY <1>9, DownDrops
    <2> QED
      BY <1>1, <2>1, <2>2, <2>3, DownKept
  <1>10. ASSUME NEW r \in Roommate,
                \/ AskHome(r) \/ NoneIncoming(r) \/ LeaveHome(r) \/ ComeHome(r)
                \/ AddsPresent(r) \/ AddsNoMore(r) \/ NumberRequest(r)
                \/ JudgeReply(r) \/ RoommateQuits(r) \/ RoommateEnds(r)
                \/ LpAnswers(r)
         PROVE  DownOnce'
    BY <1>2, <1>10 DEF AskHome, NoneIncoming, LeaveHome, ComeHome, AddsPresent,
       AddsNoMore, NumberRequest, JudgeReply, RoommateQuits, RoommateEnds,
       LpAnswers, lpVars, endVars
  <1>11. CASE LpTimeUp \/ LpMovesOn \/ LpQuits \/ StopAll \/ StopNext
                \/ UNCHANGED microVars
    BY <1>2, <1>11 DEF LpTimeUp, LpMovesOn, LpQuits, StopAll, StopNext, microVars,
       roomVars, lpVars, endVars
  <1>12. ASSUME NEW b \in Boundary, GenTimerFires(b) \/ BoundaryQuits(b)
         PROVE  DownOnce'
    BY <1>2, <1>12 DEF GenTimerFires, BoundaryQuits, roomVars, lpVars
  <1> QED
    BY <1>3, <1>4, <1>5, <1>6, <1>7, <1>8, <1>9, <1>10, <1>11, <1>12
    DEF MicroNext, RoomStep, LpStep
-----------------------------------------------------------------------------
(***************************************************************************)
(* Together.                                                               *)
(***************************************************************************)

\* The upstream end, which does not echo, generates what its timer started.
UpLimited ==
  /\ generated["up"] <= MaxUp
  /\ bound["up"] = "gen" => generated["up"] < MaxUp

LEMMA LimitStep ==
  Typed /\ PartsTyped /\ UpLimited /\ [MicroNext]_microVars => UpLimited'
  <1> SUFFICES ASSUME Typed, PartsTyped, UpLimited, [MicroNext]_microVars
               PROVE  UpLimited'
    OBVIOUS
  <1>1. /\ generated \in [Boundary -> Nat] /\ "up" \in Boundary /\ "dn" \in Boundary
        /\ bound \in [Boundary -> {"loop", "gen", "done"}]
        /\ MaxUp \in Nat /\ "up" \notin Echoes
    BY MicroverseAssumption DEF Typed, ChunksTyped, PartsTyped, Boundary, Echoes
  <1>2. CASE UNCHANGED <<bound, generated>>
    BY <1>2 DEF UpLimited
  <1>3. ASSUME NEW r \in Roommate, TakeIncoming(r) PROVE UpLimited'
    <2>1. /\ bound["up"] = "gen"
          /\ generated' = [generated EXCEPT !["up"] = @ + 1]
          /\ bound' = [bound EXCEPT !["up"] = "loop"]
      BY <1>3 DEF TakeIncoming, Generates
    <2> QED
      BY <1>1, <2>1 DEF UpLimited
  <1>4. CASE LpFromDown \/ LpLingers
    <2>1. /\ generated' = [generated EXCEPT !["dn"] = @ + 1]
          /\ bound' = [bound EXCEPT !["dn"] = "loop"]
      BY <1>4 DEF LpFromDown, LpLingers, Generates
    <2> QED
      BY <1>1, <2>1 DEF UpLimited
  <1>5. ASSUME NEW b \in Boundary, NEW chunks, Absorbs(b, chunks) PROVE UpLimited'
    BY <1>1, <1>5 DEF Absorbs, UpLimited, Boundary
  <1>6. ASSUME NEW b \in Boundary, GenTimerFires(b) \/ BoundaryQuits(b)
        PROVE  UpLimited'
    <2>1. /\ generated' = generated
          /\ \/ bound' = [bound EXCEPT ![b] = "done"]
             \/ /\ bound' = [bound EXCEPT ![b] = "gen"]
                /\ b = "up" => generated["up"] < MaxUp
      BY <1>6 DEF GenTimerFires, BoundaryQuits
    <2> QED
      BY <1>1, <2>1 DEF UpLimited
  <1>7. ASSUME NEW r \in Roommate, RoomStep(r) PROVE UpLimited'
    <2>1. ASSUME DeliverUp(r) PROVE UpLimited'
      BY <1>1, <1>5, <2>1 DEF DeliverUp
    <2> QED
      BY <1>2, <1>3, <1>7, <2>1 DEF RoomStep, AskHome, NoneIncoming, LeaveHome,
         ComeHome, AddsPresent, AddsNoMore, NumberRequest, AbandonRequest,
         JudgeReply, endVars
  <1>8. ASSUME NEW r \in Roommate, RoommateQuits(r) \/ RoommateEnds(r) \/ LpTake(r)
                                     \/ LpAnswers(r)
        PROVE  UpLimited'
    BY <1>2, <1>8 DEF RoommateQuits, RoommateEnds, LpTake, LpAnswers, endVars
  <1>9. CASE LpToDown
    BY <1>1, <1>5, <1>9 DEF LpToDown
  <1>10. CASE LpTimeUp \/ LpDropsWork \/ LpMovesOn \/ LpQuits \/ StopAll \/ StopNext
                \/ UNCHANGED microVars
    BY <1>2, <1>10 DEF LpTimeUp, LpDropsWork, LpMovesOn, LpQuits, StopAll, StopNext,
       microVars, endVars
  <1> QED
    BY <1>4, <1>6, <1>7, <1>8, <1>9, <1>10 DEF MicroNext, LpStep

MicroInv ==
  /\ Typed /\ PartsTyped /\ NumbersTyped /\ WorkTyped /\ DownTyped
  /\ HandsKnown /\ PollerKnown /\ ReplySerials /\ ReqSerials
  /\ UpOnce /\ DownOnce /\ UpLimited

LEMMA MicroInvInit == MicroInit => MicroInv
  <1> SUFFICES ASSUME MicroInit PROVE MicroInv
    OBVIOUS
  <1> USE DEF MicroInit, NoChunk, NoSerial
  <1>1. Typed
    BY StrandedInit
  <1>2. PartsTyped
    <2>1. << >> \in Seq(Parts)
      OBVIOUS
    <2> QED
      BY <2>1 DEF PartsTyped
  <1>3. NumbersTyped /\ WorkTyped
    BY DEF NumbersTyped, WorkTyped
  <1>4. DownTyped
    <2>1. << >> \in Seq(Nat)
      OBVIOUS
    <2> QED
      BY <2>1 DEF DownTyped
  <1>5. HandsKnown /\ PollerKnown
    BY DEF HandsKnown, PollerKnown
  <1>6. ReplySerials /\ ReqSerials
    BY DEF ReplySerials, ReqSerials, Brings, Posts
  <1>7. \A c \in Nat \ {0} : OnItsWayUp(c) = {} /\ OnItsWayDown(c) = {}
    <2> SUFFICES ASSUME NEW c \in Nat \ {0}
                 PROVE  OnItsWayUp(c) = {} /\ OnItsWayDown(c) = {}
      OBVIOUS
    <2>1. AbsorbedAt("up", c) = {} /\ AbsorbedAt("dn", c) = {}
      BY DEF AbsorbedAt, Boundary
    <2>2. /\ \A r \in Roommate : HandOf(r, c) = {}
          /\ KeptUp(c) = {} /\ Answering(c) = {}
      BY DEF HandOf, KeptUp, Answering
    <2>3. AtWork(c) = {} /\ KeptDown(c) = {} /\ Writing(c) = {}
      BY DEF AtWork, KeptDown, Writing
    <2>4. "alpha" \in Roommate /\ Other("alpha") \in Roommate
      BY RoommatesNamed DEF Roommate
    <2> USE DEF UpPlacesKnown, DownPlacesKnown
    <2>5. /\ OnItsWayUp(c) = AbsorbedAt("up", c)
                \cup (HandOf("alpha", c) \cup HandOf(Other("alpha"), c))
                \cup KeptUp(c) \cup Answering(c)
          /\ OnItsWayDown(c) = AbsorbedAt("dn", c) \cup AtWork(c) \cup KeptDown(c)
                \cup Writing(c)
      <3> HIDE DEF MicroInit
      <3> QED
        BY <2>4, UpPlaces, DownPlaces
    <2> HIDE DEF MicroInit
    <2> QED
      BY <2>1, <2>2, <2>3, <2>4, <2>5
  <1>8. generated["up"] = 0 /\ generated["dn"] = 0
    BY DEF Boundary
  <1>9. UpOnce /\ DownOnce
    <2> SUFFICES ASSUME NEW c \in Nat \ {0}
                 PROVE  /\ AtMostOne({}) /\ ~(c <= 0)
      BY <1>7, <1>8 DEF UpOnce, DownOnce
    <2> QED
      BY DEF AtMostOne
  <1>10. UpLimited
    BY <1>8, MicroverseAssumption DEF UpLimited, Boundary
  <1> QED
    BY <1>1, <1>2, <1>3, <1>4, <1>5, <1>6, <1>9, <1>10 DEF MicroInv

LEMMA TypedStep == Typed /\ NoneStranded /\ [MicroNext]_microVars => Typed'
  BY StrandedStep

LEMMA MicroInvStep ==
  NoneStranded /\ MicroInv /\ [MicroNext]_microVars => MicroInv'
  BY TypedStep, PartsStep, NumbersStep, WorkStep, DownTypedStep, HandsStep,
     PollerStep, ReplySerialsStep, ReqSerialsStep, UpStep, DownStep, LimitStep
  DEF MicroInv

LEMMA MicroInvHolds == MicroSpec => [](NoneStranded /\ MicroInv)
  <1>1. NoneStranded /\ MicroInv /\ [MicroNext]_microVars => (NoneStranded /\ MicroInv)'
    BY StrandedStep, MicroInvStep DEF MicroInv
  <1> QED
    BY <1>1, StrandedInit, MicroInvInit, PTL DEF MicroSpec

\* A chunk that a roommate takes down is one that upstream has generated.
LEMMA WorkLimited == MicroInv => work \in [Roommate -> 0..MaxUp]
  <1> SUFFICES ASSUME MicroInv, NEW r \in Roommate, work[r] # 0
               PROVE  work[r] <= MaxUp
    BY MicroverseAssumption DEF MicroInv, WorkTyped
  <1> DEFINE c == work[r]
  <1>1. c \in Nat \ {0}
    BY DEF MicroInv, WorkTyped
  <1>2. <<r, 0>> \in OnItsWayDown(c)
    BY DownPlaces DEF DownPlacesKnown, AtWork
  <1> HIDE DEF c
  <1>3. c <= generated["up"]
    BY <1>1, <1>2 DEF MicroInv, DownOnce
  <1>4. generated["up"] <= MaxUp /\ generated["up"] \in Nat /\ MaxUp \in Nat
    BY MicroverseAssumption DEF MicroInv, UpLimited, Typed, ChunksTyped, Boundary
  <1> QED
    BY <1>1, <1>3, <1>4 DEF c

\* Every variable keeps its type, and with the bounds of a run its range.
THEOREM MicroTypeCorrect == MicroSpec => []MicroTypeOK
  <1>1. MicroInv => MicroTypeOK
    BY WorkLimited DEF MicroInv, MicroTypeOK, Typed, RoomsTyped, PartsTyped, Parts,
       NumbersTyped, DownTyped
  <1> QED
    BY <1>1, MicroInvHolds, PTL

\* Neither direction loses or repeats a chunk while the tunnel runs, and a stop
\* repeats none.
THEOREM ChunksCorrect == MicroSpec => []ChunksConserved
  <1>1. ASSUME NEW S, AtMostOne(S), NEW P, P => S # {}
        PROVE  Cardinality(S) \in (IF P THEN {1} ELSE {0, 1})
    <2>1. CASE S = {}
      BY <1>1, <2>1, FS_EmptySet
    <2>2. CASE S # {}
      <3>1. PICK x : S = {x}
        BY <1>1, <2>2 DEF AtMostOne
      <3> QED
        BY <3>1, FS_Singleton
    <2> QED
      BY <2>1, <2>2
  <1>2. MicroInv => ChunksConserved
    <2> SUFFICES ASSUME MicroInv PROVE ChunksConserved
      OBVIOUS
    <2>1. \A b \in Boundary : \A c \in 1..generated[b] : c \in Nat \ {0} /\ c <= generated[b]
      BY DEF MicroInv, Typed, ChunksTyped
    <2>2. ASSUME NEW c \in 1..generated["dn"]
          PROVE  Cardinality(OnItsWayUp(c)) \in (IF TunnelRuns THEN {1} ELSE {0, 1})
      <3>1. AtMostOne(OnItsWayUp(c)) /\ (TunnelRuns => OnItsWayUp(c) # {})
        BY <2>1 DEF MicroInv, UpOnce, Boundary
      <3> QED
        BY <1>1, <3>1
    <2>3. ASSUME NEW c \in 1..generated["up"]
          PROVE  Cardinality(OnItsWayDown(c)) \in (IF TunnelRuns THEN {1} ELSE {0, 1})
      <3>1. AtMostOne(OnItsWayDown(c)) /\ (TunnelRuns => OnItsWayDown(c) # {})
        BY <2>1 DEF MicroInv, DownOnce, Boundary
      <3> QED
        BY <1>1, <3>1
    <2> QED
      BY <2>2, <2>3 DEF ChunksConserved
  <1> QED
    BY <1>2, MicroInvHolds, PTL
=============================================================================

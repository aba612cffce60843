----------------------------- MODULE Microverse -----------------------------
(***************************************************************************)
(* The whole tunnel in one process, as the reordering and shutdown tests   *)
(* run it (tun/microverse): a Chaser (ab.go), a LittlePoll (little.go) and *)
(* a Boundary (bound.go) at either end, joined by unbuffered channels.     *)
(* ab2lp and lp2ab stand for the HTTP exchange, and either roommate may    *)
(* take any reply.                                                         *)
(*                                                                         *)
(*   roommates   "top", "inner", "told", "depart" as in Chaser             *)
(*               "number"   DoRequestResponse, before the serial number    *)
(*               "request"  select ab2lp | reqStop                         *)
(*               "wait"     select lp2ab | reqStop                         *)
(*               "got"      has a reply, before the lock                   *)
(*               "arrive", "merge", "deliver", "done" as in Chaser         *)
(*   lp          "select"   the select of LittlePoll.Start                 *)
(*               "absorb"   select Absorb | reqStop                        *)
(*               "linger"   select Generate | 10 ms                        *)
(*               "answer"   sendReplyUpstream, select lp2ab | reqStop      *)
(*               "done"                                                    *)
(*   boundary    "loop"     its select                                     *)
(*               "gen"      Gen, select Generate | reqStop                 *)
(*               "done"                                                    *)
(*                                                                         *)
(* The roommate that has work, or a reply, and the place it is at make up  *)
(* one chunk's position; a chunk is the number of its Generate.            *)
(***************************************************************************)
EXTENDS ClientHome, Sequences, FiniteSets

CONSTANTS
  MaxUp, MaxDn,   \* chunks the boundaries generate on their timers (bounds)
  Forced      \* replies that SetReplySerialReordering renumbers

ASSUME MicroverseAssumption == {MaxUp, MaxDn, Forced} \subseteq Nat

Boundary == {"up", "dn"}

\* SetEcho: in the tests only the downstream boundary echoes what it absorbs.
Echoes == {"dn"}

\* The two orders in which the tests stop the four parts.
StopOrders == {<<"up", "ab", "lp", "dn">>, <<"dn", "lp", "ab", "up">>}

VARIABLES
  at, work, ser, by,            \* per roommate; ser is reqSer, then tryMe - 1
  nextSend, lastRecv, misorderedReplies,
  lp, waiting,                  \* LittlePoll's place, length of its FIFO
  lastReq, misorderedReqs, writeMe, nextReply, forceReplySn,
  reply,                        \* the answer that "answer" is sending
  bound, generated, absorbed,   \* per boundary
  reqStop, toStop               \* parts told to stop, parts yet to stop

roomVars  == <<at, work, ser, by>>
replyVars == <<nextSend, lastRecv, misorderedReplies>>
lpVars    == <<lp, waiting, lastReq, misorderedReqs, writeMe, nextReply,
               forceReplySn, reply>>
endVars   == <<bound, generated, absorbed>>
stopVars  == <<reqStop, toStop>>
microVars == <<homeVars, roomVars, replyVars, lpVars, endVars, stopVars>>

MicroInit ==
  /\ HomeInit
  /\ at = [r \in Roommate |-> "top"]
  /\ work = [r \in Roommate |-> NoChunk]
  /\ ser = [r \in Roommate |-> NoSerial]
  /\ by = [r \in Roommate |-> <<>>]
  /\ nextSend = 1 /\ lastRecv = 0 /\ misorderedReplies = <<>>
  /\ lp = "select" /\ waiting = 0
  /\ lastReq = 0 /\ misorderedReqs = <<>> /\ writeMe = <<>> /\ nextReply = 1
  /\ forceReplySn \in {f \in [1..Forced -> 1..Forced] :
                         \A i, j \in 1..Forced : f[i] = f[j] => i = j}
  /\ reply = [ser |-> NoSerial, body |-> NoChunk]
  /\ bound = [b \in Boundary |-> "loop"]
  /\ generated = [b \in Boundary |-> 0]
  /\ absorbed = [b \in Boundary |-> <<>>]
  /\ reqStop = {} /\ toStop = <<>>
-----------------------------------------------------------------------------
(***************************************************************************)
(* Boundaries.  Absorb and Generate have no buffer, so the partner's step  *)
(* conjoins one of these.                                                  *)
(***************************************************************************)

\* by := <-s.Absorb, and the echo if this end echoes
Absorbs(b, chunks) ==
  /\ bound[b] = "loop"
  /\ absorbed' = [absorbed EXCEPT ![b] = @ \o chunks]
  /\ bound' = [bound EXCEPT ![b] = IF b \in Echoes THEN "gen" ELSE "loop"]
  /\ UNCHANGED generated

\* s.Generate <- by
Generates(b) ==
  /\ bound[b] = "gen"
  /\ generated' = [generated EXCEPT ![b] = @ + 1]
  /\ bound' = [bound EXCEPT ![b] = "loop"]
  /\ UNCHANGED absorbed

Generated(b) == generated[b] + 1

\* <-genTimer.C
GenTimerFires(b) ==
  /\ bound[b] = "loop" /\ generated[b] < (IF b = "up" THEN MaxUp ELSE MaxDn)
  /\ bound' = [bound EXCEPT ![b] = "gen"]
  /\ UNCHANGED <<homeVars, roomVars, replyVars, lpVars, generated, absorbed,
                 stopVars>>

\* Mutated BoundaryQuits: Gen does not look at reqStop.
BoundaryQuitsInLoop(b) ==
  /\ b \in reqStop /\ bound[b] = "loop"
  /\ bound' = [bound EXCEPT ![b] = "done"]
  /\ UNCHANGED <<homeVars, roomVars, replyVars, lpVars, generated, absorbed,
                 stopVars>>

\* case <-s.reqStop, in the loop and in Gen
BoundaryQuits(b) ==
  /\ b \in reqStop /\ bound[b] # "done"
  /\ bound' = [bound EXCEPT ![b] = "done"]
  /\ UNCHANGED <<homeVars, roomVars, replyVars, lpVars, generated, absorbed,
                 stopVars>>
-----------------------------------------------------------------------------
(***************************************************************************)
(* Alpha and beta at home.                                                 *)
(***************************************************************************)

Move(r, place) == at' = [at EXCEPT ![r] = place]

\* goNow = <-s.home.shouldAlphaGoNow
AskHome(r) ==
  /\ at[r] = "top" /\ homeUp
  /\ Move(r, IF goCached[r] THEN "depart" ELSE "inner")
  /\ UNCHANGED <<homeVars, work, ser, by, replyVars, lpVars, endVars, stopVars>>

\* work = <-s.incoming, in the inner select or after the tell
TakeIncoming(r) ==
  /\ at[r] \in {"inner", "told"}
  /\ Generates("up")
  /\ work' = [work EXCEPT ![r] = Generated("up")]
  /\ Move(r, "depart")
  /\ UNCHANGED <<homeVars, ser, by, replyVars, lpVars, stopVars>>

\* default: upstream is not blocked in its send, or not yet
NoneIncoming(r) ==
  /\ at[r] = "told"
  /\ Move(r, "depart")
  /\ UNCHANGED <<homeVars, work, ser, by, replyVars, lpVars, endVars, stopVars>>

LeaveHome(r) ==
  /\ at[r] = "depart"
  /\ Departs(r)
  /\ Move(r, "number")
  /\ UNCHANGED <<work, ser, by, replyVars, lpVars, endVars, stopVars>>

\* The tell reaches the other one only if it is already blocked in "inner".
ComeHome(r) ==
  /\ at[r] = "arrive"
  /\ Arrives(r)
  /\ \E told \in SUBSET SentOut(r, [o \in Roommate |-> at[o] = "inner"]) :
       at' = [o \in Roommate |->
                CASE o = r -> IF by[r] = <<>> THEN "top" ELSE "merge"
                  [] o \in told -> "told"
                  [] OTHER -> at[o]]
  /\ UNCHANGED <<work, ser, by, replyVars, lpVars, endVars, stopVars>>

\* Mutated Taken: the reply stays in the map.
NotTaken(n) == misorderedReplies

\* delete(s.misorderedReplies, tryMe)
Taken(n) ==
  [m \in DOMAIN misorderedReplies \ {n} |-> misorderedReplies[m]]

\* addIfPresent found tryMe.
AddsPresent(r) ==
  /\ at[r] = "merge" /\ ser[r] + 1 \in DOMAIN misorderedReplies
  /\ by' = [by EXCEPT ![r] = Append(@, misorderedReplies[ser[r] + 1])]
  /\ misorderedReplies' = Taken(ser[r] + 1)
  /\ lastRecv' = ser[r] + 1
  /\ ser' = [ser EXCEPT ![r] = @ + 1]
  /\ UNCHANGED <<homeVars, at, work, nextSend, lpVars, endVars, stopVars>>

AddsNoMore(r) ==
  /\ at[r] = "merge" /\ ser[r] + 1 \notin DOMAIN misorderedReplies
  /\ Move(r, "deliver")
  /\ ser' = [ser EXCEPT ![r] = NoSerial]
  /\ UNCHANGED <<homeVars, work, by, replyVars, lpVars, endVars, stopVars>>

\* s.repliesHere <- sendMe
DeliverUp(r) ==
  /\ at[r] = "deliver"
  /\ Absorbs("up", by[r])
  /\ by' = [by EXCEPT ![r] = <<>>]
  /\ Move(r, "top")
  /\ UNCHANGED <<homeVars, work, ser, replyVars, lpVars, stopVars>>

\* case <-s.reqStop of the selects of startAlpha and startBeta
RoommateQuits(r) ==
  /\ "ab" \in reqStop
  /\ at[r] \in {"top", "inner", "deliver"}
  /\ Move(r, "done")
  /\ by' = [by EXCEPT ![r] = <<>>]
  /\ UNCHANGED <<homeVars, work, ser, replyVars, lpVars, endVars, stopVars>>

\* <-s.inactiveTimer.C, which alpha has; <-s.alphaDone, <-s.betaDone
RoommateEnds(r) ==
  /\ at[r] = "inner"
  /\ r = "alpha" \/ at[Other(r)] = "done"
  /\ Move(r, "done")
  /\ UNCHANGED <<homeVars, work, ser, by, replyVars, lpVars, endVars, stopVars>>
-----------------------------------------------------------------------------
(***************************************************************************)
(* DoRequestResponse.                                                      *)
(***************************************************************************)

\* reqSer: only a request with a body gets a number.
NumberRequest(r) ==
  /\ at[r] = "number"
  /\ IF work[r] = NoChunk
       THEN UNCHANGED <<ser, nextSend>>
       ELSE /\ ser' = [ser EXCEPT ![r] = nextSend]
            /\ nextSend' = nextSend + 1
  /\ Move(r, "request")
  /\ UNCHANGED <<homeVars, work, by, lastRecv, misorderedReplies, lpVars,
                 endVars, stopVars>>

\* case <-s.reqStop: both selects return no bytes and no error, so that the
\* roommate goes home as after an empty reply.
AbandonRequest(r) ==
  /\ "ab" \in reqStop /\ at[r] \in {"request", "wait"}
  /\ Move(r, "arrive")
  /\ work' = [work EXCEPT ![r] = NoChunk]
  /\ ser' = [ser EXCEPT ![r] = NoSerial]
  /\ UNCHANGED <<homeVars, by, replyVars, lpVars, endVars, stopVars>>

\* Mutated InTurn: off by one.
LastAgain(n) == n = lastRecv

InTurn(n) == n = lastRecv + 1

\* Under the lock: the next reply counts, a later one is kept, and back is
\* emptied, for its predecessor to find.
JudgeReply(r) ==
  /\ at[r] = "got"
  /\ CASE by[r] = <<>> -> UNCHANGED <<by, lastRecv, misorderedReplies>>
       [] by[r] # <<>> /\ InTurn(ser[r]) ->
            lastRecv' = ser[r] /\ UNCHANGED <<by, misorderedReplies>>
       [] OTHER ->
            /\ misorderedReplies' =
                 [n \in DOMAIN misorderedReplies \cup {ser[r]} |->
                    IF n = ser[r] THEN by[r][1] ELSE misorderedReplies[n]]
            /\ by' = [by EXCEPT ![r] = <<>>]
            /\ UNCHANGED lastRecv
  /\ ser' = [ser EXCEPT ![r] = IF by'[r] = <<>> THEN NoSerial ELSE @]
  /\ Move(r, "arrive")
  /\ UNCHANGED <<homeVars, work, nextSend, lpVars, endVars, stopVars>>
-----------------------------------------------------------------------------
(***************************************************************************)
(* LittlePoll.                                                             *)
(***************************************************************************)

\* getReplySerial, with the numbers a test may force
ReplySerial == IF nextReply \in DOMAIN forceReplySn THEN forceReplySn[nextReply]
                                                    ELSE nextReply

\* sendReplyUpstream up to its select: pops the oldest waiter.
StartReply(held, body) ==
  /\ held > 0
  /\ waiting' = held - 1
  /\ lp' = "answer"
  /\ reply' = [ser |-> IF body = NoChunk THEN NoSerial ELSE ReplySerial,
               body |-> body]
  /\ nextReply' = IF body = NoChunk THEN nextReply ELSE nextReply + 1

\* <-longPollTimeUp.C; with nobody waiting it does nothing and is left out.
LpTimeUp ==
  /\ lp = "select" /\ StartReply(waiting, NoChunk)
  /\ UNCHANGED <<homeVars, roomVars, replyVars, lastReq, misorderedReqs,
                 writeMe, forceReplySn, endVars, stopVars>>

\* b500 := <-s.down.Generate, listened for only if somebody waits
LpFromDown ==
  /\ lp = "select" /\ Generates("dn")
  /\ StartReply(waiting, Generated("dn"))
  /\ UNCHANGED <<homeVars, roomVars, replyVars, lastReq, misorderedReqs,
                 writeMe, forceReplySn, stopVars>>

\* The last number of the run, without a gap, of those stored from n + 1 on;
\* and the bodies of that run.
LastFollowing(n) == CHOOSE m \in {n} \cup DOMAIN misorderedReqs :
                      /\ (n + 1)..m \subseteq DOMAIN misorderedReqs
                      /\ m + 1 \notin DOMAIN misorderedReqs

Following(n) == [i \in 1..(LastFollowing(n) - n) |-> misorderedReqs[n + i]]

\* pack = <-s.ab2lp: stored if it comes too early (the panics on a number
\* seen before are PanicHasCause's matter in LongPoller), else sent down with
\* all that follow it.
LpTake(r) ==
  /\ lp = "select" /\ at[r] = "request"
  /\ Move(r, "wait")
  /\ waiting' = waiting + 1
  /\ CASE ser[r] = NoSerial ->
            lp' = "linger" /\ UNCHANGED <<lastReq, misorderedReqs, writeMe>>
       [] ser[r] = lastReq + 1 ->
            /\ writeMe' = <<work[r]>> \o Following(ser[r])
            /\ lastReq' = LastFollowing(ser[r])
            /\ misorderedReqs' = [n \in {m \in DOMAIN misorderedReqs :
                                           m > lastReq'} |-> misorderedReqs[n]]
            /\ lp' = "absorb"
       [] OTHER ->
            /\ misorderedReqs' =
                 [n \in DOMAIN misorderedReqs \cup {ser[r]} |->
                    IF n = ser[r] THEN work[r] ELSE misorderedReqs[n]]
            /\ lp' = "linger"
            /\ UNCHANGED <<lastReq, writeMe>>
  /\ work' = [work EXCEPT ![r] = NoChunk]
  /\ ser' = [ser EXCEPT ![r] = NoSerial]
  /\ UNCHANGED <<homeVars, by, replyVars, nextReply, forceReplySn, reply,
                 endVars, stopVars>>

\* case s.down.Absorb <- writeMe
LpToDown ==
  /\ lp = "absorb" /\ Absorbs("dn", writeMe)
  /\ lp' = "linger" /\ writeMe' = <<>>
  /\ UNCHANGED <<homeVars, roomVars, replyVars, waiting, lastReq,
                 misorderedReqs, nextReply, forceReplySn, reply, stopVars>>

\* case <-s.reqStop, *not* returning
LpDropsWork ==
  /\ lp = "absorb" /\ "lp" \in reqStop
  /\ lp' = "linger" /\ writeMe' = <<>>
  /\ UNCHANGED <<homeVars, roomVars, replyVars, waiting, lastReq,
                 misorderedReqs, nextReply, forceReplySn, reply, endVars,
                 stopVars>>

\* b500 := <-s.down.Generate within the 10 ms
LpLingers ==
  /\ lp = "linger" /\ Generates("dn")
  /\ StartReply(waiting, Generated("dn"))
  /\ UNCHANGED <<homeVars, roomVars, replyVars, lastReq, misorderedReqs,
                 writeMe, forceReplySn, stopVars>>

\* waiters.Len() > 1
MustBump == waiting > 1

\* <-time.After(10 ms)
LpMovesOn ==
  /\ lp = "linger"
  /\ IF MustBump
       THEN StartReply(waiting, NoChunk)
       ELSE lp' = "select" /\ UNCHANGED <<waiting, reply, nextReply>>
  /\ UNCHANGED <<homeVars, roomVars, replyVars, lastReq, misorderedReqs,
                 writeMe, forceReplySn, endVars, stopVars>>

\* case s.lp2ab <- oldest, taken by either roommate
LpAnswers(r) ==
  /\ lp = "answer" /\ at[r] = "wait"
  /\ Move(r, "got")
  /\ ser' = [ser EXCEPT ![r] = reply.ser]
  /\ by' = [by EXCEPT ![r] = IF reply.body = NoChunk THEN <<>> ELSE <<reply.body>>]
  /\ lp' = "select"
  /\ reply' = [ser |-> NoSerial, body |-> NoChunk]
  /\ UNCHANGED <<homeVars, work, replyVars, waiting, lastReq, misorderedReqs,
                 writeMe, nextReply, forceReplySn, endVars, stopVars>>

\* case <-s.reqStop, in the loop and in sendReplyUpstream
LpQuits ==
  /\ "lp" \in reqStop /\ lp \in {"select", "answer"}
  /\ lp' = "done"
  /\ UNCHANGED <<homeVars, roomVars, replyVars, waiting, lastReq,
                 misorderedReqs, writeMe, nextReply, forceReplySn, reply,
                 endVars, stopVars>>
-----------------------------------------------------------------------------
(***************************************************************************)
(* The end of a test: Stop of each part in turn.                           *)
(***************************************************************************)

Ended(part) ==
  CASE part = "ab" -> \A r \in Roommate : at[r] = "done"
    [] part = "lp" -> lp = "done"
    [] OTHER -> bound[part] = "done"

StopAll ==
  /\ reqStop = {}
  /\ toStop' \in StopOrders
  /\ reqStop' = {Head(toStop')}
  /\ UNCHANGED <<homeVars, roomVars, replyVars, lpVars, endVars>>

\* Stop of the first part returns; the Stop of a Chaser ends its home last.
StopNext ==
  /\ toStop # <<>> /\ Ended(Head(toStop))
  /\ toStop' = Tail(toStop)
  /\ reqStop' = IF Tail(toStop) = <<>> THEN reqStop
                ELSE reqStop \cup {Head(Tail(toStop))}
  /\ IF Head(toStop) = "ab" THEN HomeStops ELSE UNCHANGED homeVars
  /\ UNCHANGED <<roomVars, replyVars, lpVars, endVars>>

RoomStep(r) ==
  \/ AskHome(r) \/ TakeIncoming(r) \/ NoneIncoming(r) \/ LeaveHome(r)
  \/ ComeHome(r) \/ AddsPresent(r) \/ AddsNoMore(r) \/ DeliverUp(r)
  \/ NumberRequest(r) \/ AbandonRequest(r) \/ JudgeReply(r)

LpStep ==
  \/ LpTimeUp \/ LpFromDown \/ LpToDown \/ LpDropsWork \/ LpLingers \/ LpMovesOn
  \/ \E r \in Roommate : LpTake(r) \/ LpAnswers(r)

MicroNext ==
  \/ \E r \in Roommate : RoomStep(r) \/ RoommateQuits(r) \/ RoommateEnds(r)
  \/ LpStep \/ LpQuits
  \/ \E b \in Boundary : GenTimerFires(b) \/ BoundaryQuits(b)
  \/ StopAll \/ StopNext

MicroSpec == MicroInit /\ [][MicroNext]_microVars

\* Everything that ends a goroutine on reqStop, each once, so that strong
\* fairness of the disjunction is that of each.
MicroQuits ==
  \/ \E r \in Roommate : RoommateQuits(r)
  \/ LpQuits
  \/ \E b \in Boundary : BoundaryQuits(b)

-----------------------------------------------------------------------------
(***************************************************************************)
(* Properties.                                                             *)
(***************************************************************************)

Places == {"top", "inner", "told", "depart", "number", "request", "wait", "got",
           "arrive", "merge", "deliver", "done"}

MicroTypeOK ==
  /\ at \in [Roommate -> Places]
  /\ work \in [Roommate -> 0..MaxUp] /\ ser \in [Roommate -> Nat \cup {NoSerial}]
  /\ lp \in {"select", "absorb", "linger", "answer", "done"}
  /\ {nextSend, lastRecv, waiting, lastReq, nextReply} \subseteq Nat
  /\ bound \in [Boundary -> {"loop", "gen", "done"}]
  /\ reqStop \subseteq Boundary \cup {"ab", "lp"}

TunnelRuns == reqStop \cap {"ab", "lp"} = {}

\* Where a chunk from the downstream end, or from the upstream end, is.
OnItsWayUp(c) ==
  {<<"absorbed", i>> : i \in {j \in DOMAIN absorbed["up"] : absorbed["up"][j] = c}}
    \cup (UNION {{<<r, i>> : i \in {j \in DOMAIN by[r] : by[r][j] = c}} : r \in Roommate})
    \cup {<<"kept", n>> : n \in {m \in DOMAIN misorderedReplies :
                                   misorderedReplies[m] = c}}
    \cup {<<"reply", n>> : n \in {m \in {reply.ser} : reply.body = c}}

OnItsWayDown(c) ==
  {<<"absorbed", i>> : i \in {j \in DOMAIN absorbed["dn"] : absorbed["dn"][j] = c}}
    \cup {<<r, 0>> : r \in {q \in Roommate : work[q] = c}}
    \cup {<<"kept", n>> : n \in {m \in DOMAIN misorderedReqs : misorderedReqs[m] = c}}
    \cup {<<"write", i>> : i \in {j \in DOMAIN writeMe : writeMe[j] = c}}

\* What one end generates is at one place, or absorbed once, at the other end:
\* neither the two goroutines that share the serial numbers and the stored
\* replies, nor the storing of requests, lose or repeat a chunk, whatever
\* numbers the replies get.  A stop may lose chunks but repeats none.  The
\* tests compare the counts of generated and absorbed chunks.
ChunksConserved ==
  /\ \A c \in 1..generated["dn"] :
       Cardinality(OnItsWayUp(c)) \in (IF TunnelRuns THEN {1} ELSE {0, 1})
  /\ \A c \in 1..generated["up"] :
       Cardinality(OnItsWayDown(c)) \in (IF TunnelRuns THEN {1} ELSE {0, 1})

\* A stored reply whose turn has come is not forgotten: the roommate that
\* brought its predecessor has yet to look for it.  Alpha and beta store and
\* look under the lock, but not in one critical section.
NoneStranded ==
  lastRecv + 1 \in DOMAIN misorderedReplies =>
    \E r \in Roommate : /\ at[r] \in {"arrive", "merge"}
                        /\ by[r] # <<>> /\ ser[r] = lastRecv

\* Where a shutdown leads to, in either order of the tests: each Stop returns,
\* though any part may be blocked on one that has ended.
ShutdownOver == toStop = <<>>
=============================================================================

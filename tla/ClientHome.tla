----------------------------- MODULE ClientHome -----------------------------
(***************************************************************************)
(* ClientHome (tun/alphabeta.go): the goroutine that knows which of alpha  *)
(* and beta is at home and says who has to go.  All of its channels are    *)
(* unbuffered, so each operation below is one iteration of its select loop *)
(* taken together with the goroutine at the other end of the channel; the  *)
(* module Chaser conjoins them with that goroutine's step.                 *)
(*                                                                         *)
(* Left out: lastHome (written, never read), the IsAlphaHome / IsBetaHome  *)
(* queries and localWishesToSend (a latency study that no caller uses).    *)
(***************************************************************************)
EXTENDS Wire

VARIABLES
  home,       \* home[r]: alphaHome, betaHome
  goCached,   \* goCached[r]: shouldAlphaGoCached, shouldBetaGoCached
  homeUp      \* FALSE once the loop has returned and closed Done

homeVars == <<home, goCached, homeUp>>

HomeTypeOK ==
  /\ home \in [Roommate -> BOOLEAN]
  /\ goCached \in [Roommate -> BOOLEAN]
  /\ homeUp \in BOOLEAN

\* shouldAlphaGo and shouldBetaGo: a tie sends alpha, never beta.
shouldGo(h) == [r \in Roommate |-> r = "alpha" /\ \A o \in Roommate : h[o]]

HomeInit ==
  /\ home = [r \in Roommate |-> TRUE]
  /\ goCached = [r \in Roommate |-> r = "alpha"]
  /\ homeUp = TRUE

\* Mutated Departs: the two cases of the loop clear each other's flag.
DepartsOther(r) ==
  /\ homeUp
  /\ home' = [home EXCEPT ![Other(r)] = FALSE]
  /\ goCached' = shouldGo(home')
  /\ UNCHANGED homeUp

\* alphaDepartsHome, betaDepartsHome
Departs(r) ==
  /\ homeUp
  /\ home' = [home EXCEPT ![r] = FALSE]
  /\ goCached' = shouldGo(home')
  /\ UNCHANGED homeUp

\* alphaArrivesHome, betaArrivesHome, apart from the word to the other one
Arrives(r) ==
  /\ homeUp
  /\ home' = [home EXCEPT ![r] = TRUE]
  /\ goCached' = shouldGo(home')
  /\ UNCHANGED homeUp

\* The roommates the arrival of r sends out: tellAlphaToGo / tellBetaToGo is a
\* send in a select with a default, it succeeds only if the other one is home
\* and already blocked in the select that receives it.
SentOut(r, blocked) == {o \in {Other(r)} : home[o] /\ blocked[o]}

\* reqStop
HomeStops ==
  /\ homeUp
  /\ homeUp' = FALSE
  /\ UNCHANGED <<home, goCached>>
=============================================================================

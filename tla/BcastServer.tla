----------------------------- MODULE BcastServer -----------------------------
(***************************************************************************)
(* The broadcast client and server of the tests (tun/bcast.go): the server *)
(* collects connections and Bcast writes one message to each of them, as   *)
(* an answer to a long poll.                                               *)
(*                                                                         *)
(*   hearer     a client: "off", "reads", "done", "eof" (returned without  *)
(*              closing Done)                                              *)
(*   listed     its connection: "no", "backlog", "waiting" (in r.waiting), *)
(*              "closed" (by CloseClientConnections)                       *)
(***************************************************************************)
EXTENDS Naturals, FiniteSets

CONSTANTS Hearer, MaxBcasts   \* MaxBcasts bounds the calls of Bcast

ASSUME BcastAssumption == MaxBcasts \in Nat

VARIABLES
  hearer, listed,               \* per client
  unread, lastMsg,              \* messages: under way; in its last read
  sending, bcasts,              \* whom Bcast has yet to write to; its calls
  hearerStop, bcastDown,
  bcastBroken                   \* somebody has panicked

bcastVars == <<hearer, listed, unread, lastMsg, sending, bcasts, hearerStop,
               bcastDown, bcastBroken>>

BcastTypeOK ==
  /\ hearer \in [Hearer -> {"off", "reads", "done", "eof"}]
  /\ listed \in [Hearer -> {"no", "backlog", "waiting", "closed"}]
  /\ unread \in [Hearer -> 0..MaxBcasts] /\ lastMsg \in [Hearer -> 0..MaxBcasts]
  /\ sending \subseteq Hearer /\ bcasts \in 0..MaxBcasts
  /\ hearerStop \subseteq Hearer
  /\ {bcastDown, bcastBroken} \subseteq BOOLEAN

BcastInit ==
  /\ hearer = [c \in Hearer |-> "off"] /\ listed = [c \in Hearer |-> "no"]
  /\ unread = [c \in Hearer |-> 0] /\ lastMsg = [c \in Hearer |-> 0]
  /\ sending = {} /\ bcasts = 0 /\ hearerStop = {}
  /\ bcastDown = FALSE /\ bcastBroken = FALSE
-----------------------------------------------------------------------------
StartsHearer(c) ==
  /\ hearer[c] = "off" /\ ~bcastDown
  /\ hearer' = [hearer EXCEPT ![c] = "reads"]
  /\ listed' = [listed EXCEPT ![c] = "backlog"]
  /\ UNCHANGED <<unread, lastMsg, sending, bcasts, hearerStop, bcastDown,
                 bcastBroken>>

\* net.Dial fails, as nobody listens any more, and the client panics.
HearerRefused(c) ==
  /\ hearer[c] = "off" /\ bcastDown
  /\ bcastBroken' = TRUE
  /\ UNCHANGED <<hearer, listed, unread, lastMsg, sending, bcasts, hearerStop,
                 bcastDown>>

\* r.waiting = append(r.waiting, conn); the goroutine that then reads from
\* the connection only notes the first hello.
ListsHearer(c) ==
  /\ listed[c] = "backlog" /\ ~bcastDown
  /\ listed' = [listed EXCEPT ![c] = "waiting"]
  /\ UNCHANGED <<hearer, unread, lastMsg, sending, bcasts, hearerStop, bcastDown,
                 bcastBroken>>

\* Bcast ranges over the connections there are now.
BcastBegins ==
  /\ sending = {} /\ bcasts < MaxBcasts
  /\ bcasts' = bcasts + 1
  /\ sending' = {c \in Hearer : listed[c] = "waiting"}
  /\ UNCHANGED <<hearer, listed, unread, lastMsg, hearerStop, bcastDown,
                 bcastBroken>>

\* A write to a client that has gone may fail, and Bcast then panics.
BcastWrites(c) ==
  /\ c \in sending
  /\ sending' = sending \ {c}
  /\ \/ unread' = [unread EXCEPT ![c] = IF hearer[c] = "reads" THEN @ + 1 ELSE @]
        /\ UNCHANGED bcastBroken
     \/ hearer[c] # "reads" /\ bcastBroken' = TRUE /\ UNCHANGED unread
  /\ UNCHANGED <<hearer, listed, lastMsg, bcasts, hearerStop, bcastDown>>

\* A read returns all there is, so that two messages may look like one.
Hears(c) ==
  /\ hearer[c] = "reads" /\ unread[c] > 0
  /\ lastMsg' = [lastMsg EXCEPT ![c] = unread[c]]
  /\ unread' = [unread EXCEPT ![c] = 0]
  /\ hearer' = [hearer EXCEPT ![c] = IF c \in hearerStop THEN "done" ELSE @]
  /\ UNCHANGED <<listed, sending, bcasts, hearerStop, bcastDown, bcastBroken>>

\* A read times out after 100 ms, and the client is told to stop.
HearerQuits(c) ==
  /\ hearer[c] = "reads" /\ c \in hearerStop
  /\ ~(listed[c] = "closed" /\ unread[c] = 0)
  /\ hearer' = [hearer EXCEPT ![c] = "done"]
  /\ unread' = [unread EXCEPT ![c] = 0]
  /\ UNCHANGED <<listed, lastMsg, sending, bcasts, hearerStop, bcastDown,
                 bcastBroken>>

\* EOF: the client returns at once; a reset: it panics.
HearerMeetsEof(c) ==
  /\ hearer[c] = "reads" /\ listed[c] = "closed" /\ unread[c] = 0
  /\ \/ hearer' = [hearer EXCEPT ![c] = "eof"] /\ UNCHANGED bcastBroken
     \/ bcastBroken' = TRUE /\ UNCHANGED hearer
  /\ UNCHANGED <<listed, unread, lastMsg, sending, bcasts, hearerStop, bcastDown>>

CloseClientConnections ==
  /\ sending = {}
  /\ listed' = [c \in Hearer |-> IF listed[c] = "waiting" THEN "closed"
                                 ELSE listed[c]]
  /\ UNCHANGED <<hearer, unread, lastMsg, sending, bcasts, hearerStop, bcastDown,
                 bcastBroken>>

StopsHearer(c) ==
  /\ hearer[c] # "off" /\ c \notin hearerStop
  /\ hearerStop' = hearerStop \cup {c}
  /\ UNCHANGED <<hearer, listed, unread, lastMsg, sending, bcasts, bcastDown,
                 bcastBroken>>

\* Stop closes the listener; whoever is not accepted yet is reset.
StopsBcastServer ==
  /\ ~bcastDown /\ bcastDown' = TRUE
  /\ listed' = [c \in Hearer |-> IF listed[c] = "backlog" THEN "closed"
                                 ELSE listed[c]]
  /\ UNCHANGED <<hearer, unread, lastMsg, sending, bcasts, hearerStop, bcastBroken>>

HearerStep(c) == Hears(c) \/ HearerQuits(c) \/ HearerMeetsEof(c)

BcastStep == \E c \in Hearer : BcastWrites(c) \/ HearerStep(c)

BcastNext ==
  /\ ~bcastBroken
  /\ \/ BcastStep \/ BcastBegins \/ CloseClientConnections \/ StopsBcastServer
     \/ \E c \in Hearer : \/ StartsHearer(c) \/ HearerRefused(c)
                          \/ ListsHearer(c) \/ StopsHearer(c)
-----------------------------------------------------------------------------
(***************************************************************************)
(* What ends (of one client; unless the test has panicked).                *)
(***************************************************************************)

\* Whoever waits when Bcast is called hears it, unless it stops, Bcast panics
\* on one that has gone, or a client on a reset.
NothingUnheard == bcastBroken \/ \A c \in Hearer : c \notin sending /\ unread[c] = 0

\* Stop of a client returns, unless it met the end of its connection.
HearersStop ==
  bcastBroken \/ \A c \in hearerStop : hearer[c] \in {"done", "eof"}
=============================================================================

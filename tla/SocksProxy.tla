----------------------------- MODULE SocksProxy -----------------------------
(***************************************************************************)
(* The client program around its Chasers (tun/client.go): the loop of      *)
(* PelicanSocksProxy.Start, which owns the map of Chasers, the accept loop *)
(* of its TcpUpstreamReceiver, the callers of Stop and of                  *)
(* CountOfOpenClients or LastRemote, and each Chaser as its owner sees it  *)
(* (the module Chaser has the inside).  All channels are unbuffered.       *)
(*                                                                         *)
(*   owner     "loop"    the select                                        *)
(*             "create"  the POST to /create                               *)
(*             "stopOne" in Stop of a Chaser that has reported             *)
(*             "stopUp"  waiting for the receiver; "stopAll" the range loop*)
(*             "done", "panicked"                                          *)
(*   receiver  "check", "accept", "offer" (select send | reqStop), "done"  *)
(*   chaser    "none", "creating" (the owner waits for a key), "live",     *)
(*             "report" (select notifyDone | a second), "lost" (ended, the *)
(*             owner not told), "heard" (ended, told), "stopped"           *)
(*   socket    the upstream connection: "none", "backlog", "offered" (the  *)
(*             receiver has it), "open", "closed", "reset" (by the kernel, *)
(*             never accepted)                                             *)
(***************************************************************************)
EXTENDS Naturals

CONSTANT Conn   \* upstream connections

VARIABLES
  owner, chasers,
  receiver,
  chaser, socket,               \* per connection
  unanswered,                   \* the server will not answer this POST
  stopAsked, upStop,            \* reqStop of the proxy, of the receiver
  query                         \* a caller of CountOfOpenClients waits

ownerVars == <<owner, chasers, unanswered>>
upVars    == <<receiver, upStop>>
connVars  == <<chaser, socket>>
socksVars == <<ownerVars, upVars, connVars, stopAsked, query>>

SocksTypeOK ==
  /\ owner \in {"loop", "create", "stopOne", "stopUp", "stopAll", "done",
                "panicked"}
  /\ chasers \subseteq Conn
  /\ receiver \in {"check", "accept", "offer", "done"}
  /\ chaser \in [Conn -> {"none", "creating", "live", "report", "lost", "heard",
                         "stopped"}]
  /\ socket \in [Conn -> {"none", "backlog", "offered", "open", "closed",
                         "reset"}]
  /\ {unanswered, stopAsked, upStop, query} \subseteq BOOLEAN

SocksInit ==
  /\ owner = "loop" /\ chasers = {}
  /\ receiver = "check"
  /\ chaser = [c \in Conn |-> "none"]
  /\ socket = [c \in Conn |-> "none"]
  /\ unanswered = FALSE /\ stopAsked = FALSE /\ upStop = FALSE /\ query = FALSE
-----------------------------------------------------------------------------
(***************************************************************************)
(* TcpUpstreamReceiver.                                                    *)
(***************************************************************************)

\* if r.IsStopRequested() { return }
ReceiverChecks ==
  /\ receiver = "check"
  /\ receiver' = IF upStop THEN "done" ELSE "accept"
  /\ UNCHANGED <<ownerVars, upStop, connVars, stopAsked, query>>

\* conn, err := r.lsn.Accept(), until Stop has closed the listener
Accept(c) ==
  /\ receiver = "accept" /\ ~upStop
  /\ socket[c] = "backlog"
  /\ socket' = [socket EXCEPT ![c] = "offered"]
  /\ receiver' = "offer"
  /\ UNCHANGED <<ownerVars, upStop, chaser, stopAsked, query>>

\* Accept fails: the listener is closed, or once in a while for another reason.
AcceptFails ==
  /\ receiver = "accept"
  /\ receiver' = IF upStop THEN "done" ELSE "check"
  /\ UNCHANGED <<ownerVars, upStop, connVars, stopAsked, query>>

\* case <-r.reqStop: the connection in hand is neither sent nor closed.
OfferAbandoned(c) ==
  /\ upStop /\ socket[c] = "offered"
  /\ socket' = [socket EXCEPT ![c] = "open"]
  /\ receiver' = "done"
  /\ UNCHANGED <<ownerVars, upStop, chaser, stopAsked, query>>
-----------------------------------------------------------------------------
(***************************************************************************)
(* The owner's loop.                                                       *)
(***************************************************************************)

\* case upConn = <-f.Up.UpstreamTcpConnChan, as far as the POST, whose server
\* may never answer: http.Post has no timeout.
TakeConn(c) ==
  /\ owner = "loop" /\ socket[c] = "offered"
  /\ socket' = [socket EXCEPT ![c] = "open"]
  /\ chaser' = [chaser EXCEPT ![c] = "creating"]
  /\ owner' = "create" /\ unanswered' \in BOOLEAN
  /\ receiver' = "check"
  /\ UNCHANGED <<chasers, upStop, stopAsked, query>>

\* Mutated Kept: the map is not updated.
NotKept(c) == chasers

\* f.chasers[chaser] = true
Kept(c) == chasers \cup {c}

\* The POST returns a key.
StartChaser(c) ==
  /\ chaser[c] = "creating" /\ ~unanswered
  /\ chaser' = [chaser EXCEPT ![c] = "live"]
  /\ chasers' = Kept(c)
  /\ owner' = "loop"
  /\ UNCHANGED <<unanswered, upVars, socket, stopAsked, query>>

\* It returns an error.
CreateFails(c) ==
  /\ chaser[c] = "creating" /\ ~unanswered
  /\ socket' = [socket EXCEPT ![c] = "closed"]
  /\ chaser' = [chaser EXCEPT ![c] = "none"]
  /\ owner' = "loop"
  /\ UNCHANGED <<chasers, unanswered, upVars, stopAsked, query>>

\* case f.OpenClientReq <- len(f.chasers), f.LastRemoteReq <- f.lastRemote
AnswerQuery ==
  /\ owner = "loop" /\ query
  /\ query' = FALSE
  /\ UNCHANGED <<ownerVars, upVars, connVars, stopAsked>>

\* case thisChaserIsDone := <-f.ChaserDoneCh
HearChaser(c) ==
  /\ owner = "loop" /\ chaser[c] = "report"
  /\ chaser' = [chaser EXCEPT ![c] = "heard"]
  /\ IF c \in chasers
       THEN owner' = "stopOne" /\ chasers' = chasers \ {c}
       ELSE owner' = "panicked" /\ UNCHANGED chasers
  /\ UNCHANGED <<unanswered, upVars, socket, stopAsked, query>>

\* thisChaserIsDone.Stop() returns.
StopHeard(c) ==
  /\ owner = "stopOne" /\ chaser[c] = "heard"
  /\ chaser' = [chaser EXCEPT ![c] = "stopped"]
  /\ socket' = [socket EXCEPT ![c] = "closed"]
  /\ owner' = "loop"
  /\ UNCHANGED <<chasers, unanswered, upVars, stopAsked, query>>

\* case <-f.reqStop: f.Up.Stop() closes the listener; whoever is in its
\* backlog is reset.
OwnerQuits ==
  /\ owner = "loop" /\ stopAsked
  /\ owner' = "stopUp" /\ upStop' = TRUE
  /\ socket' = [c \in Conn |-> IF socket[c] = "backlog" THEN "reset" ELSE socket[c]]
  /\ UNCHANGED <<chasers, unanswered, receiver, chaser, stopAsked, query>>

\* <-r.Done
UpStopped ==
  /\ owner = "stopUp" /\ receiver = "done"
  /\ owner' = "stopAll"
  /\ UNCHANGED <<chasers, unanswered, upVars, connVars, stopAsked, query>>

\* Mutated AllStopped: f.chasers is not looked at again.
NeverAnyChaser == TRUE

AllStopped == chasers = {}

\* reader.StopWithoutReporting() returns, which needs alpha: not while alpha
\* still tries to report.
StopOneOf(c) ==
  /\ owner = "stopAll" /\ c \in chasers
  /\ chaser[c] \in {"live", "lost"}
  /\ chaser' = [chaser EXCEPT ![c] = "stopped"]
  /\ socket' = [socket EXCEPT ![c] = "closed"]
  /\ chasers' = chasers \ {c}
  /\ UNCHANGED <<owner, unanswered, upVars, stopAsked, query>>

\* close(f.Done)
OwnerDone ==
  /\ owner = "stopAll" /\ AllStopped
  /\ owner' = "done"
  /\ UNCHANGED <<chasers, unanswered, upVars, connVars, stopAsked, query>>
-----------------------------------------------------------------------------
(***************************************************************************)
(* Chasers as the owner sees them, and everybody else.                     *)
(***************************************************************************)

\* Alpha leaves its loop, for whatever reason, and starts to report.
ChaserEnds(c) ==
  /\ chaser[c] = "live"
  /\ chaser' = [chaser EXCEPT ![c] = "report"]
  /\ UNCHANGED <<ownerVars, upVars, socket, stopAsked, query>>

\* Mutated GivesUp: no timeout.
NeverGivesUp(c) == FALSE

\* case <-time.After(time.Second)
GivesUp(c) == chaser[c] = "report"

ReportLost(c) ==
  /\ GivesUp(c)
  /\ chaser' = [chaser EXCEPT ![c] = "lost"]
  /\ UNCHANGED <<ownerVars, upVars, socket, stopAsked, query>>

ClientConnects(c) ==
  /\ socket[c] = "none" /\ ~upStop
  /\ socket' = [socket EXCEPT ![c] = "backlog"]
  /\ UNCHANGED <<ownerVars, upVars, chaser, stopAsked, query>>

\* Stop, as far as <-f.Done
StopProxy ==
  /\ ~stopAsked /\ stopAsked' = TRUE
  /\ UNCHANGED <<ownerVars, upVars, connVars, query>>

AskCount ==
  /\ ~query /\ ~stopAsked
  /\ query' = TRUE
  /\ UNCHANGED <<ownerVars, upVars, connVars, stopAsked>>

\* case <-f.reqStop of the caller: -1
QueryStopped ==
  /\ query /\ stopAsked
  /\ query' = FALSE
  /\ UNCHANGED <<ownerVars, upVars, connVars, stopAsked>>

ReceiverStep ==
  \/ ReceiverChecks \/ AcceptFails
  \/ \E c \in Conn : Accept(c) \/ OfferAbandoned(c)

OwnerStep ==
  \/ AnswerQuery \/ UpStopped \/ OwnerDone
  \/ \E c \in Conn : \/ TakeConn(c) \/ StartChaser(c) \/ CreateFails(c)
                     \/ HearChaser(c) \/ StopHeard(c) \/ StopOneOf(c)

SocksNext ==
  \/ ReceiverStep \/ OwnerStep \/ OwnerQuits
  \/ \E c \in Conn : ChaserEnds(c) \/ ReportLost(c) \/ ClientConnects(c)
  \/ StopProxy \/ AskCount \/ QueryStopped

SocksSpec == SocksInit /\ [][SocksNext]_socksVars
-----------------------------------------------------------------------------
(***************************************************************************)
(* Properties.                                                             *)
(***************************************************************************)

\* The owner knows every Chaser that reports to it: its sanity check, which
\* would panic the client program, cannot fail, though a report may come while
\* the owner is busy with another Chaser or with a stop, or not at all.
OwnerKnowsReporters ==
  /\ owner # "panicked"
  /\ \A c \in Conn : chaser[c] \in {"live", "report", "lost"} => c \in chasers

\* Once Stop is through no Chaser is left, not even one whose report was lost
\* and which the owner has gone on counting, and every connection that was
\* accepted is closed, but for the one the receiver had in hand.
StopLeavesOneAtMost ==
  owner = "done" =>
    /\ \A c \in Conn : chaser[c] \in {"none", "stopped"}
    /\ \A c, d \in Conn : socket[c] = "open" /\ socket[d] = "open" => c = d

\* Where Stop leads to, unless the server leaves the POST of a new connection
\* unanswered: the owner then hears nobody, and no timeout frees it.
ProxyStopOver == owner = "done" \/ unanswered

\* Where CountOfOpenClients leads to, with the same exception, and without it
\* once a stop is asked for.
QueryOver == ~query \/ (unanswered /\ ~stopAsked)
=============================================================================

----------------------------- MODULE PortForward -----------------------------
(***************************************************************************)
(* Port forwarding over ssh, end to end: SshConnect listens for browsers   *)
(* and opens one channel to the sshd (sshutil.go), the sshd (sshd/sshd.go) *)
(* shakes hands, and connects the channel to a local web server, and on    *)
(* both sides ShovelPairs copy (shovel.go).                                *)
(*                                                                         *)
(*   acceptor  the sshd's accept loop: "free", in a handshake with "us" or *)
(*             with a "stranger", or with one who is "silent"              *)
(*   session   ours at the sshd: "none", "backlog", "shaking", "refused",  *)
(*             "in"                                                        *)
(*   caller    SshConnect: "dial", "open" (the channel), "listen",         *)
(*             "returned", "panicked"                                      *)
(*   handler   handleChannel: "none", "dial", "accept", "forwards",        *)
(*             "rejected", "dropped"                                       *)
(*   copy      the io.Copy of a Shovel: "off", "runs", "done"              *)
(*   monitor   the goroutine of ShovelPair.Start: "off", "watch", "AB" or  *)
(*             "BA" (in Stop of that Shovel), "done"                       *)
(*                                                                         *)
(* All the browsers' pairs have the one channel for their second end.      *)
(***************************************************************************)
EXTENDS Naturals, FiniteSets

CONSTANT Browser   \* connections to the local port

Pair      == Browser \cup {"sshd"}
End       == Browser \cup {"client channel", "sshd channel", "web server"}
Direction == {"AB", "BA"}    \* AB copies from b to a

ASSUME ForwardAssumption ==
  Browser \cap {"sshd", "client channel", "sshd channel", "web server"} = {}

VARIABLES
  acceptor, session,
  caller, browser, handler,
  copy, asked, monitor,         \* per Shovel, per Shovel, per pair
  shut, left                    \* ends closed here; whose far side has closed

sshVars   == <<acceptor, session>>
placeVars == <<caller, browser, handler>>
pairVars  == <<copy, asked, monitor>>
fwdVars   == <<sshVars, placeVars, pairVars, shut, left>>

FwdTypeOK ==
  /\ acceptor \in {"free", "us", "stranger", "silent"}
  /\ session \in {"none", "backlog", "shaking", "refused", "in"}
  /\ caller \in {"dial", "open", "listen", "returned", "panicked"}
  /\ browser \in [Browser -> {"none", "waiting", "accepted"}]
  /\ handler \in {"none", "dial", "accept", "forwards", "rejected", "dropped"}
  /\ copy \in [Pair -> [Direction -> {"off", "runs", "done"}]]
  /\ asked \in [Pair -> [Direction -> BOOLEAN]]
  /\ monitor \in [Pair -> {"off", "watch", "AB", "BA", "done"}]
  /\ shut \subseteq End /\ left \subseteq End

FwdInit ==
  /\ acceptor = "free" /\ session = "none"
  /\ caller = "dial" /\ browser = [b \in Browser |-> "none"] /\ handler = "none"
  /\ copy = [p \in Pair |-> [d \in Direction |-> "off"]]
  /\ asked = [p \in Pair |-> [d \in Direction |-> FALSE]]
  /\ monitor = [p \in Pair |-> "off"]
  /\ shut = {} /\ left = {}
-----------------------------------------------------------------------------
(***************************************************************************)
(* The sshd lets clients in.  What it does after ours does not matter and  *)
(* is left out.                                                            *)
(***************************************************************************)

DialsSshd ==
  /\ session = "none" /\ session' = "backlog"
  /\ UNCHANGED <<acceptor, placeVars, pairVars, shut, left>>

\* ssh.NewServerConn is called in the accept loop and has no timeout, so that
\* a stranger who does not answer keeps everybody out.  Those in the backlog
\* before us are taken before us.
TakesStranger ==
  /\ acceptor = "free" /\ session = "none"
  /\ acceptor' \in {"stranger", "silent"}
  /\ UNCHANGED <<session, placeVars, pairVars, shut, left>>

StrangerDone ==
  /\ acceptor = "stranger" /\ acceptor' = "free"
  /\ UNCHANGED <<session, placeVars, pairVars, shut, left>>

TakesUs ==
  /\ acceptor = "free" /\ session = "backlog"
  /\ acceptor' = "us" /\ session' = "shaking"
  /\ UNCHANGED <<placeVars, pairVars, shut, left>>

\* PermitClientConnection lets in the new-account client (with an error that
\* the callback drops); no account is ever known, so that nobody else gets in.
ShakesHands ==
  /\ acceptor = "us" /\ acceptor' = "free"
  /\ session' \in {"in", "refused"}
  /\ UNCHANGED <<placeVars, pairVars, shut, left>>
-----------------------------------------------------------------------------
(***************************************************************************)
(* Shovels and pairs.                                                      *)
(***************************************************************************)

A(p) == IF p = "sshd" THEN "sshd channel" ELSE p
B(p) == IF p = "sshd" THEN "web server" ELSE "client channel"

From(p, d) == IF d = "AB" THEN B(p) ELSE A(p)
To(p, d)   == IF d = "AB" THEN A(p) ELSE B(p)
Reverse(d) == IF d = "AB" THEN "BA" ELSE "AB"

\* A read of this end finds its end: of a channel when either side closed it.
AtEnd(e) ==
  \/ e \in shut \cup left
  \/ e \in {"client channel", "sshd channel"}
       /\ {"client channel", "sshd channel"} \cap shut # {}

\* ShovelPair.Start
StartsPair(p) ==
  /\ copy' = [copy EXCEPT ![p] = [d \in Direction |-> "runs"]]
  /\ monitor' = [monitor EXCEPT ![p] = "watch"]
  /\ UNCHANGED asked

\* io.Copy returns: nothing more to read, or a write failed.
CopyEnds(p, d) ==
  /\ copy[p][d] = "runs" /\ (AtEnd(From(p, d)) \/ AtEnd(To(p, d)))
  /\ copy' = [copy EXCEPT ![p][d] = "done"]
  /\ UNCHANGED <<sshVars, placeVars, asked, monitor, shut, left>>

\* close(s.ReqStop) of the other Shovel
StopsOther(p, d) ==
  /\ monitor' = [monitor EXCEPT ![p] = Reverse(d)]
  /\ asked' = [asked EXCEPT ![p][Reverse(d)] = TRUE]

\* case <-s.AB.Done, case <-s.BA.Done
MonitorSees(p, d) ==
  /\ monitor[p] = "watch" /\ copy[p][d] = "done"
  /\ StopsOther(p, d)
  /\ UNCHANGED <<sshVars, placeVars, copy, shut, left>>

\* <-s.Done of the Shovel it stops
MonitorEnds(p) ==
  /\ monitor[p] \in Direction /\ copy[p][monitor[p]] = "done"
  /\ monitor' = [monitor EXCEPT ![p] = "done"]
  /\ UNCHANGED <<sshVars, placeVars, copy, asked, shut, left>>

\* <-s.ReqStop: r.Close(), w.Close()
ClosesEnds(p, d) ==
  /\ asked[p][d] /\ ~({A(p), B(p)} \subseteq shut)
  /\ shut' = shut \cup {A(p), B(p)}
  /\ UNCHANGED <<sshVars, placeVars, pairVars, left>>
-----------------------------------------------------------------------------
(***************************************************************************)
(* handleChannel and SshConnect.                                           *)
(***************************************************************************)

\* ssh.Dial returned, or failed and panicked; OpenChannel asks.
OpensChannel ==
  /\ caller = "dial" /\ session \in {"in", "refused"}
  /\ IF session = "in" THEN caller' = "open" /\ handler' = "dial"
                           ELSE caller' = "panicked" /\ UNCHANGED handler
  /\ UNCHANGED <<sshVars, browser, pairVars, shut, left>>

\* net.DialTimeout to the web server, and newChannel.Reject if it fails; the
\* other side panics on that.
DialsWebServer ==
  /\ handler = "dial"
  /\ \/ handler' = "accept" /\ UNCHANGED caller
     \/ handler' = "rejected" /\ caller' = "panicked"
  /\ UNCHANGED <<sshVars, browser, pairVars, shut, left>>

\* newChannel.Accept and the pair, or an error after which nobody closes the
\* connection to the web server.  SshConnect then listens, or panics, with
\* OpenChannel's error or as the port is taken; its end of the channel goes
\* with the process.
AcceptsChannel ==
  /\ handler = "accept"
  /\ \/ /\ handler' = "forwards" /\ StartsPair("sshd")
        /\ \/ caller' = "listen" /\ UNCHANGED shut
           \/ caller' = "panicked" /\ shut' = shut \cup {"client channel"}
     \/ handler' = "dropped" /\ caller' = "panicked" /\ UNCHANGED <<pairVars, shut>>
  /\ UNCHANGED <<sshVars, browser, left>>

\* ln.Accept within the 100 ms
AcceptsBrowser(b) ==
  /\ caller = "listen" /\ browser[b] = "waiting"
  /\ browser' = [browser EXCEPT ![b] = "accepted"]
  /\ StartsPair(b)
  /\ UNCHANGED <<sshVars, caller, handler, shut, left>>

\* The deadline is a net.OpError like any other: the loop is over, and with
\* it SshConnect, but the listener stays open.
ListenTimesOut ==
  /\ caller = "listen" /\ caller' = "returned"
  /\ UNCHANGED <<sshVars, browser, handler, pairVars, shut, left>>

BrowserConnects(b) ==
  /\ browser[b] = "none" /\ caller \in {"listen", "returned"}
  /\ browser' = [browser EXCEPT ![b] = "waiting"]
  /\ UNCHANGED <<sshVars, caller, handler, pairVars, shut, left>>

\* A browser or the web server closes its side.
FarSideCloses(e) ==
  /\ \/ e \in Browser /\ browser[e] = "accepted"
     \/ e = "web server" /\ handler \in {"accept", "forwards", "dropped"}
  /\ e \notin left
  /\ left' = left \cup {e}
  /\ UNCHANGED <<sshVars, placeVars, pairVars, shut>>

SshdStep == TakesUs \/ ShakesHands \/ StrangerDone

PairStep(p) ==
  \/ MonitorEnds(p)
  \/ \E d \in Direction : CopyEnds(p, d) \/ MonitorSees(p, d) \/ ClosesEnds(p, d)

CallerStep ==
  \/ OpensChannel \/ DialsWebServer \/ AcceptsChannel \/ ListenTimesOut
  \/ \E b \in Browser : AcceptsBrowser(b)

FwdNext ==
  \/ DialsSshd \/ TakesStranger \/ SshdStep \/ CallerStep
  \/ \E p \in Pair : PairStep(p)
  \/ \E b \in Browser : BrowserConnects(b)
  \/ \E e \in End : FarSideCloses(e)
-----------------------------------------------------------------------------
(***************************************************************************)
(* What ends.                                                              *)
(***************************************************************************)

SomeEnds == \E p \in Pair, d \in Direction : copy[p][d] = "done"

\* Where it leads to when one of the browsers that share the channel, or the
\* web server, goes: all of them go, at both ends of the channel, and no
\* connection of a pair that was started stays open.
AllEnd ==
  \A p \in Pair : monitor[p] # "off" => monitor[p] = "done" /\ {A(p), B(p)} \subseteq shut

\* Where a dial leads to, unless a stranger is silent.
HandshakeOver == session \in {"in", "refused"} \/ acceptor = "silent"
=============================================================================

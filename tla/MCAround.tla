------------------------------ MODULE MCAround ------------------------------
(***************************************************************************)
(* The parts around the tunnel's core on small instances, side by side: a  *)
(* behaviour picks one of them, the world it lives in, and leaves the      *)
(* others in their initial state, so that the states add up and one run    *)
(* checks them all.                                                        *)
(***************************************************************************)
EXTENDS Microverse, SocksProxy, WebServer, HostTable, PortForward, CountServer,
        BcastServer

\* All connections have come to the same address and port.
OneAddress == [c \in HttpConn |-> "server"]

VARIABLE world

Worlds == {"microverse", "socks", "web", "hosts", "forward", "count", "bcast"}

Init ==
  /\ world \in Worlds
  /\ MicroInit /\ SocksInit /\ WebInit /\ HostInit /\ FwdInit /\ CountInit
  /\ BcastInit
  \* A file from earlier, and a reordering forced on the replies, matter in one
  \* world only.
  /\ world # "hosts" => fn = Absent
  /\ world # "microverse" => \A i \in DOMAIN forceReplySn : forceReplySn[i] = i

vars == <<world, microVars, socksVars, webVars, hostVars, fwdVars, countVars,
          bcastVars>>

\* The variables of the world that moves, all that a step can change.
Here ==
  CASE world = "microverse" -> microVars
    [] world = "socks"      -> socksVars
    [] world = "web"        -> webVars
    [] world = "hosts"      -> hostVars
    [] world = "forward"    -> fwdVars
    [] world = "count"      -> countVars
    [] world = "bcast"      -> bcastVars

In(w) == world = w /\ world' = w

Micro(A_) == In("microverse") /\ A_ /\ UNCHANGED
  <<socksVars, webVars, hostVars, fwdVars, countVars, bcastVars>>
Socks(A_) == In("socks") /\ A_ /\ UNCHANGED
  <<microVars, webVars, hostVars, fwdVars, countVars, bcastVars>>
Web(A_) == In("web") /\ A_ /\ UNCHANGED
  <<microVars, socksVars, hostVars, fwdVars, countVars, bcastVars>>
Hosts(A_) == In("hosts") /\ A_ /\ UNCHANGED
  <<microVars, socksVars, webVars, fwdVars, countVars, bcastVars>>
Forward(A_) == In("forward") /\ A_ /\ UNCHANGED
  <<microVars, socksVars, webVars, hostVars, countVars, bcastVars>>
Count(A_) == In("count") /\ A_ /\ UNCHANGED
  <<microVars, socksVars, webVars, hostVars, fwdVars, bcastVars>>
Bcasts(A_) == In("bcast") /\ A_ /\ UNCHANGED
  <<microVars, socksVars, webVars, hostVars, fwdVars, countVars>>

Next ==
  \/ Micro(MicroNext) \/ Socks(SocksNext) \/ Web(WebNext) \/ Hosts(HostNext)
  \/ Forward(FwdNext) \/ Count(CountNext) \/ Bcasts(BcastNext)

(***************************************************************************)
(* Fairness.  A line names one goroutine of each world, or several whose   *)
(* steps are finitely many; only one world moves, so that a line is        *)
(* fairness of the one of that world.  The last line is the select of a    *)
(* loop that finds its stop request ready again and again.                 *)
(***************************************************************************)
Fairness ==
  /\ WF_Here(\/ Micro(RoomStep("alpha")) \/ Socks(OwnerStep) \/ Web(ServeStep)
             \/ Forward(SshdStep) \/ Count(CounterStep)
             \/ Bcasts(~bcastBroken /\ BcastStep))
  /\ WF_Here(\/ Micro(RoomStep("beta")) \/ Socks(ReceiverStep) \/ Web(StopStep)
             \/ Forward(CallerStep))
  /\ WF_Here(Micro(LpStep) \/ Socks(\E c \in Conn : ReportLost(c))
             \/ Web(\E c \in HttpConn : HttpConnStep(c))
             \/ Forward(\E p \in Pair : PairStep(p)))
  /\ WF_Here(Micro(StopNext) \/ Socks(QueryStopped))
  /\ SF_Here(Micro(MicroQuits) \/ Socks(OwnerQuits))

Spec == Init /\ [][Next]_vars /\ Fairness

TypeOK ==
  /\ HomeTypeOK /\ MicroTypeOK /\ SocksTypeOK /\ WebTypeOK /\ HostTypeOK
  /\ FwdTypeOK /\ CountTypeOK /\ BcastTypeOK

Over(w, over) == world = w /\ over

\* Whoever waits for another part to stop, to go or to answer stops waiting,
\* with the exceptions each module names next to what it waits for: the Stop
\* of the four parts of a microverse, of the client program, of a web server
\* and of the two test clients; the other end of a forwarded connection; a
\* query of the client program, a handshake with the sshd, a broadcast.
StopsReturn ==
  /\ (\/ toStop # <<>> \/ stopAsked \/ stopper # "none" \/ SomeEnds \/ clientStop
      \/ hearerStop # {})
       ~> (\/ Over("microverse", ShutdownOver) \/ Over("socks", ProxyStopOver)
           \/ Over("web", WebStopOver) \/ Over("forward", AllEnd)
           \/ Over("count", CounterStops) \/ Over("bcast", HearersStop))
  /\ (query \/ session = "backlog" \/ sending # {})
       ~> (\/ Over("socks", QueryOver) \/ Over("forward", HandshakeOver)
           \/ Over("bcast", NothingUnheard))
=============================================================================

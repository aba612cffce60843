------------------------------ MODULE WebServer ------------------------------
(***************************************************************************)
(* WebServer (tun/web.go) around CustomHttpServer (tun/webserver.go), the  *)
(* http.Server that can be stopped gracefully.                             *)
(*                                                                         *)
(*   serving   the goroutine of WebServer.Start: "listen", "register" (has *)
(*             the port, the listener not yet in s.listeners), "accept",   *)
(*             "count" (has a connection, wg.Add not yet called), "ended"  *)
(*   hconn     a connection as its own goroutine has it: "none", "backlog",*)
(*             "accepted", "new", "reading" (first bytes of a request are  *)
(*             in, ConnState not yet told), "active", "replied" (kept      *)
(*             alive, ConnState not yet told), "record" (ConnState has     *)
(*             looked at ch, not yet at the lock), "idle", "closing",      *)
(*             "closed", "reset"                                           *)
(*   stopper   the caller of Stop: "none", "signal", "disable" (keep-      *)
(*             alives), "lock", "wait" (for the connections), "join" (for  *)
(*             the goroutine), "returned"                                  *)
(*                                                                         *)
(* http.Server is external: it calls ConnState, New in the accepting       *)
(* goroutine and the rest in the connection's own, and its ReadTimeout     *)
(* ends a connection that has nothing to read.                             *)
(***************************************************************************)
EXTENDS Naturals, FiniteSets

CONSTANTS
  HttpConn,
  LocalAddr     \* LocalAddr[c]: the server's end of c, its address and port

ASSUME WebAssumption == IsFiniteSet(HttpConn) /\ DOMAIN LocalAddr = HttpConn

VARIABLES
  serving, port, registered,    \* port: "free", "bound", "closed"
  started,                      \* Start has returned
  hconn, remembered, wg,        \* remembered: the values of the map conns
  ch, stopper

serveVars == <<serving, port, registered, started>>
webVars   == <<serveVars, hconn, remembered, wg, ch, stopper>>

WebTypeOK ==
  /\ serving \in {"listen", "register", "accept", "count", "ended"}
  /\ port \in {"free", "bound", "closed"}
  /\ hconn \in [HttpConn -> {"none", "backlog", "accepted", "new", "reading",
                             "active", "replied", "record", "idle", "closing",
                             "closed", "reset"}]
  /\ remembered \subseteq HttpConn
  /\ wg \in Nat
  /\ stopper \in {"none", "signal", "disable", "lock", "wait", "join", "returned"}
  /\ {registered, started, ch} \subseteq BOOLEAN

WebInit ==
  /\ serving = "listen" /\ port = "free" /\ registered = FALSE
  /\ started = FALSE
  /\ hconn = [c \in HttpConn |-> "none"] /\ remembered = {} /\ wg = 0
  /\ ch = FALSE /\ stopper = "none"

ConnMoves(c, from, to) ==
  hconn[c] = from /\ hconn' = [hconn EXCEPT ![c] = to]
-----------------------------------------------------------------------------
(***************************************************************************)
(* Start, ListenAndServe and Serve.                                        *)
(***************************************************************************)

\* net.Listen; from here on a dial succeeds.
Listens ==
  /\ serving = "listen" /\ serving' = "register"
  /\ port' = "bound"
  /\ UNCHANGED <<registered, started, hconn, remembered, wg, ch, stopper>>

\* s.listeners = append(s.listeners, l)
Registers ==
  /\ serving = "register" /\ serving' = "accept"
  /\ registered' = TRUE
  /\ UNCHANGED <<port, started, hconn, remembered, wg, ch, stopper>>

\* WaitUntilServerUp: all it asks for is that somebody listens.
StartReturns ==
  /\ port = "bound" /\ ~started
  /\ started' = TRUE
  /\ UNCHANGED <<serving, port, registered, hconn, remembered, wg, ch, stopper>>

AcceptsConn(c) ==
  /\ serving = "accept" /\ port = "bound" /\ serving' = "count"
  /\ ConnMoves(c, "backlog", "accepted")
  /\ UNCHANGED <<port, registered, started, remembered, wg, ch, stopper>>

\* Mutated Counts: without the wg.Add.
CountsNot == wg

\* s.wg.Add(1)
Counts == wg + 1

\* ConnState(StateNew), in the accepting goroutine
CountsNew(c) ==
  /\ serving = "count" /\ serving' = "accept"
  /\ ConnMoves(c, "accepted", "new")
  /\ wg' = Counts
  /\ UNCHANGED <<port, registered, started, remembered, ch, stopper>>

\* Accept fails on the closed listener; s.stopped = true, close(s.Done)
ServeEnds ==
  /\ serving = "accept" /\ port = "closed"
  /\ serving' = "ended"
  /\ UNCHANGED <<port, registered, started, hconn, remembered, wg, ch, stopper>>
-----------------------------------------------------------------------------
(***************************************************************************)
(* Connections and their ConnState callbacks.                              *)
(***************************************************************************)

HttpConnects(c) ==
  /\ port = "bound" /\ ConnMoves(c, "none", "backlog")
  /\ UNCHANGED <<serveVars, remembered, wg, ch, stopper>>

RequestBegins(c) ==
  /\ ConnMoves(c, "new", "reading") \/ ConnMoves(c, "idle", "reading")
  /\ UNCHANGED <<serveVars, remembered, wg, ch, stopper>>

\* Mutated Forgets: StateActive does not touch the map.
ForgetsNobody(c) == remembered

\* delete(s.conns, conn.LocalAddr().String()), whoever is recorded there: all
\* who have come to the same address and port share one entry.
Forgets(c) == {d \in remembered : LocalAddr[d] # LocalAddr[c]}

\* StateActive
Activates(c) ==
  /\ ConnMoves(c, "reading", "active")
  /\ remembered' = Forgets(c)
  /\ UNCHANGED <<serveVars, wg, ch, stopper>>

KeepsAlive == stopper \in {"none", "signal", "disable"}

\* Once keep-alives are off, or if the client asks for it, the connection
\* ends with the reply.
RepliesTo(c) ==
  /\ \/ KeepsAlive /\ ConnMoves(c, "active", "replied")
     \/ ConnMoves(c, "active", "closing")
  /\ UNCHANGED <<serveVars, remembered, wg, ch, stopper>>

\* StateIdle: select on ch
IdleLooks(c) ==
  /\ ConnMoves(c, "replied", IF ch THEN "closing" ELSE "record")
  /\ UNCHANGED <<serveVars, remembered, wg, ch, stopper>>

\* s.conns[conn.LocalAddr().String()] = conn, though ch may be closed by now
IdleRecords(c) ==
  /\ ConnMoves(c, "record", "idle")
  /\ remembered' = Forgets(c) \cup {c}
  /\ UNCHANGED <<serveVars, wg, ch, stopper>>

\* The peer closes, or the deadline set by ReadTimeout or by Close passes.
HttpConnEnds(c) ==
  /\ \E place \in {"new", "reading", "idle"} : ConnMoves(c, place, "closing")
  /\ UNCHANGED <<serveVars, remembered, wg, ch, stopper>>

\* StateClosed
CountsClosed(c) ==
  /\ ConnMoves(c, "closing", "closed")
  /\ wg' = wg - 1
  /\ UNCHANGED <<serveVars, remembered, ch, stopper>>
-----------------------------------------------------------------------------
(***************************************************************************)
(* Stop and Close.                                                         *)
(***************************************************************************)

\* Stop of a server that runs, and that no other Stop has reached
StopsServer ==
  /\ started /\ serving # "ended" /\ stopper = "none"
  /\ stopper' = "signal"
  /\ UNCHANGED <<serveVars, hconn, remembered, wg, ch>>

\* close(s.ch)
SignalsConns ==
  /\ stopper = "signal" /\ stopper' = "disable"
  /\ ch' = TRUE
  /\ UNCHANGED <<serveVars, hconn, remembered, wg>>

\* SetKeepAlivesEnabled(false): from here on KeepsAlive is FALSE.
DisablesKeepAlives ==
  /\ stopper = "disable" /\ stopper' = "lock"
  /\ UNCHANGED <<serveVars, hconn, remembered, wg, ch>>

\* Under the lock: close the listeners there are, set the short deadline on
\* the connections recorded, and forget them.
ClosesListeners ==
  /\ stopper = "lock" /\ stopper' = "wait"
  /\ IF registered
       THEN /\ port' = "closed"
            /\ hconn' = [c \in HttpConn |->
                           IF hconn[c] = "backlog" THEN "reset" ELSE hconn[c]]
       ELSE UNCHANGED <<port, hconn>>
  /\ remembered' = {}
  /\ UNCHANGED <<serving, registered, started, wg, ch>>

\* s.wg.Wait()
WaitsForConns ==
  /\ stopper = "wait" /\ wg = 0
  /\ stopper' = "join"
  /\ UNCHANGED <<serveVars, hconn, remembered, wg, ch>>

\* <-s.Done; then a dial fails, which ends WaitUntilServerDown.
StopReturns ==
  /\ stopper = "join" /\ serving = "ended"
  /\ stopper' = "returned"
  /\ UNCHANGED <<serveVars, hconn, remembered, wg, ch>>

ServeStep ==
  \/ Listens \/ Registers \/ ServeEnds
  \/ \E c \in HttpConn : AcceptsConn(c) \/ CountsNew(c)

HttpConnStep(c) ==
  \/ Activates(c) \/ RepliesTo(c) \/ IdleLooks(c) \/ IdleRecords(c)
  \/ HttpConnEnds(c) \/ CountsClosed(c)

StopStep ==
  \/ SignalsConns \/ DisablesKeepAlives \/ ClosesListeners \/ WaitsForConns
  \/ StopReturns

WebNext ==
  \/ ServeStep \/ StartReturns \/ StopsServer \/ StopStep
  \/ \E c \in HttpConn : HttpConnStep(c) \/ HttpConnects(c) \/ RequestBegins(c)

WebSpec == WebInit /\ [][WebNext]_webVars
-----------------------------------------------------------------------------
(***************************************************************************)
(* Properties.                                                             *)
(***************************************************************************)

Counted(c) == hconn[c] \in {"new", "reading", "active", "replied", "record",
                            "idle", "closing"}

\* What Close closes after a short grace period is not in the middle of a reply:
\* whoever is on record for the short deadline has none that its ConnState
\* knows of, though records are made and deleted by other goroutines and under
\* another one's key.
GraceSparesReplies ==
  \A c \in remembered : hconn[c] \in {"idle", "reading", "closing", "closed"}

\* Close blocks until all connections have been closed: here for a server whose
\* listener it has closed.
CloseWaitsForAll ==
  stopper \in {"join", "returned"} /\ port = "closed" =>
    \A c \in HttpConn : ~Counted(c) /\ hconn[c] # "accepted"

\* Idle keep-alive connections close after a short grace period: those that are
\* idle when Close comes for them are on record.
IdleGetGrace ==
  stopper = "lock" => \A c \in HttpConn : hconn[c] = "idle" => c \in remembered

\* What the comment on Close says of its connections.
CloseIsComplete == CloseWaitsForAll /\ IdleGetGrace

\* Where Stop leads to, with one exception: Start returns as soon as the port
\* is bound, and a Stop that comes before the listener is recorded closes
\* nothing and waits for the accepting goroutine for ever.
WebStopOver == stopper = "returned" \/ (stopper \in {"wait", "join"} /\ port = "bound")
=============================================================================

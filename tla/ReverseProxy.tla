----------------------------- MODULE ReverseProxy -----------------------------
(***************************************************************************)
(* The server (tun/server.go): the muxer, which is the goroutine of        *)
(* ReverseProxy.Start and alone knows the tunnelMap; the HTTP handlers,    *)
(* each a goroutine of its own; and Stop, with the graceful stop of the    *)
(* web server.  All channels between them are unbuffered.                  *)
(*                                                                         *)
(* A LongPoller is seen from outside: "ready" to be handed a packet,       *)
(* "busy" with one, "blocked" on a downstream connection that takes no     *)
(* more, or "ended".  What it does inside is the module LongPoller.        *)
(*                                                                         *)
(* A handler serves one request:                                           *)
(*   "inject"   packetHandler, select packetQueue | Done | reqStop         *)
(*   "wait"     packetHandler, select pack.done | Done | reqStop           *)
(*   "dial"     createHandler, in LongPoller.Start                         *)
(*   "enqueue"  createHandler, sending on createQueue                      *)
(*   "reply"    createHandler, about to write the key                      *)
(*   "close"    closeKeyHandler, select closeKeyReq | reqStop              *)
(* The muxer is in its "select", about to "hand" a packet over, at "stop"  *)
(* (finish, the LongPollers), at "web" (finish, the web server) or "done". *)
(***************************************************************************)
EXTENDS FiniteSets, Naturals

CONSTANTS
  Key,       \* the keys that NewLongPoller may draw
  StaleKey,  \* keys of the right form that this server has not made
  Handler,   \* the requests that are made in all (bound)
  None       \* no key, no handler

ASSUME ProxyAssumption ==
  /\ Key \cap StaleKey = {}
  /\ None \notin Key \cup StaleKey \cup Handler

VARIABLES
  st, key,      \* per handler: position, key of its request
  pack,         \* per handler: where its tunnelPacket is
  mux, inHand,  \* the muxer, and the handler whose packet it has
  tunnelMap,    \* the keys it knows
  poller,       \* the LongPoller of a key
  closeKey,     \* keys whose CloseKeyChan is closed
  given,        \* keys that a client has been told
  reqStop, stopping,  \* Stop has been called; LongPollers asked to stop
  accepting,    \* the listener is open
  crashed       \* a goroutine has panicked

handlerVars == <<st, key, pack>>
muxVars     == <<mux, inHand, tunnelMap>>
pollerVars  == <<poller, closeKey>>
stopVars    == <<reqStop, stopping, accepting, crashed>>
vars == <<handlerVars, muxVars, pollerVars, given, stopVars>>

TypeOK ==
  /\ st \in [Handler -> {"idle", "inject", "wait", "dial", "enqueue", "reply",
                         "close", "returned"}]
  /\ key \in [Handler -> Key \cup StaleKey \cup {None}]
  /\ pack \in [Handler -> {"none", "muxer", "held", "dropped", "answered"}]
  /\ mux \in {"select", "hand", "stop", "web", "done"}
  /\ inHand \in Handler \cup {None}
  /\ tunnelMap \subseteq Key /\ closeKey \subseteq Key /\ given \subseteq Key
  /\ poller \in [Key -> {"none", "ready", "busy", "blocked", "ended"}]
  /\ stopping \subseteq Key
  /\ {reqStop, accepting, crashed} \subseteq BOOLEAN

Init ==
  /\ st = [h \in Handler |-> "idle"]
  /\ key = [h \in Handler |-> None]
  /\ pack = [h \in Handler |-> "none"]
  /\ mux = "select" /\ inHand = None /\ tunnelMap = {}
  /\ poller = [k \in Key |-> "none"] /\ closeKey = {} /\ given = {}
  /\ reqStop = FALSE /\ stopping = {} /\ accepting = TRUE /\ crashed = FALSE

\* The guard of every step, as a process that has panicked takes none.
At(h, place) == ~crashed /\ st[h] = place
MuxAt(place) == ~crashed /\ mux = place
PollerIs(k, state) == ~crashed /\ poller[k] = state

Move(h, place) == st' = [st EXCEPT ![h] = place]
Put(h, place) == pack' = [pack EXCEPT ![h] = place]
-------------------------------------------------------------------------------
(***************************************************************************)
(* packetHandler and injectPacket                                          *)
(***************************************************************************)

\* A client posts with the key it was given, or with one of another server.
PacketArrives(h, k) ==
  /\ accepting /\ At(h, "idle") /\ k \in given \cup StaleKey
  /\ Move(h, "inject")
  /\ key' = [key EXCEPT ![h] = k]
  /\ UNCHANGED <<pack, muxVars, pollerVars, given, stopVars>>

\* Mutated AfterInject: does not wait for pack.done.
Returned == "returned"
AfterInject == "wait"

\* packetQueue <- pack, the muxer's case pp := <-s.packetQueue
Inject(h) ==
  /\ At(h, "inject") /\ mux = "select"
  /\ Move(h, AfterInject)
  /\ IF key[h] \in tunnelMap
       THEN Put(h, "muxer") /\ mux' = "hand" /\ inHand' = h
       ELSE Put(h, "dropped") /\ UNCHANGED <<mux, inHand>>
  /\ UNCHANGED <<key, tunnelMap, pollerVars, given, stopVars>>

\* case <-s.Done, case <-s.reqStop
InjectQuits(h) ==
  /\ At(h, "inject") /\ reqStop
  /\ Move(h, AfterInject)
  /\ UNCHANGED <<key, pack, muxVars, pollerVars, given, stopVars>>

Answered(h) ==
  /\ At(h, "wait") /\ pack[h] = "answered"
  /\ Move(h, "returned")
  /\ UNCHANGED <<key, pack, muxVars, pollerVars, given, stopVars>>

WaitQuits(h) ==
  /\ At(h, "wait") /\ reqStop
  /\ Move(h, "returned")
  /\ UNCHANGED <<key, pack, muxVars, pollerVars, given, stopVars>>
-------------------------------------------------------------------------------
(***************************************************************************)
(* createHandler                                                           *)
(***************************************************************************)

CreateArrives(h) ==
  /\ accepting /\ At(h, "idle")
  /\ Move(h, "dial")
  /\ UNCHANGED <<key, pack, muxVars, pollerVars, given, stopVars>>

DialFails(h) ==
  /\ At(h, "dial")
  /\ Move(h, "returned")
  /\ UNCHANGED <<key, pack, muxVars, pollerVars, given, stopVars>>

\* NewLongPoller draws a key that is new, and Start has a goroutine running
\* before the muxer hears of it.
DialSucceeds(h, k) ==
  /\ At(h, "dial") /\ poller[k] = "none"
  /\ poller' = [poller EXCEPT ![k] = "ready"]
  /\ key' = [key EXCEPT ![h] = k]
  /\ Move(h, "enqueue")
  /\ UNCHANGED <<pack, muxVars, closeKey, given, stopVars>>

\* Mutated Enqueue: the send gets a case for reqStop, like the others.
EnqueueOrQuit(h) ==
  /\ At(h, "enqueue")
  /\ \/ mux = "select" /\ tunnelMap' = tunnelMap \cup {key[h]}
     \/ reqStop /\ UNCHANGED tunnelMap
  /\ Move(h, "reply")
  /\ UNCHANGED <<key, pack, mux, inHand, pollerVars, given, stopVars>>

\* Mutated Enqueue: the key goes out before the muxer has the tunnel.
EnqueueAfterReply(h) ==
  /\ \/ At(h, "enqueue") /\ Move(h, "reply") /\ given' = given \cup {key[h]}
        /\ UNCHANGED tunnelMap
     \/ At(h, "reply") /\ mux = "select" /\ Move(h, "returned")
        /\ tunnelMap' = tunnelMap \cup {key[h]} /\ UNCHANGED given
  /\ UNCHANGED <<key, pack, mux, inHand, pollerVars, stopVars>>

\* s.createQueue <- tunnel, the muxer's case p := <-s.createQueue
Enqueue(h) ==
  /\ At(h, "enqueue") /\ mux = "select"
  /\ tunnelMap' = tunnelMap \cup {key[h]}
  /\ Move(h, "reply")
  /\ UNCHANGED <<key, pack, mux, inHand, pollerVars, given, stopVars>>

ReplyKey(h) ==
  /\ At(h, "reply")
  /\ given' = given \cup {key[h]}
  /\ Move(h, "returned")
  /\ UNCHANGED <<key, pack, muxVars, pollerVars, stopVars>>
-------------------------------------------------------------------------------
(***************************************************************************)
(* closeKeyHandler                                                         *)
(***************************************************************************)

CloseArrives(h, k) ==
  /\ accepting /\ At(h, "idle") /\ k \in given \cup StaleKey
  /\ Move(h, "close")
  /\ key' = [key EXCEPT ![h] = k]
  /\ UNCHANGED <<pack, muxVars, pollerVars, given, stopVars>>

\* Mutated CloseTunnel: does not ask whether the map has the key.
CloseUnchecked(h) ==
  /\ At(h, "close") /\ mux = "select"
  /\ closeKey' = closeKey \cup {key[h]}
  /\ tunnelMap' = tunnelMap \ {key[h]}
  /\ Move(h, "returned")
  /\ UNCHANGED <<key, pack, mux, inHand, poller, given, stopVars>>

\* s.closeKeyReq <- skey, the muxer's case closekey := <-s.closeKeyReq
CloseTunnel(h) ==
  /\ At(h, "close") /\ mux = "select"
  /\ closeKey' = closeKey \cup ({key[h]} \cap tunnelMap)
  /\ tunnelMap' = tunnelMap \ {key[h]}
  /\ Move(h, "returned")
  /\ UNCHANGED <<key, pack, mux, inHand, poller, given, stopVars>>

CloseQuits(h) ==
  /\ At(h, "close") /\ reqStop
  /\ Move(h, "returned")
  /\ UNCHANGED <<key, pack, muxVars, pollerVars, given, stopVars>>
-------------------------------------------------------------------------------
(***************************************************************************)
(* The muxer and finish.                                                   *)
(***************************************************************************)

\* Mutated HandOver: a default case, so as not to wait for a tunnel.
HandOverOrDrop ==
  /\ MuxAt("hand")
  /\ \/ /\ poller[key[inHand]] = "ready"
        /\ poller' = [poller EXCEPT ![key[inHand]] = "busy"]
        /\ Put(inHand, "held")
     \/ /\ poller[key[inHand]] # "ready"
        /\ Put(inHand, "none") /\ UNCHANGED poller
  /\ mux' = "select" /\ inHand' = None
  /\ UNCHANGED <<st, key, tunnelMap, closeKey, given, stopVars>>

\* case tunnel.ClientPacketRecvd <- pp
HandOver ==
  /\ MuxAt("hand") /\ poller[key[inHand]] = "ready"
  /\ poller' = [poller EXCEPT ![key[inHand]] = "busy"]
  /\ Put(inHand, "held")
  /\ mux' = "select" /\ inHand' = None
  /\ UNCHANGED <<st, key, tunnelMap, closeKey, given, stopVars>>

\* Mutated MuxQuits: the inner select has no case for reqStop.
MuxQuitsSelect ==
  /\ MuxAt("select") /\ reqStop
  /\ mux' = "stop" /\ inHand' = None
  /\ UNCHANGED <<handlerVars, tunnelMap, pollerVars, given, stopVars>>

\* case <-s.reqStop, in both selects
MuxQuits ==
  /\ MuxAt("select") \/ MuxAt("hand")
  /\ reqStop
  /\ mux' = "stop" /\ inHand' = None
  /\ UNCHANGED <<handlerVars, tunnelMap, pollerVars, given, stopVars>>

\* t.Stop() of one LongPoller after the other; each call waits for its Done.
StopPoller(k) ==
  /\ MuxAt("stop") /\ k \in tunnelMap \ stopping
  /\ \A j \in stopping : poller[j] = "ended"
  /\ stopping' = stopping \cup {k}
  /\ UNCHANGED <<handlerVars, muxVars, pollerVars, given, reqStop, accepting,
                 crashed>>

\* s.web.Stop() closes the listener
StopWeb ==
  /\ MuxAt("stop") /\ tunnelMap \subseteq stopping
  /\ \A j \in stopping : poller[j] = "ended"
  /\ accepting' = FALSE /\ mux' = "web"
  /\ UNCHANGED <<handlerVars, inHand, tunnelMap, pollerVars, given, reqStop,
                 stopping, crashed>>

\* and waits for the connections, that is for their handlers; close(s.Done)
WebStopped ==
  /\ MuxAt("web")
  /\ \A h \in Handler : st[h] \in {"idle", "returned"}
  /\ mux' = "done"
  /\ UNCHANGED <<handlerVars, inHand, tunnelMap, pollerVars, given, stopVars>>

StopCalled ==
  /\ ~crashed /\ ~reqStop
  /\ reqStop' = TRUE
  /\ UNCHANGED <<handlerVars, muxVars, pollerVars, given, stopping, accepting,
                 crashed>>
-------------------------------------------------------------------------------
(***************************************************************************)
(* The LongPollers.                                                        *)
(***************************************************************************)

\* Done with a packet: back in its select, or blocked on SendToDownCh.
PollerTurns(k) ==
  /\ PollerIs(k, "busy")
  /\ \E next \in {"ready", "blocked"} : poller' = [poller EXCEPT ![k] = next]
  /\ UNCHANGED <<handlerVars, muxVars, closeKey, given, stopVars>>

\* It answers a packet it holds: writes to resp, closes done.
PollerAnswers(h) ==
  /\ pack[h] = "held" /\ PollerIs(key[h], "ready")
  /\ Put(h, "answered")
  /\ UNCHANGED <<st, key, muxVars, pollerVars, given, stopVars>>

\* case <-s.reqStop
PollerEnds(k) ==
  /\ k \in stopping
  /\ PollerIs(k, "ready") \/ PollerIs(k, "blocked")
  /\ poller' = [poller EXCEPT ![k] = "ended"]
  /\ UNCHANGED <<handlerVars, muxVars, closeKey, given, stopVars>>

\* case <-s.CloseKeyChan, which panics after it has closed the done channels.
PollerPanics(k) ==
  /\ k \in closeKey /\ PollerIs(k, "ready")
  /\ crashed' = TRUE
  /\ pack' \in {pack, [h \in Handler |-> IF key[h] = k /\ pack[h] = "held"
                                           THEN "answered" ELSE pack[h]]}
  /\ UNCHANGED <<st, key, muxVars, pollerVars, given, reqStop, stopping,
                 accepting>>
-------------------------------------------------------------------------------
Packet(h) == Inject(h) \/ InjectQuits(h) \/ Answered(h) \/ WaitQuits(h)

Create(h) ==
  \/ DialFails(h) \/ Enqueue(h) \/ ReplyKey(h)
  \/ \E k \in Key : DialSucceeds(h, k)

Close(h) == CloseTunnel(h) \/ CloseQuits(h)

Serves(h) == Packet(h) \/ Create(h) \/ Close(h)

Arrival(h) ==
  \/ CreateArrives(h)
  \/ \E k \in Key \cup StaleKey : PacketArrives(h, k) \/ CloseArrives(h, k)

Muxer ==
  HandOver \/ MuxQuits \/ StopWeb \/ WebStopped \/ \E k \in Key : StopPoller(k)

Poller(k) == PollerTurns(k) \/ PollerEnds(k) \/ PollerPanics(k)

Next ==
  \/ \E h \in Handler : Arrival(h) \/ Serves(h) \/ PollerAnswers(h)
  \/ Muxer \/ StopCalled
  \/ \E k \in Key : Poller(k)

Spec == Init /\ [][Next]_vars

(***************************************************************************)
(* Fairness.  Handlers, muxer and pollers run.  Handlers that send to the  *)
(* muxer get their turn, as it comes back to its select again and again    *)
(* and the runtime serves senders in the order in which they came.         *)
(* Nothing is assumed of the clients and of the one who may call Stop.     *)
(***************************************************************************)
Fairness ==
  /\ \A h \in Handler :
       SF_vars(Serves(h)) /\ SF_vars(PollerAnswers(h))
  /\ WF_vars(Muxer)
  /\ \A k \in Key : WF_vars(PollerTurns(k) \/ PollerEnds(k))

FairSpec == Spec /\ Fairness
-------------------------------------------------------------------------------
(***************************************************************************)
(* Properties.                                                             *)
(***************************************************************************)

\* No LongPoller runs, and holds a connection to the downstream server, that
\* the muxer does not know and finish will not stop: while its createHandler
\* has not come through to the muxer is the only exception, and once it has
\* been told to close.
NoOrphans ==
  \A k \in Key :
    poller[k] \in {"ready", "busy", "blocked"} =>
      \/ k \in tunnelMap \cup closeKey
      \/ \E h \in Handler : st[h] = "enqueue" /\ key[h] = k

\* A LongPoller writes to the ResponseWriter of a packet only while the handler
\* waits, as net/http requires.  After a Stop it is not so: the handlers leave
\* at once, the LongPollers when finish comes to them.
ResponseWriterLive ==
  ~reqStop => \A h \in Handler : pack[h] \in {"muxer", "held"} => st[h] = "wait"

\* A client that uses the key it was given is known: its packets are dropped
\* only if somebody has closed the key.
KeyKnownBeforeUse ==
  \A h \in Handler :
    pack[h] = "dropped" => key[h] \in StaleKey \cup closeKey

\* A createHandler that has missed the muxer waits for ever.
CreateStuck ==
  mux \notin {"select", "hand"} /\ \E h \in Handler : st[h] = "enqueue"

\* Stop returns, whatever the handlers and the LongPollers are at, unless a
\* createHandler is stuck, whose connection the web server waits for.
StopReturns == reqStop ~> (mux = "done" \/ CreateStuck \/ crashed)

\* A request is answered.  It is not if its key is unknown; and one tunnel that
\* is blocked on its downstream server stops them all.
PacketAnswered ==
  \A h \in Handler :
    st[h] = "inject" ~>
      \/ st[h] = "returned" \/ pack[h] = "dropped" \/ crashed
      \/ \E k \in Key : poller[k] = "blocked"
===============================================================================

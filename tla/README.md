# Pelican protocol: a TLA+ model of the tunnel

Pelican carries a TCP connection over HTTP. A SOCKS-like proxy on the client
side accepts the *upstream* TCP connection, a reverse proxy on the server side
opens the *downstream* TCP connection to the destination, and between them every
byte travels in the body of an HTTP request or of its reply. Each tunnel uses two
HTTP sockets. The server may speak only in a reply, so it keeps one request
*parked* (a long poll) and answers when there is something to say; the second
socket is then free for the client to send on. Requests on two sockets overtake
each other, and so do replies: serial numbers on both put them back in order.

This directory models that machinery and the parts around it (the client program, the
stoppable web server, the table of known hosts, port forwarding over ssh, the reduced
tunnel and the servers of the tests), model-checks it with TLC, and proves with TLAPS every
safety property that the runs check, for every value of the constants. Source paths are relative to `src/`.

## 1. Inventory

### The tunnel

| Component | Source | State | Operations | Talks to |
|---|---|---|---|---|
| **PelicanSocksProxy** | `tun/client.go` 24-394 | `chasers` (the live tunnels), `lastRemote`, stop flag | accept a connection, POST `/create`, start a Chaser, hear that a Chaser is done, stop all | TcpUpstreamReceiver (channel), ReverseProxy (HTTP), Chaser (`ChaserDoneCh`, `Stop`) |
| **TcpUpstreamReceiver** | `tun/client.go` 155-262 | listener, stop flag | accept, hand over, stop | PelicanSocksProxy |
| **Chaser** | `tun/alphabeta.go` 47-918 | positions of two goroutines (alpha, beta), `nextSendSerialNumber`, `lastRecvSerialNumberSeen`, `misorderedReplies`, inactivity timer, stop flag | take work, post, receive, re-order, deliver, give up, stop | ClientHome, ClientRW, HttpClientWithTimeout, owner |
| **ClientHome** | `tun/alphabeta.go` 504-744 | who is home, the cached decision who must go | arrive, depart, tell, answer "shall I go", stop | alpha and beta, by unbuffered channels |
| **HttpClientWithTimeout** | `tun/httpclient.go` | `ReqCancel` (one token), the transport | POST with cancellation, close idle connections | Chaser, network |
| **ReverseProxy** | `tun/server.go` 20-348 | `tunnelMap` (key to LongPoller), stop flag, the handlers in flight | create, inject a packet, close a key, stop | WebServer, LongPoller (unbuffered `ClientPacketRecvd`) |
| **LongPoller** | `tun/longpoll.go` | FIFO of parked requests, `misorderedRequests`, `lastRequestSerialNumberSeen`, `nextReplySerial`, poll timer | receive a packet, re-order, send downstream, reply, stop, close | ReverseProxy, ServerRW |
| **RequestFifo** | `tun/fifo.go` | a slice of packets | PushLeft, PopRight, PeekRight, Empty, Len | LongPoller (its only owner) |
| **ServerRW / ClientRW, NetConnReader / NetConnWriter** | `tun/rw.go`, `tun/crw.go` | a reader and a writer goroutine with a channel each (capacity 1000) | read, write, end at EOF or error, stop, notify | TCP, LongPoller or Chaser |
| **WebServer** | `tun/webserver.go`, `tun/web.go` | listeners, `conns` (idle connections by local address), `wg` (connections that are open), `ch` | listen, record the listener, serve, ConnState callbacks, Close, Stop | ReverseProxy, net/http |
| Keys | `tun/pelkey.go`, `tun/base36.go` | none | generate, check an HMAC | ReverseProxy |

### The rest of the repository

| Component | Source | State | Operations | Talks to |
|---|---|---|---|---|
| **Microverse** | `tun/microverse/ab.go`, `little.go`, `bound.go` and the tests | a reduced Chaser and LongPoller (LittlePoll) in one process, a Boundary at either end, the forced order of reply numbers | generate, absorb, send, answer, re-order, stop in the two orders of the tests | each other, by unbuffered channels |
| **Known hosts** | `knownhosts.go`, `perjson.go`, callbacks in `sshutil.go` | table of hosts by key; the file and its successor `.new` | load, check a host, add, save, close | ssh client |
| **SshConnect, sshd** | `sshutil.go`, `sshd/sshd.go` | one channel per session, a listener | handshake, open and accept a channel, forward | Shovels |
| **Shovel, ShovelPair** | `shovel.go` | two copying goroutines and a monitor | copy, stop the other, close both ends | TCP, ssh channels |
| **Counting client and server** | `tun/countsrv.go` | last and next number at each end | send, answer, check, stop | each other, through the tunnel in the tests |
| **Broadcast client and server** | `tun/bcast.go` | connections that wait | connect, broadcast, hear, close all, stop | the same |

Not modelled (section 7): accounts' message loop (`newacct.go`), keys and cryptography
(`aes.go`, `rsa.go`, `gzip.go`, `armor.go`, `tun/pelkey.go`), `pergob.go`, the echo server,
mains and demonstrations (`keymgr/`, `pelcli/`, `pelican-server/`, `sshcli/`, `backup/`,
`store/`, `tun/cmd/`, `websocket-trial/`) and instrumentation.

### What is hard, and what makes each part correct

*Chaser.* Two goroutines share one counter of requests, one of replies and one
map under a lock, but not one critical section: work is taken before its number
is drawn, a reply is numbered before it is delivered. Home is told of each
departure and arrival by rendezvous, with error exits in between, and its word to
the other roommate is a non-blocking send. Correct means: home knows where the
roommates are; no reply is lost or delivered twice; replies are delivered in
order; the two goroutines end together and `Stop` returns.

*LongPoller.* One goroutine, but its events (two racing sockets, a timer, data
from downstream, stop, close) come in any order, and its sanity checks panic the
whole server. Correct means: the downstream server gets the bytes in the order of
their serials; every parked request is in the FIFO once, is covered by a timer and
is answered; at most one is held; replies with data are numbered without a gap;
the sanity checks never fire.

*ReverseProxy.* One muxer serves all tunnels and hands packets over on an
unbuffered channel: a busy or dead LongPoller stops every tunnel. Correct means:
a packet reaches the tunnel of its key only; handlers return; stop returns.

*PelicanSocksProxy.* Its loop makes a blocking POST; Chasers report to it under a
timeout while it stops them. Correct means: `chasers` holds the live tunnels,
the owner never panics on a report, stop returns.

*NetConnReader and NetConnWriter.* Stop, notification under a timeout and the
parent's own stop meet; the channels carry buffers that outlive the goroutine.
Correct means: bytes in order, nothing dropped while the connection is good,
stop returns from both sides.

*WebServer.* net/http calls back from the accepting goroutine and from one goroutine per
connection while `Stop` closes listeners and puts a short deadline on what is idle; idle
connections are kept under a local address that all connections to one port share. Correct
means: the deadline hits no request that is answered and everything that is idle, Stop waits for
what is open and returns. (The second and the third do not hold: finding 6.)

*Known hosts.* The table in memory and the one on disk, saved by a rename, in a process
that may die between any two steps. Correct means: the file never loses or half writes an
entry; a verdict follows from what was met.

*Port forwarding.* The sshd shakes hands in its accept loop; all browsers share one channel,
so that the pairs at its two ends stop one another. Correct means: when one end goes, both
ends of everything close.

*Microverse.* Alpha and beta store a reply under one lock, look for its successor under
another, and deliver without any; with forced numbers the replies come in every order, and at
shutdown each part leaves its partner's send without a receiver. Correct means: no chunk is
lost or doubled; a stored reply is found; every Stop returns.

*Test servers.* They panic on what they do not expect, so that a test may fail though the
tunnel did nothing wrong: a late answer, a reset, a message too many in one read. Correct
means: in step as long as answers are in time; whoever waits hears the broadcast; Stop returns.

`PROJECT.json` lists the hazards one by one, each at its line, with the
properties that cover it or the reason why none does yet.

## 2. Plan

| Step | Modules | Question |
|---|---|---|
| 1 (done) | `Wire`, `ClientHome`, `Chaser`, `LongPoller`, `LongPollerProofs` | Each half of a tunnel against the most general other half; safety of the server half proved |
| 2 (done) | `Pipe`, `ConnRW`, `ConnRWProofs` | Reader and writer of one TCP connection: each direction implements a pipe; deadline, notification, stop from both sides |
| 3 (done) | `ReverseProxy`, `ReverseProxyProofs` | The muxer, the handlers, several tunnels: termination of handlers and of stop |
| 4 (done) | `SocksProxy`, `WebServer`, with proofs | The owner's loop against Chasers that end on their own; a graceful stop |
| 5 (done) | `HostTable`, with proofs; `PortForward` | Save, rename, crash and reload; who ends when over ssh |
| 6 (done) | `Microverse`, `CountServer`, with proofs; `BcastServer` | Both halves at once in their reduced form, and what its tests rely on |
| 7 | `Tunnel` (Chaser and LongPoller on one `http`) | Does the whole tunnel implement `Pipe` in each direction? Refinement, for runs with and without disturbance |
| 8 (done) | `ChaserProofs`, the proofs that the writer implements `Pipe` and that the microverse conserves chunks, `AroundProofs` | Every invariant and every action property of the runs, for every value of the constants |
| 9 | the echo server, the account client's message loop | One behaviour each; little to find |

The order is that of importance: the bytes first, the plumbing around them later.
Every module is written to be proved about: constants with named assumptions,
one action per operation, invariants as conjunctions, recursive functions rather
than RECURSIVE operators.

## 3. The modules

* **`Wire`** holds what both halves share: the two roommates (the sockets), and
  the life of one HTTP exchange, `idle`, `sent`, `parked`, `replied` or `gone`. A
  body is the number of the chunk it carries (chunks are numbered in the order in
  which they were read from TCP); the key is left out, since one tunnel is
  modelled. An empty body has the serial -1, as in the code.
* **`ClientHome`**: `home`, `goCached`, `homeUp`. All of its channels are
  unbuffered, so an iteration of its loop is one step together with the goroutine
  at the other end, and `Chaser` conjoins the two.
* **`Chaser`** has a `pc` per roommate whose values name the blocking operation
  that comes next, the monitor goroutine, the caller of `Stop`, the timer with the
  value that may be left in its channel, and the ClientRW channels. The monitor is at `"watch"`,
  `"request"` (has stopped the ClientRW), `"leave"` or `"done"`. The split
  between `"inner"` (entering the select) and `"parked"` (blocked in it) is what
  decides whether home's non-blocking tell is received.
* **`LongPoller`** has the `pc` of its goroutine, the FIFO, the timer (`armed` and
  `tick`), the two maps of serials, the ServerRW channels, and the processes around
  it. The channel from downstream enters the select as the value that
  `RecvFromDownCh()` had when the select was entered (`listening`); likewise
  `SendToDownCh()` is nil once the writer is asked to stop, and a send on it blocks
  (`"blocked"`) until the poller itself is stopped.
* **`Pipe`** is abstract: chunks come out in the order in which they went in, with at most
  `Capacity` under way.
* **`ConnRW`** has the two goroutines of `rw.go`, each with a `pc`, its stop flag and its
  `reportDone`, their channels, the buffer that a timed-out write has shortened, and those
  who stop them: at the server's end the LongPoller (`owner`), at the client's end
  `Chaser.Stop` (`owner`) and the Chaser's monitor, which also receives the
  notifications. Both ends are initial states of one model. A buffer has `Size` units
  and the kernel takes up to `SockCap` of them ahead of the peer, so that a write can be cut.
* **`ReverseProxy`** has the muxer (`mux`, `tunnelMap`), a position per HTTP handler, the
  packet of a handler as it goes from the muxer to a LongPoller and is answered, and
  LongPollers seen from outside: ready to be handed a packet, busy, blocked on their
  downstream connection, or ended. A rendezvous on an unbuffered channel is one step of both
  sides. `finish` is the positions `"stop"`, `"web"`, `"done"` of the muxer.
* **`SocksProxy`** has the owner's loop, the receiver's accept loop, each upstream socket and
  each Chaser as its owner sees it: being created, live, reporting for a second, lost, heard,
  stopped. The POST to `/create` is the owner's place `"create"`, which a silent server may
  never end (`unanswered`).
* **`WebServer`** has the goroutine of `Start`, the stopper, and each connection as its own
  goroutine has it, with the moments between what net/http has seen and what `ConnState` has
  been told. `remembered` is the value set of `conns`: connections with the same local address
  (the constant `LocalAddr`) share one entry. `Close` is five steps, each at its own place.
* **`HostTable`** has the table, `fn` and `fn.new` as functions from keys to records, and
  the places of a save at which the process can die. `Encoded` drops the unexported
  address; a half-written file is `Partial`. `met` is a history of this process.
* **`PortForward`** has the sshd's acceptor with our session and strangers, `SshConnect`,
  `handleChannel`, and a ShovelPair per browser and one at the sshd, each with two copies and
  a monitor. Data is left out: what matters is who ends when.
* **`Microverse`** has a place per roommate, LittlePoll's place, a Boundary at either end
  and the stop in the order of the tests. It takes its home from `ClientHome`. The serials the
  tests force on replies are the function `forceReplySn`, any permutation.
* **`CountServer`**, **`BcastServer`** have each client's and server's goroutines and the byte
  stream between them, which may delay, join messages in one read, end or be reset.
* **`MCAround`** puts these seven side by side. A behaviour picks one of them (`world`) and
  leaves the others in their initial state, so that the states add up and do not multiply;
  it says nothing of how they interact.
* **`MCChaser`**, **`MCLongPoller`**, **`MCConnRW`**, **`MCReverseProxy`** instantiate the others,
  **`MCWebServer`** the web server alone, with one address for all connections. `MCChaser` also holds
  `RepliesInOrder`, which needs a sequence operator of the community modules.
* **`ChaserProofs`**, **`LongPollerProofs`**, **`ConnRWProofs`**, **`ReverseProxyProofs`**,
  **`MicroverseProofs`**, **`HostTableProofs`** hold the theorems about the module they are
  named for; **`AroundProofs`** those about `SocksProxy`, `WebServer`, `CountServer`, the types
  of `PortForward` and `BcastServer`, and about all the parts of `MCAround` together.

Definitions whose comment begins with *Mutated* are faults (a dropped case, a
swapped end, an off-by-one), named in `PROJECT.json` beside the definition they
replace and the property that then fails. They are not part of the model.

The environment of each half is the most general one that numbers its messages
as the other half does: `AnswerEmpty` / `AnswerData` for the Chaser,
`PostEmpty` / `PostChunk` / `TakeReply` / `ClientGivesUp` for the LongPoller. The
actions of the component proper are `ClientNext` in `Chaser` and `ServerNext` in
`LongPoller`, ready to be composed.

`Disturbance` names what may go wrong in a run: `idle` (the inactivity timer),
`hangup` (the upstream connection ends), `httpError`, `stop`; on the server
`eof` and `writerEnds` (the downstream connection ends), `clientGone` (the client
gives up on a parked request), `stop`, `closeKey`.

## 4. The runs

| Run | Instance | What it shows |
|---|---|---|
| `chaser` | 1 chunk, 3 replies, all disturbances | Home agrees with the goroutines; no reply is delivered twice or lost; no chunk is lost before it is posted |
| `chaser_live` | no chunk, 2 replies, all disturbances, fair | Stop and StopWithoutReporting return, whenever they are called; the goroutines end together |
| `chaser_tie` | 1 chunk, 1 reply, undisturbed | **Violation**: both roommates stay home |
| `chaser_order` | 1 chunk, 2 replies, undisturbed | **Violation**: replies are delivered out of order |
| `chaser_work_order` | 2 chunks, undisturbed | **Violation**: chunks get their serials out of order |
| `long_poller` | 3 chunks, 2 buffers, all disturbances, fair | Order, waiters, timer, numbering, causes of a panic; every request is answered, every chunk arrives |
| `long_poller_eof` | 1 chunk, 1 buffer, `eof` | **Violation**: data read before the end of the stream is stranded |
| `conn_rw` | 3 buffers in, 2 out of 2 units, channels of 1, kernel of 1 unit, both ends, fair | Both directions implement `Pipe`; no short write; stop returns and closes last; the client's end ends as a whole |
| `conn_rw_deadline` | 1 buffer out, a peer that drains | **Violation**: a buffer whose deadline has passed is never written |
| `reverse_proxy` | 2 keys, 1 unknown key, 3 requests, fair | No tunnel is forgotten; replies do not outlive handlers; known keys are known; requests and stop end |
| `web_close` | 2 connections to one address | **Violation**: Close returns while an accepted connection is open |
| `around` | seven worlds: 2 connections each, 2 chunks up with all orders of 2 replies, 2 host keys, names and addresses, 2 browsers, numbers up to 5, 2 hearers and 2 broadcasts, fair | Chunks are conserved and stored replies found; the owner knows who reports; stops return and close what they should; the saved table only grows and verdicts have a cause; the counters keep in step |

**Bounds.** `MaxChunk`, `MaxReply` and `MaxDown` bound the numbers of messages with
data. Three replies let one be stored while two come before its turn (with two
sockets at most two messages of a direction are in flight, and one more is needed
for a store to outlive the exchange it came in); three chunks do the same on the
server. Empty messages are unbounded. `ChanCap` is 1000 in the code and 1 here, which makes a full
channel common. `chaser` keeps to one upstream chunk, since the choice and order of work concern
`WorkNotLost` and `SerialsNumberTheStream` only. `chaser_live` does without: a request with a chunk
waits, fails and is cancelled like one without, and the two replies are what fills the channel to
the writer. It has every disturbance, so that a stop may come at any place of any goroutine.

`ConnRW` has three incoming buffers, so that one can be in the channel, one in hand and another
follow; a buffer of two units is cut once, at every place it can
be. In `ReverseProxy` three requests make two tunnels and a packet, or one tunnel and two
packets, or a tunnel, a packet and a request to close it; a key is drawn once.

In `around`, two connections are what it takes for a report, an idle
connection or a stop to meet *another* one (two idle connections under one key, a report
lost while the owner stops the other Chaser). In `Microverse` two
chunks go up and come back as echoes: two roommates have at most two replies
in hand, and the forced order decides which is stored (`Forced` = 2 gives both orders; a
third chunk multiplies the states beyond the time of a run). The downstream boundary
generates
echoes only (`MaxDn` = 0), as in `replyorder_test.go`. Two keys, names and
addresses, one name local, make a mismatch, a move and a ban; an old file may hold anything. `MaxCount` = 5 lets
the client send three numbers. Of the 165 thousand states the microverse has 105,
forwarding 37, the known hosts 12, broadcasting 5 thousand, each other world less than two.

**Deadlock** is not checked: every run has states in which the component has
stopped or panicked, and then nothing happens.

**Fairness**, and why the code justifies it:
* A goroutine that can go on does: weak fairness of each goroutine's steps.
* A select picks a ready case at random, so a case that is ready again and again
  is taken in the end: strong fairness, only where another ready case may win
  (`QuitOnStop` in the Chaser, `Receive` in the LongPoller).
* An HTTP exchange ends, by the server's poll timer or the client's
  `TransportTimeout`: weak fairness of `AnswerEmpty`, on one line with the steps of the roommate,
  which can do nothing until the answer is there.
* The owner that has received a notification calls `Stop` (`client.go` 361-370).
* The poll timer fires, and the downstream connection accepts what is written to
  it (`WriterTakes`).
* `ConnRW`: both goroutines run, timeouts included. Strong fairness only of the stop cases
  of a select. A monitor that waits receives a notification at once, so the 500 ms pass only
  when it has left its select. Of the peer nothing is assumed, but in `conn_rw_deadline`
  that it goes on reading.
* `ReverseProxy`: a handler that waits to send to the muxer gets its turn (strong fairness:
  the muxer returns to its select again and again, and Go serves the senders on a channel
  in order); a LongPoller that is ready answers a packet it holds (shown by
  `RequestAnswered` in `long_poller`). A client may send, close or do nothing, and
  nobody needs to call `Stop`.
* `around`: every goroutine goes on if it can. The subscript `Here` is the
  variables of the world that moves, and a line of `Fairness` names one goroutine of each, since only one
  moves. Strong fairness only of the cases of a select that find a stop (`MicroQuits`,
  `OwnerQuits`). A server may leave a POST unanswered, a stranger may fall silent in
  a handshake, nobody needs to stop or hang up, and of a crash or a rename nothing is assumed.
* Nothing is assumed of the upstream client, the downstream server, the
  inactivity timer or the disturbances, and nothing of the server's data.

**Violations.** Each is a disagreement of the code with a line of the repository.

1. *The tie* (`TieSendsAlpha`; `alphabeta.go` 39-41 says that alpha goes). Alpha has
   read a cached "stay" but is not yet in its select when beta arrives; home's tell
   has a `default` and is dropped (699-703); beta reads "stay" too. No long poll is
   open and the server cannot speak until the client does.
2. *Reply order* (`RepliesInOrder`; comment `alphabeta.go` 860 and the test
   `tun/microverse/replyorder_test.go` 40). `DoRequestResponse` stores the named
   result `back`, which nothing has assigned, and returns `body`: an early reply is
   delivered at once, and what is stored is empty.
3. *Order of work* (`SerialsNumberTheStream`; `server.go` 287: "order the sends with
   content by serial number"). A roommate takes a chunk, meets home, and only then
   draws its serial: the one with the later chunk may draw first, and the server
   faithfully "restores" the wrong order.
4. *Data at the end of the stream* (`BufferedDataReachable`; comment `longpoll.go`
   287-288). When the NetConnReader ends, `RecvFromDownCh` answers nil although the
   channel still holds buffers: they are never sent to the client.
5. *Write deadline* (`TakenIsWritten`; comment `rw.go` 468-469: "we never stop trying to
   deliver"). `SetWriteDeadline` is called once per buffer, outside the loop that retries:
   after one timeout every retry fails at once and the writer spins until it is
   stopped, even if the peer reads again. Moving the call into the loop is not enough:
   `NoShortWrite` then fails (the mutant `Renewed`), because `nbuf` is not shortened with `buf`.
6. *What Close promises* (`CloseIsComplete`; comment `webserver.go` 142-146: "Close blocks
   until all connections have been closed", the idle ones "after a short grace period").
   The property has two halves, and each is violated on its own.
   `CloseWaitsForAll`, which the run shows: a connection is counted by the callback for
   `StateNew` (82), which net/http makes after `Accept` has returned it; in between `Close` finds
   the count at zero and returns, and the connection is served.
   `IdleGetGrace`: idle connections are recorded under their local address (94); the next
   request on another connection to the same port deletes the record (85), and `Close` gives
   the short deadline to one of them at most. The others keep it waiting until their client
   closes or `ReadTimeout` ends them. Here `SetKeepAlivesEnabled` only sets a flag, as in the
   net/http for which the code was written; later ones also close what is idle.

**Exceptions that properties name.** `PacketAnswered` excepts a packet whose key is unknown
(its handler waits until the proxy stops, `server.go` 137-140) and the time when a tunnel is
blocked on its downstream server (the muxer waits with it, 144-149). `StopReturns` of the
ReverseProxy excepts a createHandler that is sending on `createQueue` when the muxer has left
its loop (216): nobody receives, the handler never returns, and the web server's stop waits
for it. `ResponseWriterLive` holds until `Stop` is called: then `injectPacket` returns at once
while a LongPoller may still write the reply.

`StopsReturn` is one property of seven worlds, and each module defines where its stops lead
to beside what it waits for:
* `ProxyStopOver`, `QueryOver`: a POST to `/create` that is never answered (`client.go` 269) keeps
  the owner from its select, and nothing frees it.
* `WebStopOver`: `Start` returns as soon as the port is bound; a `Stop` before the listener
  is recorded (`webserver.go` 198) closes nothing and waits for ever.
* `HandshakeOver`: a silent stranger in the sshd's accept loop (`sshd.go` 174).
* `CounterStops`, `HearersStop`: a client whose read met the end of the connection returns
  without closing `Done`; one whose `MsgRecvd` nobody takes never looks at its stop.
* `ShutdownOver` (microverse) and `AllEnd` (forwarding) have none.

`StopLeavesOneAtMost` excepts the connection that the receiver had in hand when its stop
came (it is neither sent nor closed). `VerdictHasCause` lets a host that is known from the file alone not pass as
`KnownOK`: its address was not saved (`knownhosts.go` 35). `CountsInStep` ends with the first
read that times out, and lets the client panic if its dial is refused.

## 5. What is proved

Every invariant and action property of the passing runs, and both refinements of `Pipe`, are
theorems. What the theorems assume of the constants is in the named assumptions of the
modules and is what a run's constants have too: naturals, positive capacities, finite or
disjoint sets.

### Chaser

`ChaserProofs` proves, for every number of chunks and replies, channel capacity and set of
disturbances (`ChaserAssumption`), of `Spec`:

* `TypeCorrect`: `TypeOK`, with `RepliesNumbered` (a reply on its way back carries a chunk that
  was issued, under its number, or nothing), which keeps the keys of the stored replies and
  the batches within their types. `TypeControl`, `TypeConn` and `TypeReplies` are proved apart.
* `HomeCorrect`: `HomeAgrees`, inductive with the types: a roommate crosses between `AtHome`
  and `Away` only in its own rendezvous with home, and an error exit, which home is not told of,
  leaves both for good (`Leaving`).
* `OnceCorrect` and `NotLostCorrect`: `EachReplyOnce`, `ReplyNotLost`. `RepliesInv` has four
  parts. `Awaited`: a reply goes to a roommate with empty hands. `OnePlace`: an issued chunk is
  on the wire, in hand, or in one send at most, and one that is not issued is nowhere.
  `Everywhere`: it is at one of them, while both goroutines are in their loops. `BatchesShort`:
  a batch has at most one chunk, and what is stored is empty. The last one is
  the defect of finding 2 (`StoredResponse`), and the proof rests on it: a reply that comes
  early is handed on at once and stored as nothing, so that playing it back repeats nothing.
  Storing the body alone (the mutant `StoredBody`) breaks `EachReplyOnce`.
* `WorkCorrect`: `WorkNotLost`, a sum over the channel, the two hands and the serials drawn.
  `WorkInPlace` says that a roommate at either select has empty hands, so that taking a chunk
  overwrites none.

### LongPoller

`LongPollerProofs` proves, for every number of chunks, channel capacity and set of
disturbances (assumption `PollerAssumption`: two naturals, a positive capacity, a
set of names), of `Spec`:

* `TypeCorrect`: `TypeOK`.
* `OrderCorrect`: `DownstreamInOrder` and `StoredIsAhead`.
* `WaitersCorrect`: `WaitersAreParked`, `AtMostOneHeld`, `TimerCoversWaiter`.
* `RepliesCorrect`: `RepliesNumberTheStream`.
* `PanicCorrect`: `PanicHasCause`.
* `StoredCorrect`, `HeldCorrect`, `TimerCorrect`: `StoredIsAhead`, `AtMostOneHeld` and
  `TimerCoversWaiter` on their own.

*Order.* The invariant as stated is not inductive: a new request could repeat an
old serial. `RequestsFresh` says that the serials of the requests under way and of
those stored are different from one another, and lie above
`lastRequestSerialNumberSeen` and not above `posted`; `StreamSplit` says that `sent`,
then `writeMe`, spell out the stream up to that number. `PanicCorrect` follows from the
same two, since the sanity checks test what freshness excludes.

*Waiters.* `WaitersBounded` bounds the FIFO by what `pc` allows (at most one request
when the loop is ready, one or two between a packet and its conclusion) and says that
the select listens to the downstream server only while somebody waits. With it,
`WaitersAreParked` and `TimerCoversWaiter` are inductive; `AtMostOneHeld` is a part of
it. Lemmas `TakenJoins`, `AnsweredLeaves` say what a push and a pop do to the set of
waiters.

*Replies.* `StreamRead` says that `fromDown` holds the last buffers read, so that
the next one has the number `nextReplySerial`.

### ConnRW

`ConnRWProofs` proves, for any bounds on the buffers and positive capacities and sizes
(`ConnAssumption`), of `Spec`:

* `TypeCorrect`: `TypeOK`. The count `n` of a Write is bounded only together with what is
  left (`UnitsSplit`); positions and flags (`TypeControl`) and buffers (`TypeData`) are
  proved apart.
* `CloseCorrect`: `CloseComesLast`. Inductive with `StoppersWait`: a stopper is past a
  goroutine only if that one is done, and (`DoneStays`) done is for good, so that it does not
  matter which of two stoppers comes first.
* `WriteCorrect`: `NoShortWrite`, by `WholeOrLate`: either the deadline has not passed and
  this Write began with the whole buffer, or it has passed and something is left for good. The
  proof shows what the code relies on: it is the defect of finding 5 that keeps the check
  of `nbuf` from failing.
* `ReadImplementsPipe`: `Spec => ReadIsPipe`, the refinement of `Pipe`. `StreamSplit` says
  that what was taken, what is in the channel and what is in hand spell out the stream, and
  that a buffer is let go only by a reader that reads no more.
* `WriteImplementsPipe`: `Spec => WriteIsPipe`, the other direction. `UnitsTaken` counts units:
  those the kernel has and those left of the writer's buffer are those of the buffers taken
  from the channel, whose last units are in their places. A buffer comes out of the pipe
  when the kernel takes its last unit (`WholeTaken`), and every other step is a stutter or puts one in.

### ReverseProxy

`ReverseProxyProofs` proves, for any sets of keys and requests (`ProxyAssumption`), of `Spec`:
`TypeCorrect`, `OrphansCorrect`, `KeysCorrect` and `ResponseWriterCorrect`. `Placed` ties the
position of a handler to its packet and key. `KeysKnown` is the argument for the keys: a key is
in the map, or closed, before createHandler replies with it, and a client has no other keys.

### Microverse

`MicroverseProofs` proves, for any numbers of chunks and of forced replies
(`MicroverseAssumption`) and any permutation of their numbers, of `MicroSpec`:

* `StrandedCorrect`: `NoneStranded`, inductive with the types: a reply whose turn has come is taken and
  not stored, so that a stored one gets its turn only when a roommate takes its predecessor,
  and that roommate looks for it before it delivers.
* `ChunksCorrect`: `ChunksConserved`. `UpOnce` and `DownOnce` say that a chunk that was generated is at
  one place, or after a stop at none, and any other is at none. Each step is one of a few ways to
  change a set of places, and a lemma says of each that it repeats nothing, or loses nothing
  either (`NoneMade`, `Preserved`): one chunk moves (`Moved`), several move at once and no two to one place
  (`Mapped`, for a boundary that absorbs and for what is taken down together), or some
  are dropped by a stop (`Lost`). That storing overwrites nothing is `ReplySerials` and `ReqSerials`: a
  serial is at one place only, which for the replies needs `SerialsDiffer` (the forced
  numbers permute an initial segment). `HandsKnown` and `PollerKnown` say who has empty
  hands; `LastFollowingIs`, that the run of stored requests that `LpTake` sends down
  has an end, is well-founded induction over the finitely many stored.
* `MicroTypeCorrect`: `MicroTypeOK`. That a roommate's work lies within what upstream may
  generate follows from `DownOnce`.

### The parts around the core

Their specifications (`SocksSpec`, `HostSpec`, `WebSpec`, `CountSpec`) have no
fairness; `MCAround` adds it.

*SocksProxy* (any set of connections). `OwnerKnowsReporters` and
`StopLeavesOneAtMost` follow from `Accounted`, four conjuncts: the types of the tables; the
owner is busy with one connection at a time, at the place its Chaser calls for, and every
other Chaser is in the map; the receiver offers one connection, which has no Chaser; an open
connection without a Chaser is the one the receiver kept. The argument is that a Chaser
leaves the map only in the step in which the owner hears it, so that no later report can be
unknown.

*HostTable* (any keys, names, addresses; `HostAssumption` and `FileAssumption` say that local
names are names and that "absent" and "half written" are no tables). `FileOnlyGrows` needs
`TableCoversFile`: a process that runs knows at least what the file says, and what it is about
to rename is its whole table. `VerdictHasCause` needs `TableKnowsMet`: the address in a record is one
this process met, and what it met it has kept. Lemmas say what `Encoded`, `Decoded` and an addition do.

*WebServer* (any finite set of connections and any local addresses, `WebAssumption`).
`GraceCorrect`: `GraceSparesReplies` is inductive with the types (`RecordStep`). A connection gets
on record only as its own `StateIdle` returns and must pass `StateActive` to have a reply to
write; that deletes whatever is recorded under its address, itself included. That records
of others go as well is the second half of finding 6, and harms no reply. `WaitCorrect`: when `Close` has waited,
all connections that are counted are closed. It rests on `WgCounts`,
`wg = Cardinality(Open)`, proved with the library's facts about cardinality. The connection that is
not counted yet (finding 6) is why it says no more.

*CountServer* (any number of messages). `InStep` says where the one number is: nowhere, on
its way up, being answered, or on its way down; `CountsInStep` follows.

*Side by side.* `PartsCorrect` says that a behaviour of `MCAround` is a behaviour of each
part, since a part that is not the world stands still. `AroundCorrect` thus has the safety
properties of all parts for the specification that the run checks. `AroundTypeCorrect` is
its `TypeOK`, which also bounds numbers: `NumbersBounded` (the client of the counting test
compares with the bound before it writes, and the server returns what it read plus one) and
`UnreadBounded` (a hearer's unread messages and the one it is yet to get are within the calls of `Bcast`).

Each proof has one step per action; lemmas such as `OrderKept` say which variables a
conjunct depends on, so that the actions that leave them alone are one line each.

## 6. What is only model-checked

Liveness, which needs `ENABLED` and fairness, and these the prover does not cover:
`StopReturnsEventually` and `PartnersEndTogether` of the Chaser, `RequestAnswered` and
`ChunkArrives` of the LongPoller, `StopReturns` and `EndsTogether` of the reader and writer,
`StopReturns` and `PacketAnswered` of the ReverseProxy, `StopsReturn` of the parts around.
`PortForward` and `BcastServer` have no other property than these and their types.

## 7. What is not modelled

* The composition of Chaser and LongPoller on one wire (step 7). `Microverse` composes their
  reduced forms. The LongPoller knows its muxer only
  as a process that hands over packets, stops it or closes its key, and no longer hands
  over once it has called Stop.
* A panic that takes down the process where the model could only stop: `panicOn` on
  malformed bodies (`alphabeta.go` 836), errors of deadlines. For the LongPoller the panics
  that its own logic can reach are modelled as the state `"panicked"`.
* Data races on plain fields (`rw.go` 228 sets a channel field to nil that others read
  without a lock), listed as a hazard.
* In `ReverseProxy`, a panic of a LongPoller other than on a closed key (the module
  `LongPoller` has the others), and a request that is malformed: it is answered at once.
* The latency study of ClientHome (`localWishesToSend`), logging, histories kept for
  tests, `fastWaitDur` other than the 0 that `NewLongPoller` sets.
* Dialling, HTTP parsing, key generation: libraries or pure computation. TLS, which wraps a
  listener and which no program here uses.
* `pergob.go` takes the steps of `perjson.go` with another encoding. Two processes that write
  one table.
* The verdict of `PermitClientConnection` is a choice. `Stop` of the sshd is not implemented in the code;
  its key file and demonstration web server hold no protocol.
* `SshMakeNewAcct` sends ten messages whatever comes back and then blocks for ever: one
  behaviour. The echo server answers once per connection.
* `tun/microverse/rw.go`, a copy of an earlier `rw.go` that its package declares and does not
  start; `shovelbuf.go`, used by its own test; command line tools.

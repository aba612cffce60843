---------------------------- MODULE AroundProofs ----------------------------
(***************************************************************************)
(* The safety properties of the parts around the tunnel's core, for any    *)
(* connections, hosts and browsers, each part first on its own, and then   *)
(* that a behaviour of MCAround is one of each of them.                    *)
(***************************************************************************)
EXTENDS MCAround, MicroverseProofs, HostTableProofs

-----------------------------------------------------------------------------
(***************************************************************************)
(* The client program around its Chasers (SocksProxy).                     *)
(***************************************************************************)
(***************************************************************************)
(* What the properties need to be inductive.                               *)
(***************************************************************************)

\* The types of what the owner and the receiver keep about connections.
TablesTyped ==
  /\ chasers \subseteq Conn
  /\ chaser \in [Conn -> {"none", "creating", "live", "report", "lost", "heard",
                         "stopped"}]
  /\ socket \in [Conn -> {"none", "backlog", "offered", "open", "closed",
                         "reset"}]

\* The owner is busy with one connection at a time, and at the place that its
\* Chaser calls for; every other Chaser that was started is in the map.
OwnerBusyWithOne ==
  /\ \A c \in Conn : chaser[c] = "creating" => owner = "create"
  /\ \A c \in Conn : chaser[c] = "heard" => owner = "stopOne"
  /\ \A c, d \in Conn : /\ chaser[c] \in {"creating", "heard"}
                        /\ chaser[d] \in {"creating", "heard"}
                        => c = d
  /\ owner = "done" => chasers = {}

\* The receiver offers one connection at a time, and none that has a Chaser.
OffersOne ==
  /\ \A c \in Conn : socket[c] = "offered" => receiver = "offer"
  /\ \A c, d \in Conn : socket[c] = "offered" /\ socket[d] = "offered" => c = d
  /\ \A c \in Conn : socket[c] \in {"none", "backlog", "offered"} => chaser[c] = "none"

\* An open connection without a Chaser is the one that a stop of the receiver
\* found in its hand; the connection of a Chaser that was stopped is closed.
OneLeftOpen ==
  /\ \A c \in Conn : socket[c] = "open" /\ chaser[c] = "none" => receiver = "done"
  /\ \A c, d \in Conn : /\ socket[c] = "open" /\ chaser[c] = "none"
                        /\ socket[d] = "open" /\ chaser[d] = "none"
                        => c = d
  /\ \A c \in Conn : chaser[c] = "stopped" => socket[c] = "closed"

Accounted == TablesTyped /\ OwnerBusyWithOne /\ OffersOne /\ OneLeftOpen
-----------------------------------------------------------------------------
LEMMA KnownInit == SocksInit => Accounted /\ OwnerKnowsReporters
  BY DEF SocksInit, Accounted, TablesTyped, OwnerBusyWithOne, OffersOne,
         OneLeftOpen, OwnerKnowsReporters

\* A step keeps the types of the tables.
LEMMA TablesStep == TablesTyped /\ [SocksNext]_socksVars => TablesTyped'
  <1> SUFFICES ASSUME TablesTyped, [SocksNext]_socksVars PROVE TablesTyped'
    OBVIOUS
  <1> USE DEF TablesTyped, ownerVars, upVars, connVars
  <1>1. CASE ReceiverStep
    BY <1>1 DEF ReceiverStep, ReceiverChecks, AcceptFails, Accept, OfferAbandoned
  <1>2. CASE OwnerStep
    <2>1. CASE AnswerQuery \/ UpStopped \/ OwnerDone
      BY <2>1 DEF AnswerQuery, UpStopped, OwnerDone
    <2>2. ASSUME NEW c \in Conn, TakeConn(c) \/ CreateFails(c) \/ HearChaser(c)
          PROVE  TablesTyped'
      BY <2>2 DEF TakeConn, CreateFails, HearChaser
    <2>3. ASSUME NEW c \in Conn, StartChaser(c) PROVE TablesTyped'
      BY <2>3 DEF StartChaser, Kept
    <2>4. ASSUME NEW c \in Conn, StopHeard(c) \/ StopOneOf(c) PROVE TablesTyped'
      BY <2>4 DEF StopHeard, StopOneOf
    <2> QED
      BY <1>2, <2>1, <2>2, <2>3, <2>4 DEF OwnerStep
  <1>3. CASE OwnerQuits
    BY <1>3 DEF OwnerQuits
  <1>4. ASSUME NEW c \in Conn, ChaserEnds(c) \/ ReportLost(c) \/ ClientConnects(c)
        PROVE  TablesTyped'
    BY <1>4 DEF ChaserEnds, ReportLost, ClientConnects
  <1>5. CASE StopProxy \/ AskCount \/ QueryStopped
    BY <1>5 DEF StopProxy, AskCount, QueryStopped
  <1>6. CASE UNCHANGED socksVars
    BY <1>6 DEF socksVars
  <1> QED
    BY <1>1, <1>2, <1>3, <1>4, <1>5, <1>6 DEF SocksNext

\* A step that moves one connection from a Chaser's place to another's, or the
\* owner, keeps the account.
LEMMA KnownStep ==
  Accounted /\ OwnerKnowsReporters /\ [SocksNext]_socksVars
    => (Accounted /\ OwnerKnowsReporters)'
  <1> DEFINE Rest == OwnerBusyWithOne /\ OffersOne /\ OneLeftOpen
                       /\ OwnerKnowsReporters
  <1> SUFFICES ASSUME Accounted, OwnerKnowsReporters, [SocksNext]_socksVars
               PROVE  Rest'
    BY TablesStep DEF Accounted
  <1> USE DEF Accounted, TablesTyped, OwnerBusyWithOne, OffersOne, OneLeftOpen,
              OwnerKnowsReporters, ownerVars, upVars, connVars
  <1>1. CASE ReceiverStep
    <2>1. CASE ReceiverChecks \/ AcceptFails
      BY <2>1 DEF ReceiverChecks, AcceptFails
    <2>2. ASSUME NEW c \in Conn, Accept(c) PROVE Rest'
      BY <2>2 DEF Accept
    <2>3. ASSUME NEW c \in Conn, OfferAbandoned(c) PROVE Rest'
      BY <2>3 DEF OfferAbandoned
    <2> QED
      BY <1>1, <2>1, <2>2, <2>3 DEF ReceiverStep
  <1>2. CASE OwnerStep
    <2>1. CASE AnswerQuery \/ UpStopped
      BY <2>1 DEF AnswerQuery, UpStopped
    <2>2. CASE OwnerDone
      BY <2>2 DEF OwnerDone, AllStopped
    <2>3. ASSUME NEW c \in Conn, TakeConn(c) PROVE Rest'
      BY <2>3 DEF TakeConn
    <2>4. ASSUME NEW c \in Conn, StartChaser(c) PROVE Rest'
      BY <2>4 DEF StartChaser, Kept
    <2>5. ASSUME NEW c \in Conn, CreateFails(c) PROVE Rest'
      BY <2>5 DEF CreateFails
    <2>6. ASSUME NEW c \in Conn, HearChaser(c) PROVE Rest'
      BY <2>6 DEF HearChaser
    <2>7. ASSUME NEW c \in Conn, StopHeard(c) PROVE Rest'
      BY <2>7 DEF StopHeard
    <2>8. ASSUME NEW c \in Conn, StopOneOf(c) PROVE Rest'
      BY <2>8 DEF StopOneOf
    <2> QED
      BY <1>2, <2>1, <2>2, <2>3, <2>4, <2>5, <2>6, <2>7, <2>8 DEF OwnerStep
  <1>3. CASE OwnerQuits
    BY <1>3 DEF OwnerQuits
  <1>4. ASSUME NEW c \in Conn, ChaserEnds(c) PROVE Rest'
    BY <1>4 DEF ChaserEnds
  <1>5. ASSUME NEW c \in Conn, ReportLost(c) PROVE Rest'
    BY <1>5 DEF ReportLost, GivesUp
  <1>6. ASSUME NEW c \in Conn, ClientConnects(c) PROVE Rest'
    BY <1>6 DEF ClientConnects
  <1>7. CASE StopProxy \/ AskCount \/ QueryStopped
    BY <1>7 DEF StopProxy, AskCount, QueryStopped
  <1>8. CASE UNCHANGED socksVars
    BY <1>8 DEF socksVars
  <1> QED
    BY <1>1, <1>2, <1>3, <1>4, <1>5, <1>6, <1>7, <1>8 DEF SocksNext

\* The owner's sanity check on who reports cannot fail.
THEOREM ReportersCorrect == SocksSpec => []OwnerKnowsReporters
  BY KnownInit, KnownStep, PTL DEF SocksSpec

\* Once Stop is through no Chaser is left, and at most one connection is open.
THEOREM StopCorrect == SocksSpec => []StopLeavesOneAtMost
  <1>1. Accounted /\ OwnerKnowsReporters => StopLeavesOneAtMost
    <2> SUFFICES ASSUME Accounted, OwnerKnowsReporters, owner = "done"
                 PROVE  /\ \A c \in Conn : chaser[c] \in {"none", "stopped"}
                        /\ \A c, d \in Conn :
                             socket[c] = "open" /\ socket[d] = "open" => c = d
      BY DEF StopLeavesOneAtMost
    <2>1. \A c \in Conn : chaser[c] \in {"none", "stopped"}
      BY DEF Accounted, TablesTyped, OwnerBusyWithOne, OwnerKnowsReporters
    <2>2. \A c \in Conn : socket[c] = "open" => chaser[c] = "none"
      BY <2>1 DEF Accounted, OneLeftOpen
    <2> QED
      BY <2>1, <2>2 DEF Accounted, OneLeftOpen
  <1> QED
    BY <1>1, KnownInit, KnownStep, PTL DEF SocksSpec
-----------------------------------------------------------------------------
(***************************************************************************)
(* What Close of the web server does keep of its promise (WebServer).      *)
(***************************************************************************)

Open == {c \in HttpConn : Counted(c)}

\* The types that the counting needs.
ConnsTyped ==
  /\ hconn \in [HttpConn -> {"none", "backlog", "accepted", "new", "reading",
                             "active", "replied", "record", "idle", "closing",
                             "closed", "reset"}]
  /\ wg \in Nat

\* wg counts the connections that were reported as new and not as closed.
WgCounts == wg = Cardinality(Open)

-----------------------------------------------------------------------------
LEMMA OpenFinite == IsFiniteSet(Open) /\ Cardinality(Open) \in Nat
  BY WebAssumption, FS_Subset, FS_CardinalityType DEF Open

LEMMA WebProofInit == WebInit => ConnsTyped /\ WgCounts /\ GraceSparesReplies
  <1> SUFFICES ASSUME WebInit PROVE ConnsTyped /\ WgCounts /\ GraceSparesReplies
    OBVIOUS
  <1>1. Open = {}
    BY DEF WebInit, Open, Counted
  <1> QED
    BY <1>1, FS_EmptySet DEF WebInit, ConnsTyped, WgCounts, GraceSparesReplies

\* A step that moves a connection within those counted, or outside, keeps wg.
LEMMA SameOpen ==
  ASSUME ConnsTyped, WgCounts, wg' = wg,
         \A c \in HttpConn : Counted(c)' <=> Counted(c)
  PROVE  WgCounts'
  <1>1. Open' = Open
    BY DEF Open
  <1> QED
    BY <1>1 DEF WgCounts

\* The steps that count.
LEMMA OneMoreOpen ==
  ASSUME ConnsTyped, WgCounts, NEW c \in HttpConn, CountsNew(c)
  PROVE  WgCounts' /\ wg' \in Nat
  <1>1. Open' = Open \cup {c} /\ c \notin Open
    BY DEF CountsNew, ConnMoves, Open, Counted, ConnsTyped
  <1>2. Cardinality(Open') = Cardinality(Open) + 1
    BY <1>1, OpenFinite, FS_AddElement
  <1> QED
    BY <1>2 DEF CountsNew, Counts, WgCounts, ConnsTyped

LEMMA OneLessOpen ==
  ASSUME ConnsTyped, WgCounts, NEW c \in HttpConn, CountsClosed(c)
  PROVE  WgCounts' /\ wg' \in Nat
  <1>1. Open' = Open \ {c} /\ c \in Open
    BY DEF CountsClosed, ConnMoves, Open, Counted, ConnsTyped
  <1>2. Cardinality(Open') = Cardinality(Open) - 1
    BY <1>1, OpenFinite, FS_RemoveElement
  <1>3. Cardinality(Open) # 0
    BY <1>1, OpenFinite, FS_EmptySet
  <1> QED
    BY <1>2, <1>3, OpenFinite DEF CountsClosed, WgCounts, ConnsTyped

LEMMA WgStep == ConnsTyped /\ WgCounts /\ [WebNext]_webVars => ConnsTyped' /\ WgCounts'
  <1> SUFFICES ASSUME ConnsTyped, WgCounts, [WebNext]_webVars
               PROVE  ConnsTyped' /\ WgCounts'
    OBVIOUS
  <1> DEFINE Same == /\ hconn' \in [HttpConn -> {"none", "backlog", "accepted",
                             "new", "reading", "active", "replied", "record",
                             "idle", "closing", "closed", "reset"}]
                     /\ wg' = wg
                     /\ \A c \in HttpConn : Counted(c)' <=> Counted(c)
  <1>1. Same => ConnsTyped' /\ WgCounts'
    <2> SUFFICES ASSUME Same PROVE ConnsTyped' /\ WgCounts'
      OBVIOUS
    <2> QED
      BY SameOpen DEF ConnsTyped
  <1> USE DEF ConnsTyped, ConnMoves, Counted, serveVars
  <1>2. CASE ServeStep
    <2>1. CASE Listens \/ Registers \/ ServeEnds
      BY <1>1, <2>1 DEF Listens, Registers, ServeEnds
    <2>2. ASSUME NEW c \in HttpConn, AcceptsConn(c) PROVE Same
      BY <2>2 DEF AcceptsConn
    <2>3. ASSUME NEW c \in HttpConn, CountsNew(c) PROVE ConnsTyped' /\ WgCounts'
      BY <2>3, OneMoreOpen DEF CountsNew
    <2> QED
      BY <1>1, <1>2, <2>1, <2>2, <2>3 DEF ServeStep
  <1>3. ASSUME NEW c \in HttpConn, HttpConnStep(c) PROVE ConnsTyped' /\ WgCounts'
    <2>1. CASE Activates(c)
      BY <1>1, <2>1 DEF Activates
    <2>2. CASE RepliesTo(c)
      BY <1>1, <2>2 DEF RepliesTo
    <2>3. CASE IdleLooks(c)
      BY <1>1, <2>3 DEF IdleLooks
    <2>4. CASE IdleRecords(c)
      BY <1>1, <2>4 DEF IdleRecords
    <2>5. CASE HttpConnEnds(c)
      BY <1>1, <2>5 DEF HttpConnEnds
    <2>6. CASE CountsClosed(c)
      BY <2>6, OneLessOpen DEF CountsClosed
    <2> QED
      BY <1>3, <2>1, <2>2, <2>3, <2>4, <2>5, <2>6 DEF HttpConnStep
  <1>4. ASSUME NEW c \in HttpConn, HttpConnects(c) \/ RequestBegins(c)
        PROVE  ConnsTyped' /\ WgCounts'
    BY <1>1, <1>4 DEF HttpConnects, RequestBegins
  <1>5. CASE StopStep
    <2>1. CASE ClosesListeners
      BY <1>1, <2>1 DEF ClosesListeners
    <2>2. CASE SignalsConns \/ DisablesKeepAlives \/ WaitsForConns \/ StopReturns
      BY <1>1, <2>2 DEF SignalsConns, DisablesKeepAlives, WaitsForConns, StopReturns
    <2> QED
      BY <1>5, <2>1, <2>2 DEF StopStep
  <1>6. CASE StartReturns \/ StopsServer
    BY <1>1, <1>6 DEF StartReturns, StopsServer
  <1>7. CASE UNCHANGED webVars
    BY <1>1, <1>7 DEF webVars
  <1> QED
    BY <1>2, <1>3, <1>4, <1>5, <1>6, <1>7 DEF WebNext
-----------------------------------------------------------------------------
\* A record is made of an idle connection, and deleted before the connection
\* reports that it is active.
LEMMA RecordStep ==
  WebTypeOK /\ GraceSparesReplies /\ [WebNext]_webVars => GraceSparesReplies'
  <1> SUFFICES ASSUME WebTypeOK, GraceSparesReplies, [WebNext]_webVars
               PROVE  GraceSparesReplies'
    OBVIOUS
  <1> USE DEF WebTypeOK, GraceSparesReplies, ConnMoves, serveVars
  <1>1. CASE ServeStep
    BY <1>1 DEF ServeStep, Listens, Registers, ServeEnds, AcceptsConn, CountsNew
  <1>2. ASSUME NEW c \in HttpConn, HttpConnStep(c) PROVE GraceSparesReplies'
    <2>1. CASE Activates(c)
      BY <2>1 DEF Activates, Forgets
    <2>2. CASE RepliesTo(c) \/ IdleLooks(c)
      BY <2>2 DEF RepliesTo, IdleLooks
    <2>3. CASE IdleRecords(c)
      BY <2>3 DEF IdleRecords, Forgets
    <2>4. CASE HttpConnEnds(c) \/ CountsClosed(c)
      BY <2>4 DEF HttpConnEnds, CountsClosed
    <2> QED
      BY <1>2, <2>1, <2>2, <2>3, <2>4 DEF HttpConnStep
  <1>3. ASSUME NEW c \in HttpConn, HttpConnects(c) \/ RequestBegins(c)
        PROVE  GraceSparesReplies'
    BY <1>3 DEF HttpConnects, RequestBegins
  <1>4. CASE StopStep
    BY <1>4 DEF StopStep, SignalsConns, DisablesKeepAlives, ClosesListeners,
                WaitsForConns, StopReturns
  <1>5. CASE StartReturns \/ StopsServer
    BY <1>5 DEF StartReturns, StopsServer
  <1>6. CASE UNCHANGED webVars
    BY <1>6 DEF webVars
  <1> QED
    BY <1>1, <1>2, <1>3, <1>4, <1>5, <1>6 DEF WebNext

LEMMA WebTypeInit == WebInit => WebTypeOK
  <1> SUFFICES ASSUME WebInit PROVE WebTypeOK
    OBVIOUS
  <1> USE DEF WebInit
  <1>1. /\ serving \in {"listen", "register", "accept", "count", "ended"}
        /\ port \in {"free", "bound", "closed"}
        /\ stopper \in {"none", "signal", "disable", "lock", "wait", "join",
                            "returned"}
        /\ remembered \subseteq HttpConn /\ wg \in Nat
    OBVIOUS
  <1>2. hconn \in [HttpConn -> {"none", "backlog", "accepted", "new", "reading",
                             "active", "replied", "record", "idle", "closing",
                             "closed", "reset"}]
    OBVIOUS
  <1>3. {registered, started, ch} \subseteq BOOLEAN
    OBVIOUS
  <1> QED
    BY <1>1, <1>2, <1>3 DEF WebTypeOK

LEMMA WebTypeStep ==
  WebTypeOK /\ WgCounts /\ [WebNext]_webVars => WebTypeOK'
  <1> SUFFICES ASSUME WebTypeOK, WgCounts, [WebNext]_webVars PROVE WebTypeOK'
    OBVIOUS
  <1> DEFINE PlacesTyped ==
               /\ serving \in {"listen", "register", "accept", "count", "ended"}
               /\ port \in {"free", "bound", "closed"}
               /\ remembered \subseteq HttpConn
               /\ stopper \in {"none", "signal", "disable", "lock", "wait", "join",
                            "returned"}
               /\ {registered, started, ch} \subseteq BOOLEAN
  <1>1. ConnsTyped'
    BY WgStep DEF WebTypeOK, ConnsTyped
  <1>2. PlacesTyped'
    <2> USE DEF WebTypeOK, serveVars
    <2>1. CASE ServeStep
      BY <2>1 DEF ServeStep, Listens, Registers, ServeEnds, AcceptsConn, CountsNew
    <2>2. ASSUME NEW c \in HttpConn, HttpConnStep(c) PROVE PlacesTyped'
      BY <2>2 DEF HttpConnStep, Activates, Forgets, RepliesTo, IdleLooks,
                  IdleRecords, HttpConnEnds, CountsClosed
    <2>3. ASSUME NEW c \in HttpConn, HttpConnects(c) \/ RequestBegins(c)
          PROVE  PlacesTyped'
      BY <2>3 DEF HttpConnects, RequestBegins
    <2>4. CASE StopStep
      BY <2>4 DEF StopStep, SignalsConns, DisablesKeepAlives, ClosesListeners,
                  WaitsForConns, StopReturns
    <2>5. CASE StartReturns \/ StopsServer
      BY <2>5 DEF StartReturns, StopsServer
    <2>6. CASE UNCHANGED webVars
      BY <2>6 DEF webVars
    <2> QED
      BY <2>1, <2>2, <2>3, <2>4, <2>5, <2>6 DEF WebNext
  <1> QED
    BY <1>1, <1>2 DEF ConnsTyped, WebTypeOK

\* The short deadline hits no connection that answers a request.
THEOREM GraceCorrect == WebSpec => []GraceSparesReplies
  BY WebTypeInit, WebProofInit, WgStep, WebTypeStep, RecordStep, PTL
  DEF WebSpec

\* When Close goes on, whoever has been reported to it as new has been reported
\* as closed.  (Who is accepted and not yet reported is why CloseWaitsForAll
\* does not hold.)
CloseWaitsForCounted ==
  [][WaitsForConns => \A c \in HttpConn : ~Counted(c)]_webVars

THEOREM WaitCorrect == WebSpec => CloseWaitsForCounted
  <1>1. WgCounts /\ WaitsForConns => \A c \in HttpConn : ~Counted(c)
    <2> SUFFICES ASSUME WgCounts, WaitsForConns PROVE \A c \in HttpConn : ~Counted(c)
      OBVIOUS
    <2>1. Open = {}
      BY OpenFinite, FS_EmptySet DEF WaitsForConns, WgCounts
    <2> QED
      BY <2>1 DEF Open
  <1>2. WebSpec => [](ConnsTyped /\ WgCounts)
    BY WebProofInit, WgStep, PTL DEF WebSpec
  <1> QED
    BY <1>1, <1>2, PTL DEF WebSpec, CloseWaitsForCounted
-----------------------------------------------------------------------------
(***************************************************************************)
(* The two ends of the counting test stay in step (CountServer), as long   *)
(* as no read of the client times out.                                     *)
(***************************************************************************)
CountersTyped ==
  /\ {lastCountSent, nextCountToSend, cliCount, lastCountRecv} \subseteq Nat
  /\ upBytes \in Seq(Nat) /\ downBytes \in Seq(Nat)

(***************************************************************************)
(* What the property needs to be inductive: where the one number is.       *)
(***************************************************************************)
Before == IF lastCountSent = 1 THEN 0 ELSE lastCountSent - 2

\* Nothing is under way, and the server has had all that was sent.
Quiet ==
  /\ Len(upBytes) = 0 /\ Len(downBytes) = 0 /\ service # "reply"
  /\ lastCountRecv = lastCountSent

GoesUp ==
  /\ Len(upBytes) = 1 /\ upBytes[1] = lastCountSent
  /\ Len(downBytes) = 0 /\ service # "reply"
  /\ lastCountRecv = Before

IsAnswered ==
  /\ Len(upBytes) = 0 /\ Len(downBytes) = 0
  /\ service = "reply" /\ cliCount = lastCountSent
  /\ lastCountRecv = Before

ComesDown ==
  /\ Len(upBytes) = 0 /\ Len(downBytes) = 1 /\ downBytes[1] = lastCountSent + 1
  /\ service # "reply"
  /\ lastCountRecv = lastCountSent

\* The client's next number is due.
NextIsDue ==
  nextCountToSend = IF lastCountSent = 0 THEN 1 ELSE lastCountSent + 2

InStep ==
  ~late =>
    /\ broken => cut \/ counter = "off"
    /\ NextIsDue /\ lastCountSent # 2
    /\ counter \in {"off", "write", "read", "deliver", "check", "done", "eof"}
    /\ counter \in {"off", "write", "deliver", "check", "done"} => Quiet
    /\ counter \in {"read", "eof"} =>
         (lastCountSent > 0 /\ (Quiet \/ GoesUp \/ IsAnswered \/ ComesDown))
    /\ counter = "eof" => cut
-----------------------------------------------------------------------------
LEMMA InStepInit == CountInit => CountersTyped /\ InStep
  BY DEF CountInit, CountersTyped, InStep, Quiet, NextIsDue

\* What a read of k messages returns first and leaves behind.
LEMMA ReadLeaves ==
  ASSUME NEW R, NEW s \in Seq(R), NEW k \in 1..Len(s)
  PROVE  Head(s) \in R /\ SubSeq(s, k + 1, Len(s)) \in Seq(R)
  <1>1. Len(s) \in Nat /\ s # << >> /\ \A i \in 1..Len(s) : s[i] \in R
    BY LenProperties, ElementOfSeq
  <1>2. k + 1 \in Int /\ Len(s) \in Int /\ \A i \in (k + 1)..Len(s) : s[i] \in R
    BY <1>1
  <1> QED
    BY <1>1, <1>2, SubSeqProperties, HeadTailProperties

\* What reading k of one message does.
LEMMA ReadsOne ==
  ASSUME NEW s \in Seq(Nat), Len(s) = 1, NEW k \in 1..Len(s)
  PROVE  /\ Head(s) = s[1] /\ SubSeq(s, k + 1, Len(s)) \in Seq(Nat)
         /\ Len(SubSeq(s, k + 1, Len(s))) = 0
  OBVIOUS

LEMMA CountersStep == CountersTyped /\ [CountNext]_countVars => CountersTyped'
  <1> SUFFICES ASSUME CountersTyped, [CountNext]_countVars PROVE CountersTyped'
    OBVIOUS
  <1> USE DEF CountersTyped, clientVars, serverVars, countStops
  <1>1. CASE WritesCount
    BY <1>1 DEF WritesCount, NextCount
  <1>2. CASE ReadsCount
    <2>1. PICK k \in 1..Len(downBytes) :
            downBytes' = SubSeq(downBytes, k + 1, Len(downBytes))
      BY <1>2 DEF ReadsCount
    <2>2. downBytes' \in Seq(Nat)
      BY <2>1, ReadLeaves
    <2> QED
      BY <1>2, <2>2 DEF ReadsCount
  <1>3. CASE ServiceReads
    <2>1. PICK k \in 1..Len(upBytes) :
            upBytes' = SubSeq(upBytes, k + 1, Len(upBytes))
      BY <1>3 DEF ServiceReads
    <2>2. upBytes' \in Seq(Nat)
      BY <2>1, ReadLeaves
    <2>3. Head(upBytes) \in Nat
      BY <2>1, ReadLeaves
    <2> QED
      BY <1>3, <2>2, <2>3 DEF ServiceReads
  <1>4. CASE ServiceReplies
    BY <1>4 DEF ServiceReplies
  <1>5. CASE CountTimesOut \/ CountMeetsEof \/ CountMeetsReset \/ ChecksStop
             \/ DeliversCount
    BY <1>5 DEF CountTimesOut, CountMeetsEof, CountMeetsReset, ChecksStop,
                DeliversCount
  <1>6. CASE \/ StartsCounter \/ CounterRefused \/ StopsCounter \/ StopsCountServer
             \/ AcceptsCounter \/ ServiceEnds \/ CutsConn
    BY <1>6 DEF StartsCounter, CounterRefused, StopsCounter,
                StopsCountServer, AcceptsCounter, ServiceEnds, CutsConn
  <1>7. CASE UNCHANGED countVars
    BY <1>7 DEF countVars
  <1> QED
    BY <1>1, <1>2, <1>3, <1>4, <1>5, <1>6, <1>7 DEF CountNext, CounterStep

LEMMA InStepStep == CountersTyped /\ InStep /\ [CountNext]_countVars => InStep'
  <1> SUFFICES ASSUME CountersTyped, InStep, [CountNext]_countVars, ~late'
               PROVE  InStep'
    BY DEF InStep
  <1>a. ~late
    BY DEF CountNext, CounterStep, StartsCounter, CounterRefused, WritesCount,
           ReadsCount, CountTimesOut, CountMeetsEof, CountMeetsReset,
           DeliversCount, ChecksStop, StopsCounter, StopsCountServer,
           AcceptsCounter, ServiceReads, ServiceReplies, ServiceEnds,
           CutsConn, clientVars, countVars
  <1> USE <1>a DEF CountersTyped, InStep, Quiet, GoesUp, IsAnswered, ComesDown,
              Before, NextIsDue, clientVars, serverVars, countStops
  <1>1. CASE WritesCount
    BY <1>1 DEF WritesCount, NextCount
  <1>2. CASE ReadsCount
    <2>1. PICK k \in 1..Len(downBytes) :
            downBytes' = SubSeq(downBytes, k + 1, Len(downBytes))
      BY <1>2 DEF ReadsCount
    <2>2. ComesDown
      BY <1>2, <2>1 DEF ReadsCount
    <2>3. Head(downBytes) = lastCountSent + 1 /\ Len(downBytes') = 0
      BY <2>1, <2>2, ReadsOne
    <2> QED
      BY <1>2, <2>2, <2>3 DEF ReadsCount
  <1>3. CASE ServiceReads
    <2>1. PICK k \in 1..Len(upBytes) :
            upBytes' = SubSeq(upBytes, k + 1, Len(upBytes))
      BY <1>3 DEF ServiceReads
    <2>2. GoesUp
      BY <1>3, <2>1 DEF ServiceReads
    <2>3. Head(upBytes) = lastCountSent /\ Len(upBytes') = 0
      BY <2>1, <2>2, ReadsOne
    <2> QED
      BY <1>3, <2>2, <2>3 DEF ServiceReads
  <1>4. CASE ServiceReplies
    BY <1>4 DEF ServiceReplies
  <1>5. CASE CountTimesOut
    BY <1>5 DEF CountTimesOut
  <1>6. CASE CountMeetsEof \/ CountMeetsReset
    BY <1>6 DEF CountMeetsEof, CountMeetsReset
  <1>7. CASE ChecksStop \/ DeliversCount
    BY <1>7 DEF ChecksStop, DeliversCount
  <1>8. CASE ~broken /\ (StartsCounter \/ CounterRefused)
    BY <1>8 DEF StartsCounter, CounterRefused
  <1>9. CASE StopsCounter \/ StopsCountServer \/ CutsConn
    BY <1>9 DEF StopsCounter, StopsCountServer, CutsConn
  <1>10. CASE AcceptsCounter \/ ServiceEnds
    BY <1>10 DEF AcceptsCounter, ServiceEnds
  <1>11. CASE UNCHANGED countVars
    BY <1>11 DEF countVars
  <1> QED
    BY <1>1, <1>2, <1>3, <1>4, <1>5, <1>6, <1>7, <1>8, <1>9, <1>10, <1>11
    DEF CountNext, CounterStep

\* As long as each read is answered in time the two ends stay in step.
THEOREM StepCorrect == CountSpec => []CountsInStep
  <1>1. CountersTyped /\ InStep => CountsInStep
    <2> SUFFICES ASSUME CountersTyped, InStep, ~late PROVE CountsInStep
      BY DEF CountsInStep
    <2>1. broken => cut \/ counter = "off"
      BY DEF InStep
    <2>2. Quiet \/ GoesUp \/ IsAnswered \/ ComesDown
      BY DEF InStep
    <2>3. InFlight <= 1
      <3>1. InFlight = Len(upBytes) + Len(downBytes) + (IF service = "reply" THEN 1 ELSE 0)
        BY DEF InFlight
      <3>2. CASE Quiet
        BY <3>1, <3>2 DEF Quiet
      <3>3. CASE GoesUp
        BY <3>1, <3>3 DEF GoesUp
      <3>4. CASE IsAnswered
        BY <3>1, <3>4 DEF IsAnswered
      <3>5. CASE ComesDown
        BY <3>1, <3>5 DEF ComesDown
      <3> QED
        BY <2>2, <3>2, <3>3, <3>4, <3>5
    <2>4. lastCountRecv \in {lastCountSent, lastCountSent - 2, 0}
      <3>1. lastCountRecv = lastCountSent \/ lastCountRecv = Before
        BY <2>2 DEF Quiet, GoesUp, IsAnswered, ComesDown
      <3>2. Before \in {0, lastCountSent - 2}
        BY DEF Before
      <3> QED
        BY <3>1, <3>2
    <2> QED
      BY <2>1, <2>3, <2>4 DEF CountsInStep
  <1> QED
    BY <1>1, InStepInit, CountersStep, InStepStep, PTL DEF CountSpec
-----------------------------------------------------------------------------
(***************************************************************************)
(* The types of every part: what a step keeps on its own, or with a little *)
(* more known of it.                                                       *)
(***************************************************************************)

LEMMA HomeTypeInit == MicroInit => HomeTypeOK
  BY DEF MicroInit, HomeInit, HomeTypeOK

LEMMA HomeTypeStep == HomeTypeOK /\ [MicroNext]_microVars => HomeTypeOK'
  <1> SUFFICES ASSUME HomeTypeOK, [MicroNext]_microVars PROVE HomeTypeOK'
    OBVIOUS
  <1> USE DEF HomeTypeOK
  <1>1. CASE UNCHANGED homeVars
    BY <1>1 DEF homeVars
  <1>2. ASSUME NEW r \in Roommate, Departs(r) \/ Arrives(r) PROVE HomeTypeOK'
    <2>1. /\ homeUp' = homeUp /\ goCached' = shouldGo(home')
          /\ home' \in [Roommate -> BOOLEAN]
      BY <1>2 DEF Departs, Arrives
    <2>2. goCached' \in [Roommate -> BOOLEAN]
      BY <2>1 DEF shouldGo
    <2> QED
      BY <2>1, <2>2
  <1>3. CASE HomeStops
    BY <1>3 DEF HomeStops
  <1>4. ASSUME NEW r \in Roommate, RoomStep(r)
        PROVE  Departs(r) \/ Arrives(r) \/ UNCHANGED homeVars
    BY <1>4 DEF RoomStep, AskHome, TakeIncoming, NoneIncoming, LeaveHome, ComeHome,
                AddsPresent, AddsNoMore, DeliverUp, NumberRequest, AbandonRequest,
                JudgeReply
  <1>5. ASSUME NEW r \in Roommate, RoommateQuits(r) \/ RoommateEnds(r)
        PROVE  UNCHANGED homeVars
    BY <1>5 DEF RoommateQuits, RoommateEnds
  <1>6. LpStep => UNCHANGED homeVars
    BY DEF LpStep, LpTimeUp, LpFromDown, LpToDown, LpDropsWork, LpLingers,
           LpMovesOn, LpTake, LpAnswers
  <1>7. LpQuits => UNCHANGED homeVars
    BY DEF LpQuits
  <1>8. ASSUME NEW b \in Boundary, GenTimerFires(b) \/ BoundaryQuits(b)
        PROVE  UNCHANGED homeVars
    BY <1>8 DEF GenTimerFires, BoundaryQuits
  <1>9. StopAll => UNCHANGED homeVars
    BY DEF StopAll
  <1>10. StopNext => HomeStops \/ UNCHANGED homeVars
    BY DEF StopNext
  <1>11. UNCHANGED microVars => UNCHANGED homeVars
    BY DEF microVars
  <1> HIDE DEF HomeTypeOK
  <1> QED
    BY <1>1, <1>2, <1>3, <1>4, <1>5, <1>6, <1>7, <1>8, <1>9, <1>10, <1>11
    DEF MicroNext

LEMMA SocksTypeInit == SocksInit => SocksTypeOK
  BY DEF SocksInit, SocksTypeOK

LEMMA SocksTypeStep == SocksTypeOK /\ [SocksNext]_socksVars => SocksTypeOK'
  <1> SUFFICES ASSUME SocksTypeOK, [SocksNext]_socksVars PROVE SocksTypeOK'
    OBVIOUS
  <1> DEFINE PlacesTyped ==
               /\ owner \in {"loop", "create", "stopOne", "stopUp", "stopAll",
                             "done", "panicked"}
               /\ receiver \in {"check", "accept", "offer", "done"}
               /\ {unanswered, stopAsked, upStop, query} \subseteq BOOLEAN
  <1>1. TablesTyped'
    BY TablesStep DEF SocksTypeOK, TablesTyped
  <1>2. PlacesTyped'
    <2> USE DEF SocksTypeOK, ownerVars, upVars, connVars
    <2>1. CASE ReceiverStep
      BY <2>1 DEF ReceiverStep, ReceiverChecks, AcceptFails, Accept, OfferAbandoned
    <2>2. CASE OwnerStep
      <3>1. CASE AnswerQuery \/ UpStopped \/ OwnerDone
        BY <3>1 DEF AnswerQuery, UpStopped, OwnerDone
      <3>2. ASSUME NEW c \in Conn, TakeConn(c) \/ CreateFails(c) \/ HearChaser(c)
            PROVE  PlacesTyped'
        BY <3>2 DEF TakeConn, CreateFails, HearChaser
      <3>3. ASSUME NEW c \in Conn, StartChaser(c) \/ StopHeard(c) \/ StopOneOf(c)
            PROVE  PlacesTyped'
        BY <3>3 DEF StartChaser, StopHeard, StopOneOf
      <3> QED
        BY <2>2, <3>1, <3>2, <3>3 DEF OwnerStep
    <2>3. CASE OwnerQuits
      BY <2>3 DEF OwnerQuits
    <2>4. ASSUME NEW c \in Conn, ChaserEnds(c) \/ ReportLost(c) \/ ClientConnects(c)
          PROVE  PlacesTyped'
      BY <2>4 DEF ChaserEnds, ReportLost, ClientConnects
    <2>5. CASE StopProxy \/ AskCount \/ QueryStopped
      BY <2>5 DEF StopProxy, AskCount, QueryStopped
    <2>6. CASE UNCHANGED socksVars
      BY <2>6 DEF socksVars
    <2> QED
      BY <2>1, <2>2, <2>3, <2>4, <2>5, <2>6 DEF SocksNext
  <1> QED
    BY <1>1, <1>2 DEF TablesTyped, SocksTypeOK

LEMMA FwdTypeInit == FwdInit => FwdTypeOK
  BY DEF FwdInit, FwdTypeOK

LEMMA FwdTypeStep == FwdTypeOK /\ [FwdNext]_fwdVars => FwdTypeOK'
  <1> SUFFICES ASSUME FwdTypeOK, [FwdNext]_fwdVars PROVE FwdTypeOK'
    OBVIOUS
  <1> USE DEF FwdTypeOK, sshVars, placeVars, pairVars
  <1>1. ASSUME NEW p \in Pair, StartsPair(p)
        PROVE  /\ copy' \in [Pair -> [Direction -> {"off", "runs", "done"}]]
               /\ asked' \in [Pair -> [Direction -> BOOLEAN]]
               /\ monitor' \in [Pair -> {"off", "watch", "AB", "BA", "done"}]
    BY <1>1 DEF StartsPair
  <1>2. CASE DialsSshd \/ TakesStranger \/ SshdStep
    BY <1>2 DEF DialsSshd, TakesStranger, SshdStep, TakesUs, ShakesHands, StrangerDone
  <1>3. CASE CallerStep
    <2>1. CASE OpensChannel
      BY <2>1 DEF OpensChannel
    <2>2. CASE DialsWebServer
      BY <2>2 DEF DialsWebServer
    <2>3. CASE AcceptsChannel
      BY <1>1, <2>3 DEF AcceptsChannel, Pair, End
    <2>4. CASE ListenTimesOut
      BY <2>4 DEF ListenTimesOut
    <2>5. ASSUME NEW b \in Browser, AcceptsBrowser(b) PROVE FwdTypeOK'
      BY <1>1, <2>5 DEF AcceptsBrowser, Pair
    <2> QED
      BY <1>3, <2>1, <2>2, <2>3, <2>4, <2>5 DEF CallerStep
  <1>4. ASSUME NEW p \in Pair, PairStep(p) PROVE FwdTypeOK'
    <2>1. CASE MonitorEnds(p)
      BY <2>1 DEF MonitorEnds
    <2>2. ASSUME NEW d \in Direction, CopyEnds(p, d) PROVE FwdTypeOK'
      BY <2>2 DEF CopyEnds
    <2>3. ASSUME NEW d \in Direction, MonitorSees(p, d) PROVE FwdTypeOK'
      BY <2>3 DEF MonitorSees, StopsOther, Reverse, Direction
    <2>4. ASSUME NEW d \in Direction, ClosesEnds(p, d) PROVE FwdTypeOK'
      BY <2>4 DEF ClosesEnds, A, B, Pair, End
    <2> QED
      BY <1>4, <2>1, <2>2, <2>3, <2>4 DEF PairStep
  <1>5. ASSUME NEW b \in Browser, BrowserConnects(b) PROVE FwdTypeOK'
    BY <1>5 DEF BrowserConnects
  <1>6. ASSUME NEW e \in End, FarSideCloses(e) PROVE FwdTypeOK'
    BY <1>6 DEF FarSideCloses
  <1>7. CASE UNCHANGED fwdVars
    BY <1>7 DEF fwdVars
  <1> QED
    BY <1>2, <1>3, <1>4, <1>5, <1>6, <1>7 DEF FwdNext
\* What keeps the numbers of the counting test within their bound: the client
\* asks for the bound before it writes, and the server passes on what it read.
NumbersBounded ==
  /\ CountTypeOK
  /\ {lastCountSent, cliCount, lastCountRecv} \subseteq 0..MaxCount
  /\ upBytes \in Seq(0..MaxCount)
  /\ counter \in {"off", "write"} => nextCountToSend <= MaxCount

LEMMA BoundedInit == CountInit => NumbersBounded
  <1> SUFFICES ASSUME CountInit PROVE NumbersBounded
    OBVIOUS
  <1>1. /\ 0 \in 0..MaxCount /\ 0 \in Numbers /\ 1 \in Numbers /\ 1 <= MaxCount
        /\ << >> \in Seq(0..MaxCount) /\ << >> \in Seq(Numbers)
    BY CountAssumption DEF Numbers
  <1> QED
    BY <1>1 DEF CountInit, NumbersBounded, CountTypeOK

LEMMA BoundedStep == NumbersBounded /\ [CountNext]_countVars => NumbersBounded'
  <1> SUFFICES ASSUME NumbersBounded, [CountNext]_countVars PROVE NumbersBounded'
    OBVIOUS
  <1> USE CountAssumption DEF NumbersBounded, CountTypeOK, clientVars, serverVars,
                              countStops
  <1>0. /\ 0..MaxCount \subseteq Numbers
        /\ \A n \in 0..MaxCount : n + 1 \in Numbers /\ n + 2 \in Numbers
        /\ Seq(0..MaxCount) \subseteq Seq(Numbers)
    BY DEF Numbers
  <1>1. CASE WritesCount
    <2>1. nextCountToSend \in 0..MaxCount
      BY <1>1 DEF WritesCount, Numbers
    <2>2. upBytes' \in Seq(0..MaxCount)
      BY <1>1, <2>1 DEF WritesCount
    <2>3. nextCountToSend' \in Numbers
      BY <1>0, <1>1, <2>1 DEF WritesCount, NextCount
    <2> QED
      BY <1>0, <1>1, <2>1, <2>2, <2>3 DEF WritesCount
  <1>2. CASE ReadsCount
    <2>1. PICK k \in 1..Len(downBytes) :
            downBytes' = SubSeq(downBytes, k + 1, Len(downBytes))
      BY <1>2 DEF ReadsCount
    <2>2. downBytes' \in Seq(Numbers)
      BY <2>1, ReadLeaves
    <2> QED
      BY <1>2, <2>2 DEF ReadsCount
  <1>3. CASE ServiceReads
    <2>1. PICK k \in 1..Len(upBytes) :
            upBytes' = SubSeq(upBytes, k + 1, Len(upBytes))
      BY <1>3 DEF ServiceReads
    <2>2. upBytes' \in Seq(0..MaxCount)
      BY <2>1, ReadLeaves
    <2>3. Head(upBytes) \in 0..MaxCount
      BY <2>1, ReadLeaves
    <2> QED
      BY <1>0, <1>3, <2>2, <2>3 DEF ServiceReads
  <1>4. CASE ServiceReplies
    <2>1. downBytes' \in Seq(Numbers)
      BY <1>0, <1>4 DEF ServiceReplies
    <2> QED
      BY <1>0, <1>4, <2>1 DEF ServiceReplies
  <1>5. CASE CountTimesOut \/ CountMeetsEof \/ CountMeetsReset \/ DeliversCount
    BY <1>5 DEF CountTimesOut, CountMeetsEof, CountMeetsReset, DeliversCount
  <1>6. CASE ChecksStop
    BY <1>6 DEF ChecksStop
  <1>7. CASE StartsCounter \/ CounterRefused \/ AcceptsCounter \/ ServiceEnds
    BY <1>7 DEF StartsCounter, CounterRefused, AcceptsCounter, ServiceEnds
  <1>8. CASE StopsCounter \/ StopsCountServer \/ CutsConn
    BY <1>8 DEF StopsCounter, StopsCountServer, CutsConn
  <1>9. CASE UNCHANGED countVars
    BY <1>9 DEF countVars
  <1> QED
    BY <1>1, <1>2, <1>3, <1>4, <1>5, <1>6, <1>7, <1>8, <1>9
    DEF CountNext, CounterStep

\* What keeps the messages of a client within the calls of Bcast: those under
\* way and the one that this call has yet to write.
UnreadBounded ==
  /\ BcastTypeOK
  /\ \A c \in Hearer : unread[c] + (IF c \in sending THEN 1 ELSE 0) <= bcasts

LEMMA UnreadInit == BcastInit => UnreadBounded
  <1> SUFFICES ASSUME BcastInit PROVE UnreadBounded
    OBVIOUS
  <1> USE BcastAssumption DEF BcastInit
  <1>1. \A c \in Hearer : unread[c] + (IF c \in sending THEN 1 ELSE 0) <= bcasts
    OBVIOUS
  <1>2. /\ hearer \in [Hearer -> {"off", "reads", "done", "eof"}]
        /\ listed \in [Hearer -> {"no", "backlog", "waiting", "closed"}]
    OBVIOUS
  <1>3. unread \in [Hearer -> 0..MaxBcasts] /\ lastMsg \in [Hearer -> 0..MaxBcasts]
    OBVIOUS
  <1>4. /\ sending \subseteq Hearer /\ hearerStop \subseteq Hearer
        /\ bcasts \in 0..MaxBcasts
    OBVIOUS
  <1>5. {bcastDown, bcastBroken} \subseteq BOOLEAN
    OBVIOUS
  <1> QED
    BY <1>1, <1>2, <1>3, <1>4, <1>5 DEF UnreadBounded, BcastTypeOK

LEMMA UnreadStep == UnreadBounded /\ [BcastNext]_bcastVars => UnreadBounded'
  <1> SUFFICES ASSUME UnreadBounded, [BcastNext]_bcastVars PROVE UnreadBounded'
    OBVIOUS
  <1> USE BcastAssumption DEF UnreadBounded, BcastTypeOK
  <1>1. ASSUME NEW c \in Hearer, BcastWrites(c) PROVE UnreadBounded'
    <2>1. unread[c] + 1 <= bcasts
      BY <1>1 DEF BcastWrites
    <2>2. CASE /\ unread' = [unread EXCEPT ![c] = IF hearer[c] = "reads" THEN @ + 1 ELSE @]
               /\ UNCHANGED bcastBroken
      <3>1. unread' \in [Hearer -> 0..MaxBcasts]
        BY <2>1, <2>2
      <3>2. \A d \in Hearer :
              unread'[d] + (IF d \in sending' THEN 1 ELSE 0) <= bcasts'
        BY <1>1, <2>1, <2>2 DEF BcastWrites
      <3> QED
        BY <1>1, <2>2, <3>1, <3>2 DEF BcastWrites
    <2>3. CASE bcastBroken' = TRUE /\ UNCHANGED unread
      BY <1>1, <2>3 DEF BcastWrites
    <2> QED
      BY <1>1, <2>2, <2>3 DEF BcastWrites
  <1>2. ASSUME NEW c \in Hearer, HearerStep(c) PROVE UnreadBounded'
    <2>1. CASE Hears(c)
      BY <2>1 DEF Hears
    <2>2. CASE HearerQuits(c)
      BY <2>2 DEF HearerQuits
    <2>3. CASE HearerMeetsEof(c)
      BY <2>3 DEF HearerMeetsEof
    <2> QED
      BY <1>2, <2>1, <2>2, <2>3 DEF HearerStep
  <1>3. CASE BcastBegins
    BY <1>3 DEF BcastBegins
  <1>4. CASE CloseClientConnections
    BY <1>4 DEF CloseClientConnections
  <1>5. CASE StopsBcastServer
    BY <1>5 DEF StopsBcastServer
  <1>6. ASSUME NEW c \in Hearer,
               StartsHearer(c) \/ HearerRefused(c) \/ ListsHearer(c)
        PROVE  UnreadBounded'
    BY <1>6 DEF StartsHearer, HearerRefused, ListsHearer
  <1>7. ASSUME NEW c \in Hearer, StopsHearer(c) PROVE UnreadBounded'
    BY <1>7 DEF StopsHearer
  <1>8. CASE UNCHANGED bcastVars
    BY <1>8 DEF bcastVars
  <1> QED
    BY <1>1, <1>2, <1>3, <1>4, <1>5, <1>6, <1>7, <1>8 DEF BcastNext, BcastStep
-----------------------------------------------------------------------------
(***************************************************************************)
(* The parts side by side.                                                 *)
(***************************************************************************)

\* A behaviour of MCAround is one of each part: a part that is not the world
\* stands still.
LEMMA PartsInit ==
  Init => /\ MicroInit /\ SocksInit /\ WebInit /\ HostInit /\ FwdInit /\ CountInit
          /\ BcastInit
  BY DEF Init

LEMMA SideBySide ==
  [Next]_vars => /\ [MicroNext]_microVars /\ [SocksNext]_socksVars
                 /\ [WebNext]_webVars /\ [HostNext]_hostVars /\ [FwdNext]_fwdVars
                 /\ [CountNext]_countVars /\ [BcastNext]_bcastVars
  BY DEF Next, vars, Micro, Socks, Web, Hosts, Forward, Count, Bcasts

LEMMA PartsCorrect ==
  Spec => MicroSpec /\ SocksSpec /\ WebSpec /\ HostSpec /\ CountSpec
  BY PartsInit, SideBySide, PTL DEF Spec, MicroSpec, SocksSpec, WebSpec, HostSpec,
     CountSpec

\* Every variable of every part keeps its type, and with the bounds of a run
\* its range.
THEOREM AroundTypeCorrect == Spec => []TypeOK
  <1> DEFINE HostInv == FilesTyped /\ TableCoversFile /\ TableKnowsMet /\ VerdictHasCause
             Inv == /\ HomeTypeOK /\ SocksTypeOK /\ WebTypeOK /\ WgCounts /\ HostInv
                    /\ FwdTypeOK /\ NumbersBounded /\ UnreadBounded
  <1>1. Init => Inv
    BY PartsInit, HomeTypeInit, SocksTypeInit, WebTypeInit, WebProofInit, FilesInit,
       VerdictInit, FwdTypeInit, BoundedInit, UnreadInit
  <1>2. Inv /\ [Next]_vars => Inv'
    <2> SUFFICES ASSUME Inv, [Next]_vars PROVE Inv'
      OBVIOUS
    <2>1. HomeTypeOK' /\ SocksTypeOK' /\ FwdTypeOK'
      BY SideBySide, HomeTypeStep, SocksTypeStep, FwdTypeStep
    <2>2. WebTypeOK' /\ WgCounts'
      BY SideBySide, WebTypeStep, WgStep DEF WebTypeOK, ConnsTyped
    <2>3. HostInv'
      BY SideBySide, FilesStep, VerdictStep
    <2>4. NumbersBounded' /\ UnreadBounded'
      BY SideBySide, BoundedStep, UnreadStep
    <2> QED
      BY <2>1, <2>2, <2>3, <2>4
  <1>3. Inv => /\ HomeTypeOK /\ SocksTypeOK /\ WebTypeOK /\ HostTypeOK /\ FwdTypeOK
               /\ CountTypeOK /\ BcastTypeOK
    BY DEF FilesTyped, TableKnowsMet, HostTypeOK, NumbersBounded, UnreadBounded
  <1>4. Spec => []Inv
    BY <1>1, <1>2, PTL DEF Spec
  <1> HIDE DEF Inv
  <1> QED
    BY <1>3, <1>4, PartsCorrect, MicroTypeCorrect, PTL DEF TypeOK

\* What is correct of each part alone is correct of them side by side.
THEOREM AroundCorrect ==
  Spec => /\ [](NoneStranded /\ ChunksConserved)
          /\ [](OwnerKnowsReporters /\ StopLeavesOneAtMost)
          /\ [](GraceSparesReplies /\ VerdictHasCause /\ CountsInStep)
          /\ FileOnlyGrows
  BY PartsCorrect, StrandedCorrect, ChunksCorrect, ReportersCorrect, StopCorrect,
     GraceCorrect, VerdictCorrect, StepCorrect, FileCorrect, PTL
=============================================================================

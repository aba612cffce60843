----------------------------- MODULE ConnRWProofs -----------------------------
(***************************************************************************)
(* The safety properties of ConnRW, for any number of buffers, capacities  *)
(* of channels and kernel, and sizes of buffers: types, the order of stop  *)
(* and close, that no Write is taken for a short one, and that both the    *)
(* NetConnReader and the NetConnWriter with its channel implement Pipe.    *)
(***************************************************************************)
EXTENDS ConnRW, SequenceTheorems, TLAPS

(***************************************************************************)
(* What the properties need to be inductive.                               *)
(***************************************************************************)

\* A stopper has got past a goroutine only if that one is done.
StoppersWait ==
  /\ CloseComesLast
  /\ \A s \in Stopper :
       /\ at[s] \in {"askWriter", "awaitWriter", "close", "done"} =>
            pc["reader"] = "done"
       /\ at[s] \in {"close", "done"} => pc["writer"] = "done"

\* While the deadline has not passed, what the kernel has taken in this Write
\* and what is left make up the whole buffer; after it has, something is left
\* for good.
WholeOrLate ==
  /\ NoShortWrite
  /\ pc["writer"] = "write" => IF late THEN left > 0 ELSE n + left = Size
  /\ pc["writer"] = "check" => late /\ left > 0

\* The buffers taken, those in the channel and the one in hand spell out the
\* stream.  A buffer is let go only by a reader that will not read again.
StreamSplit ==
  /\ \A i \in 1..Len(got) : got[i] = i
  /\ \A i \in 1..Len(inCh) : inCh[i] = Len(got) + i
  /\ Len(got) + Len(inCh) <= read
  /\ pc["reader"] \in {"top", "read"} => Len(got) + Len(inCh) = read
  /\ pc["reader"] = "send" => Len(got) + Len(inCh) + 1 = read /\ hold = read

\* How many buffers the writer has taken off its channel.
Taken == put - Len(outCh)

\* The units that the kernel has taken and those left of the writer's buffer are
\* those of the buffers taken, the last unit of each says which it is, and the
\* channel holds the next ones.
UnitsTaken ==
  /\ Len(outCh) <= put
  /\ \A i \in 1..Len(outCh) : outCh[i] = Taken + i
  /\ Len(out) + left = Taken * Size
  /\ pc["writer"] = "take" => left = 0
  /\ pc["writer"] \in {"write", "check"} => buf = Taken
  /\ \A i \in 1..Taken : i * Size <= Len(out) => out[i * Size] = i
-------------------------------------------------------------------------------
(***************************************************************************)
(* Types.                                                                  *)
(***************************************************************************)

\* Of the units of a buffer some are taken in this Write, some are left, and
\* those that earlier Writes took are in neither number.
UnitsSplit == n + left <= Size

Typed == TypeOK /\ UnitsSplit

LEMMA TypeInit == Init => Typed
  <1> SUFFICES ASSUME Init PROVE Typed
    OBVIOUS
  <1>1. stop \in [Goroutine -> BOOLEAN] /\ report \in [Goroutine -> BOOLEAN]
    BY DEF Init
  <1>2. late \in BOOLEAN /\ inEnd \in BOOLEAN /\ outEnd \in BOOLEAN
        /\ closed \in BOOLEAN
    BY DEF Init
  <1>3. at \in [Stopper -> StopPlace] /\ pc \in [Goroutine -> Place]
    BY DEF Init, StopPlace, Place
  <1>4. Len(inCh) <= ChanCap /\ Len(outCh) <= ChanCap /\ SockCap \in 0..SockCap
    BY ConnAssumption DEF Init
  <1> QED
    BY <1>1, <1>2, <1>3, <1>4, ConnAssumption
    DEF Init, TypeOK, Typed, UnitsSplit

\* TypeOK in two parts: positions and flags, buffers and channels.
TypeControl ==
  /\ side \in {"server", "client"}
  /\ pc \in [Goroutine -> Place]
  /\ stop \in [Goroutine -> BOOLEAN] /\ report \in [Goroutine -> BOOLEAN]
  /\ late \in BOOLEAN /\ inEnd \in BOOLEAN /\ outEnd \in BOOLEAN
  /\ closed \in BOOLEAN
  /\ at \in [Stopper -> StopPlace]

TypeData ==
  /\ read \in Nat /\ hold \in Nat /\ inCh \in Seq(Nat) /\ got \in Seq(Nat)
  /\ Len(inCh) <= ChanCap
  /\ put \in Nat /\ outCh \in Seq(Nat) /\ buf \in Nat /\ out \in Seq(Nat)
  /\ Len(outCh) <= ChanCap
  /\ left \in 0..Size /\ n \in 0..Size /\ n + left <= Size
  /\ room \in 0..SockCap

LEMMA TypedParts == Typed <=> TypeControl /\ TypeData
  BY DEF Typed, TypeOK, UnitsSplit, TypeControl, TypeData

\* Every step keeps the types of positions and flags.
LEMMA ControlStep == TypeControl /\ [Next]_vars => TypeControl'
  <1> SUFFICES ASSUME TypeControl, [Next]_vars PROVE TypeControl'
    OBVIOUS
  <1> USE DEF TypeControl, Place, StopPlace, Goto, Walk, goVars, connVars,
              stopVars, bufVars
  <1>1. CASE Reader
    <2>1. CASE ReaderLooks \/ ReadTimesOut \/ ReadFails
      BY <2>1 DEF ReaderLooks, ReadTimesOut, ReadFails
    <2>2. CASE Read \/ Send \/ SendQuits
      BY <2>2 DEF Read, Send, SendQuits
    <2> QED
      BY <1>1, <2>1, <2>2 DEF Reader
  <1>2. CASE TakeBuffer
    BY <1>2 DEF TakeBuffer
  <1>3. CASE KernelTakes
    BY <1>3 DEF KernelTakes
  <1>4. CASE TakeQuits
    BY <1>4 DEF TakeQuits
  <1>5. CASE WriteReturns
    BY <1>5 DEF WriteReturns
  <1>6. CASE WriteTimesOut
    BY <1>6 DEF WriteTimesOut, LateAfterTimeout
  <1>7. CASE WriterChecks \/ WriteFails
    BY <1>7 DEF WriterChecks, WriteFails, CheckAfterTimeout
  <1>8. ASSUME NEW g \in Goroutine, End(g) PROVE TypeControl'
    <2>1. CASE Finish(g)
      BY <2>1 DEF Finish
    <2>2. CASE Reported(g) \/ ReportTimesOut(g)
      BY <2>2 DEF Reported, ReportTimesOut, Stopper
    <2> QED
      BY <1>8, <2>1, <2>2 DEF End
  <1>9. CASE StopCalled \/ MonitorSeesStop
    BY <1>9 DEF StopCalled, MonitorSeesStop, Stopper
  <1>10. ASSUME NEW s \in Stopper, Stop(s) PROVE TypeControl'
    <2>1. ASSUME NEW g \in Goroutine, NEW here, NEW next \in StopPlace,
                 Ask(s, g, here, next)
          PROVE  TypeControl'
      BY <2>1 DEF Ask
    <2>2. ASSUME NEW g \in Goroutine, NEW here, NEW next \in StopPlace,
                 Await(s, g, here, next)
          PROVE  TypeControl'
      BY <2>2 DEF Await
    <2>3. CASE CloseConn(s)
      BY <2>3 DEF CloseConn
    <2>4. CASE AskReader(s) \/ AskWriter(s)
      BY <2>1, <2>4 DEF AskReader, AskWriter, Goroutine
    <2>5. CASE AwaitReader(s) \/ AwaitWriter(s)
      BY <2>2, <2>5 DEF AwaitReader, AwaitWriter, Goroutine
    <2> QED
      BY <1>10, <2>3, <2>4, <2>5 DEF Stop
  <1>11. CASE Tunnel
    BY <1>11 DEF Tunnel, TunnelTakes, TunnelPuts
  <1>12. CASE Peer
    BY <1>12 DEF Peer, PeerTakes, PeerEnds, PeerResets
  <1>13. CASE UNCHANGED vars
    BY <1>13 DEF vars
  <1> QED
    BY <1>1, <1>2, <1>3, <1>4, <1>5, <1>6, <1>7, <1>8, <1>9, <1>10, <1>11,
       <1>12, <1>13
    DEF Next, Writer

\* Every step keeps the types of buffers and channels.
LEMMA DataStep == TypeData /\ [Next]_vars => TypeData'
  <1> SUFFICES ASSUME TypeData, [Next]_vars PROVE TypeData'
    OBVIOUS
  <1> USE ConnAssumption DEF TypeData, Fits, inVars, bufVars, outVars, connVars
  <1>1. CASE Read
    BY <1>1 DEF Read
  <1>2. CASE Send
    <2>1. inCh' \in Seq(Nat) /\ Len(inCh') = Len(inCh) + 1
      BY <1>2 DEF Send
    <2> QED
      BY <1>2, <2>1 DEF Send
  <1>3. CASE SendQuits
    BY <1>3 DEF SendQuits
  <1>4. CASE TakeBuffer
    <2>1. buf' \in Nat /\ outCh' \in Seq(Nat) /\ Len(outCh') <= ChanCap
      <3>1. /\ outCh # <<>> /\ buf' = Head(outCh) /\ outCh' = Tail(outCh)
        BY <1>4 DEF TakeBuffer
      <3>2. /\ Head(outCh) \in Nat /\ Tail(outCh) \in Seq(Nat)
            /\ Len(Tail(outCh)) = Len(outCh) - 1
        BY <3>1, HeadTailProperties
      <3> QED
        BY <3>1, <3>2, LenProperties
    <2>2. left' \in 0..Size /\ n' \in 0..Size /\ n' + left' <= Size
      BY <1>4 DEF TakeBuffer
    <2> QED
      BY <1>4, <2>1, <2>2 DEF TakeBuffer
  <1>5. CASE KernelTakes
    <2>1. out' \in Seq(Nat)
      BY <1>5 DEF KernelTakes
    <2>2. /\ left \in 0..Size /\ n \in 0..Size /\ n + left <= Size
          /\ room \in 0..SockCap /\ Size \in Nat /\ SockCap \in Nat
      OBVIOUS
    <2>3. /\ left > 0 /\ room > 0
          /\ left' = left - 1 /\ n' = n + 1 /\ room' = room - 1
      BY <1>5 DEF KernelTakes
    <2>4. /\ left' \in 0..Size /\ n' \in 0..Size /\ n' + left' <= Size
          /\ room' \in 0..SockCap
      <3> HIDE ConnAssumption DEF TypeData
      <3> QED
        BY <2>2, <2>3
    <2> QED
      BY <1>5, <2>1, <2>4 DEF KernelTakes
  <1>6. CASE WriteReturns \/ WriteTimesOut
    <2>1. /\ n' = 0 /\ left' = left /\ buf' \in {0, buf}
          /\ UNCHANGED <<inVars, outVars, room>>
      BY <1>6 DEF WriteReturns, WriteTimesOut
    <2> QED
      BY <2>1
  <1>7. CASE TunnelTakes
    <2>1. /\ Head(inCh) \in Nat /\ Tail(inCh) \in Seq(Nat)
          /\ Len(Tail(inCh)) = Len(inCh) - 1
      BY <1>7, HeadTailProperties DEF TunnelTakes
    <2> QED
      BY <1>7, <2>1 DEF TunnelTakes
  <1>8. CASE TunnelPuts
    <2>1. outCh' \in Seq(Nat) /\ Len(outCh') = Len(outCh) + 1
      BY <1>8 DEF TunnelPuts
    <2> QED
      BY <1>8, <2>1 DEF TunnelPuts
  <1>9. CASE PeerTakes
    BY <1>9 DEF PeerTakes
  <1>10. CASE UNCHANGED <<inVars, bufVars, outVars, room>>
    BY <1>10
  <1> QED
    <2>1. CASE UNCHANGED vars
      BY <2>1, <1>10 DEF vars
    <2>2. CASE ReaderLooks \/ ReadTimesOut \/ ReadFails \/ TakeQuits
               \/ WriterChecks \/ WriteFails
      BY <2>2, <1>10 DEF ReaderLooks, ReadTimesOut, ReadFails, TakeQuits,
           WriterChecks, WriteFails
    <2>3. ASSUME NEW g \in Goroutine, End(g) PROVE TypeData'
      BY <2>3, <1>10 DEF End, Finish, Reported, ReportTimesOut
    <2>4. ASSUME NEW s \in Stopper, Stop(s) PROVE TypeData'
      BY <2>4, <1>10 DEF Stop, AskReader, AwaitReader, AskWriter, AwaitWriter,
           Ask, Await, CloseConn
    <2>5. CASE StopCalled \/ MonitorSeesStop \/ PeerEnds \/ PeerResets
      BY <2>5, <1>10 DEF StopCalled, MonitorSeesStop, PeerEnds, PeerResets
    <2> QED
      BY <1>1, <1>2, <1>3, <1>4, <1>5, <1>6, <1>7, <1>8, <1>9, <2>1, <2>2,
         <2>3, <2>4, <2>5
      DEF Next, Reader, Writer, Tunnel, Peer

LEMMA TypeStep == Typed /\ [Next]_vars => Typed'
  <1>1. Typed' <=> TypeControl' /\ TypeData'
    BY DEF Typed, TypeOK, UnitsSplit, TypeControl, TypeData
  <1> QED
    BY <1>1, TypedParts, ControlStep, DataStep

LEMMA TypedAlways == Spec => []Typed
  BY TypeInit, TypeStep, PTL DEF Spec

\* Every variable keeps its type: in particular both channels keep within
\* their capacity.
THEOREM TypeCorrect == Spec => []TypeOK
  <1>1. Typed => TypeOK
    BY DEF Typed
  <1> QED
    BY <1>1, TypedAlways, PTL
-------------------------------------------------------------------------------
(***************************************************************************)
(* Stop and close.                                                         *)
(***************************************************************************)

\* Every step leaves a goroutine that is done where it is.
LEMMA DoneStays ==
  ASSUME Typed, [Next]_vars, NEW g \in Goroutine, pc[g] = "done"
  PROVE  pc'[g] = "done"
  <1> USE DEF Typed, TypeOK, Goto, Goroutine
  <1>1. CASE Reader
    BY <1>1 DEF Reader, ReaderLooks, Read, ReadTimesOut, ReadFails, Send,
         SendQuits
  <1>2. CASE Writer
    BY <1>2 DEF Writer, TakeBuffer, TakeQuits, KernelTakes, WriteReturns,
         WriteTimesOut, WriterChecks, WriteFails, goVars
  <1>3. ASSUME NEW i \in Goroutine, End(i) PROVE pc'[g] = "done"
    BY <1>3 DEF End, Finish, Reported, ReportTimesOut
  <1>4. CASE UNCHANGED pc
    BY <1>4
  <1> QED
    BY <1>1, <1>2, <1>3, <1>4
    DEF Next, StopCalled, MonitorSeesStop, Stop, AskReader, AwaitReader,
        AskWriter, AwaitWriter, Ask, Await, CloseConn, Tunnel, TunnelTakes,
        TunnelPuts, Peer, PeerTakes, PeerEnds, PeerResets, goVars, vars

\* A stopper moves on only from a goroutine that is done.
LEMMA StoppersStep == Typed /\ StoppersWait /\ [Next]_vars => StoppersWait'
  <1> SUFFICES ASSUME Typed, StoppersWait, [Next]_vars PROVE StoppersWait'
    OBVIOUS
  <1> USE DEF Typed, TypeOK, StoppersWait, CloseComesLast, Goroutine, Stopper,
              Walk
  <1>1. \A g \in Goroutine : pc[g] = "done" => pc'[g] = "done"
    BY DoneStays
  <1>2. CASE UNCHANGED stopVars
    BY <1>1, <1>2 DEF stopVars
  <1>3. ASSUME NEW g \in Goroutine, Reported(g) PROVE StoppersWait'
    BY <1>1, <1>3 DEF Reported
  <1>4. CASE StopCalled \/ MonitorSeesStop
    BY <1>1, <1>4 DEF StopCalled, MonitorSeesStop, goVars
  <1>5. ASSUME NEW s \in Stopper, AskReader(s) \/ AwaitReader(s)
        PROVE  StoppersWait'
    BY <1>1, <1>5 DEF AskReader, AwaitReader, Ask, Await
  <1>6. ASSUME NEW s \in Stopper, AskWriter(s) \/ AwaitWriter(s)
        PROVE  StoppersWait'
    BY <1>1, <1>6 DEF AskWriter, AwaitWriter, Ask, Await
  <1>7. ASSUME NEW s \in Stopper, CloseConn(s) PROVE StoppersWait'
    BY <1>1, <1>7 DEF CloseConn
  <1> QED
    BY <1>2, <1>3, <1>4, <1>5, <1>6, <1>7
    DEF Next, Reader, ReaderLooks, Read, ReadTimesOut, ReadFails, Send,
        SendQuits, Writer, TakeBuffer, TakeQuits, KernelTakes, WriteReturns,
        WriteTimesOut, WriterChecks, WriteFails, End, Finish, ReportTimesOut,
        Stop, Tunnel, TunnelTakes, TunnelPuts, Peer, PeerTakes, PeerEnds,
        PeerResets, vars

\* conn.Close comes after the last use of the connection, whoever stops it.
THEOREM CloseCorrect == Spec => []CloseComesLast
  <1>1. Init => StoppersWait
    BY DEF Init, StoppersWait, CloseComesLast, Stopper
  <1>2. StoppersWait => CloseComesLast
    BY DEF StoppersWait
  <1> QED
    BY <1>1, <1>2, TypedAlways, StoppersStep, PTL DEF Spec
-------------------------------------------------------------------------------
(***************************************************************************)
(* Short writes.                                                           *)
(***************************************************************************)

\* A Write that succeeds is a first try, or has no deadline left to meet.
LEMMA WholeStep == Typed /\ WholeOrLate /\ [Next]_vars => WholeOrLate'
  <1> SUFFICES ASSUME Typed, WholeOrLate, [Next]_vars PROVE WholeOrLate'
    OBVIOUS
  <1> USE ConnAssumption
      DEF Typed, TypeOK, UnitsSplit, WholeOrLate, NoShortWrite, Goto, Goroutine
  <1>1. CASE Reader
    BY <1>1 DEF Reader, ReaderLooks, Read, ReadTimesOut, ReadFails, Send,
         SendQuits, bufVars
  <1>2. CASE TakeBuffer
    BY <1>2 DEF TakeBuffer
  <1>3. CASE TakeQuits
    BY <1>3 DEF TakeQuits
  <1>4. CASE KernelTakes
    BY <1>4 DEF KernelTakes, goVars
  <1>5. CASE WriteReturns
    BY <1>5 DEF WriteReturns
  <1>6. CASE WriteTimesOut
    BY <1>6 DEF WriteTimesOut, LateAfterTimeout
  <1>7. CASE WriterChecks
    BY <1>7 DEF WriterChecks, CheckAfterTimeout, bufVars
  <1>8. CASE WriteFails
    BY <1>8 DEF WriteFails
  <1>9. ASSUME NEW g \in Goroutine, End(g) PROVE WholeOrLate'
    BY <1>9 DEF End, Finish, Reported, ReportTimesOut, bufVars
  <1>10. CASE UNCHANGED <<pc, bufVars>>
    BY <1>10 DEF bufVars
  <1> QED
    BY <1>1, <1>2, <1>3, <1>4, <1>5, <1>6, <1>7, <1>8, <1>9, <1>10
    DEF Next, Writer, StopCalled, MonitorSeesStop, Stop, AskReader,
        AwaitReader, AskWriter, AwaitWriter, Ask, Await, CloseConn, Tunnel,
        TunnelTakes, TunnelPuts, Peer, PeerTakes, PeerEnds, PeerResets,
        goVars, vars

\* The writer's check of n against nbuf never fails.
THEOREM WriteCorrect == Spec => []NoShortWrite
  <1>1. Init => WholeOrLate
    BY DEF Init, WholeOrLate, NoShortWrite, Goroutine
  <1>2. WholeOrLate => NoShortWrite
    BY DEF WholeOrLate
  <1> QED
    BY <1>1, <1>2, TypedAlways, WholeStep, PTL DEF Spec
-------------------------------------------------------------------------------
(***************************************************************************)
(* NetConnReader implements Pipe.                                          *)
(***************************************************************************)

\* Every step keeps the stream whole.
LEMMA StreamStep == Typed /\ StreamSplit /\ [Next]_vars => StreamSplit'
  <1> SUFFICES ASSUME Typed, StreamSplit, [Next]_vars PROVE StreamSplit'
    OBVIOUS
  <1> USE DEF Typed, TypeOK, StreamSplit, Goto, Goroutine, inVars
  <1>1. CASE ReaderLooks \/ ReadTimesOut \/ ReadFails
    BY <1>1 DEF ReaderLooks, ReadTimesOut, ReadFails
  <1>2. CASE Read
    BY <1>2 DEF Read
  <1>3. CASE Send
    <2>1. /\ inCh' = Append(inCh, hold) /\ UNCHANGED <<got, read>>
          /\ pc'["reader"] = "top"
      BY <1>3 DEF Send
    <2>2. Len(got) + Len(inCh) + 1 = read /\ hold = read
      BY <1>3 DEF Send
    <2>3. Len(inCh') = Len(inCh) + 1
      BY <2>1
    <2>4. ASSUME NEW i \in 1..Len(inCh') PROVE inCh'[i] = Len(got') + i
      <3>1. CASE i <= Len(inCh)
        BY <2>1, <2>3, <3>1
      <3>2. CASE i = Len(inCh) + 1
        BY <2>1, <2>2, <3>2
      <3> QED
        BY <2>3, <3>1, <3>2
    <2> QED
      BY <2>1, <2>2, <2>3, <2>4
  <1>4. CASE SendQuits
    BY <1>4 DEF SendQuits
  <1>5. CASE TunnelTakes
    <2>1. /\ got' = Append(got, Head(inCh)) /\ inCh' = Tail(inCh)
          /\ inCh # <<>> /\ UNCHANGED <<pc, read, hold>>
      BY <1>5 DEF TunnelTakes, goVars
    <2>2. Len(inCh) \in Nat \ {0} /\ Head(inCh) = inCh[1]
      BY <2>1, EmptySeq
    <2>3. Head(inCh) = Len(got) + 1
      BY <2>2
    <2>4. Len(got') = Len(got) + 1 /\ Len(inCh') = Len(inCh) - 1
      BY <2>1, <2>2, HeadTailProperties
    <2>5. ASSUME NEW i \in 1..Len(got') PROVE got'[i] = i
      <3>1. CASE i <= Len(got)
        BY <2>1, <2>4, <3>1
      <3>2. CASE i = Len(got) + 1
        BY <2>1, <2>3, <3>2
      <3>3. Len(got) \in Nat /\ i \in 1..Len(got) + 1
        BY <2>4, LenProperties
      <3> QED
        BY <3>1, <3>2, <3>3
    <2>6. ASSUME NEW i \in 1..Len(inCh') PROVE inCh'[i] = Len(got') + i
      <3>1. inCh'[i] = inCh[i + 1]
        BY <2>1, <2>4, HeadTailProperties
      <3>2. i + 1 \in 1..Len(inCh)
        BY <2>2, <2>4
      <3> QED
        BY <2>4, <3>1, <3>2
    <2>7. Len(got) \in Nat /\ Len(got') + Len(inCh') = Len(got) + Len(inCh)
      BY <2>2, <2>4, LenProperties
    <2>8. /\ Len(got') + Len(inCh') <= read'
          /\ pc'["reader"] \in {"top", "read"} => Len(got') + Len(inCh') = read'
          /\ pc'["reader"] = "send" =>
               Len(got') + Len(inCh') + 1 = read' /\ hold' = read'
      BY <2>1, <2>7
    <2> QED
      BY <2>5, <2>6, <2>8
  <1>6. CASE UNCHANGED <<pc, inVars>>
    BY <1>6
  <1>7. CASE Writer
    BY <1>7 DEF Writer, TakeBuffer, TakeQuits, KernelTakes, WriteReturns,
         WriteTimesOut, WriterChecks, WriteFails, goVars
  <1>8. ASSUME NEW g \in Goroutine, End(g) PROVE StreamSplit'
    BY <1>8 DEF End, Finish, Reported, ReportTimesOut
  <1> QED
    BY <1>1, <1>2, <1>3, <1>4, <1>5, <1>6, <1>7, <1>8
    DEF Next, Reader, StopCalled, MonitorSeesStop, Stop, AskReader,
        AwaitReader, AskWriter, AwaitWriter, Ask, Await, CloseConn, Tunnel,
        TunnelPuts, Peer, PeerTakes, PeerEnds, PeerResets, goVars, vars

\* A read feeds the pipe, the tunnel takes from it, and nothing else moves it.
LEMMA PipeStep ==
  ASSUME Typed, StreamSplit, [Next]_vars
  PROVE  [ReadPipe!Feed \/ ReadPipe!Take]_<<read, got>>
  <1> USE DEF Typed, TypeOK, StreamSplit
  <1>1. CASE Read
    <2>1. read' = read + 1 /\ UNCHANGED got
      BY <1>1 DEF Read
    <2>2. read - Len(got) < ChanCap + 1
      BY <1>1, ConnAssumption DEF Read
    <2> QED
      BY <2>1, <2>2 DEF ReadPipe!Feed
  <1>2. CASE TunnelTakes
    <2>1. /\ got' = Append(got, Head(inCh)) /\ inCh # <<>> /\ UNCHANGED read
      BY <1>2 DEF TunnelTakes
    <2>2. Len(inCh) \in Nat \ {0} /\ Head(inCh) = inCh[1]
      BY <2>1, EmptySeq
    <2>3. Head(inCh) = Len(got) + 1 /\ Len(got) < read
      BY <2>2
    <2> QED
      BY <2>1, <2>3 DEF ReadPipe!Take
  <1>3. CASE UNCHANGED <<read, got>>
    BY <1>3
  <1> QED
    BY <1>1, <1>2, <1>3
    DEF Next, Reader, ReaderLooks, ReadTimesOut, ReadFails, Send, SendQuits,
        Writer, TakeBuffer, TakeQuits, KernelTakes, WriteReturns,
        WriteTimesOut, WriterChecks, WriteFails, End, Finish, Reported,
        ReportTimesOut, StopCalled, MonitorSeesStop, Stop, AskReader,
        AwaitReader, AskWriter, AwaitWriter, Ask, Await, CloseConn, Tunnel,
        TunnelPuts, Peer, PeerTakes, PeerEnds, PeerResets, inVars, vars

\* What the tunnel takes off the channel is what was read, in order, without a
\* gap, and never more than a buffer beyond the capacity of the channel.
THEOREM ReadImplementsPipe == Spec => ReadIsPipe
  <1>1. Init => StreamSplit
    BY DEF Init, StreamSplit, Goroutine
  <1>2. Init => ReadPipe!Init
    BY DEF Init, ReadPipe!Init
  <1>3. Typed /\ StreamSplit /\ [Next]_vars
          => [ReadPipe!Feed \/ ReadPipe!Take]_<<read, got>>
    BY PipeStep
  <1> QED
    BY <1>1, <1>2, <1>3, TypedAlways, StreamStep, PTL
    DEF Spec, ReadIsPipe, ReadPipe!Spec
-------------------------------------------------------------------------------
(***************************************************************************)
(* NetConnWriter implements Pipe.                                          *)
(***************************************************************************)

\* A number of whole buffers and less than one more.
LEMMA WholeBuffers ==
  ASSUME NEW i \in Nat, NEW t \in Nat, NEW l \in 0..Size - 1,
         i * Size + l = t * Size
  PROVE  i = t /\ l = 0
  <1>1. Size \in Nat \ {0}
    BY ConnAssumption
  <1>2. ASSUME i < t PROVE FALSE
    <2>1. t - i - 1 \in Nat
      BY <1>2
    <2>2. (t - i - 1) * Size \in Nat
      BY <1>1, <2>1
    <2>3. t * Size = i * Size + Size + (t - i - 1) * Size
      BY <1>1
    <2> QED
      BY <1>1, <2>2, <2>3
  <1>3. ASSUME t < i PROVE FALSE
    <2>1. i - t - 1 \in Nat
      BY <1>3
    <2>2. (i - t - 1) * Size \in Nat
      BY <1>1, <2>1
    <2>3. i * Size = t * Size + Size + (i - t - 1) * Size
      BY <1>1
    <2> QED
      BY <1>1, <2>2, <2>3
  <1> QED
    BY <1>1, <1>2, <1>3

\* How many buffers the kernel has taken as a whole.
LEMMA WholeTaken ==
  ASSUME NEW a \in Nat, NEW t \in Nat, NEW l \in 0..Size, a + l = t * Size
  PROVE  a \div Size = IF l = 0 THEN t ELSE t - 1
  <1>1. Size \in Nat \ {0}
    BY ConnAssumption
  <1>2. CASE l = 0
    BY <1>1, <1>2
  <1>3. CASE l # 0
    <2>1. a = (t - 1) * Size + (Size - l) /\ Size - l \in 0..Size - 1
      BY <1>1, <1>3
    <2> QED
      BY <1>1, <1>3, <2>1
  <1> QED
    BY <1>2, <1>3

\* Every step keeps count of the units.
LEMMA UnitsStep == Typed /\ UnitsTaken /\ [Next]_vars => UnitsTaken'
  <1> SUFFICES ASSUME Typed, UnitsTaken, [Next]_vars PROVE UnitsTaken'
    OBVIOUS
  <1>1. /\ put \in Nat /\ outCh \in Seq(Nat) /\ Len(outCh) \in Nat /\ buf \in Nat
        /\ out \in Seq(Nat) /\ Len(out) \in Nat /\ left \in 0..Size
        /\ Size \in Nat \ {0} /\ pc \in [Goroutine -> Place] /\ Taken \in Nat
    BY ConnAssumption, LenProperties DEF Typed, TypeOK, UnitsTaken, Taken
  <1>2. CASE TakeBuffer
    <2>1. /\ outCh # <<>> /\ buf' = Head(outCh) /\ outCh' = Tail(outCh)
          /\ pc["writer"] = "take" /\ pc'["writer"] = "write"
          /\ left' = Size /\ UNCHANGED <<put, out>>
      BY <1>1, <1>2 DEF TakeBuffer, Goto, Goroutine
    <2>2. /\ Len(outCh) # 0 /\ Head(outCh) = outCh[1]
          /\ Len(outCh') = Len(outCh) - 1
          /\ \A i \in 1..Len(outCh') : outCh'[i] = outCh[i + 1]
      BY <1>1, <2>1, EmptySeq, HeadTailProperties
    <2>3. Taken' = Taken + 1
      BY <1>1, <2>1, <2>2 DEF Taken
    <2>4. Len(out) = Taken * Size /\ (Taken + 1) * Size = Taken * Size + Size
      BY <1>1, <2>1 DEF UnitsTaken
    <2>5. \A i \in 1..Len(outCh') : outCh'[i] = Taken' + i
      BY <1>1, <2>2, <2>3 DEF UnitsTaken
    <2>6. ASSUME NEW i \in 1..Taken + 1, i * Size <= Len(out)
          PROVE  out[i * Size] = i
      <3>1. i # Taken + 1
        BY <1>1, <2>4, <2>6
      <3>2. i \in 1..Taken
        BY <1>1, <3>1
      <3> QED
        BY <2>6, <3>2 DEF UnitsTaken
    <2>7. Len(out') + left' = Taken' * Size
      BY <1>1, <2>1, <2>3, <2>4
    <2>8. buf' = Taken' /\ Len(outCh') <= put'
      BY <1>1, <2>1, <2>2, <2>3 DEF UnitsTaken
    <2> QED
      BY <2>1, <2>3, <2>5, <2>6, <2>7, <2>8 DEF UnitsTaken
  <1>3. CASE KernelTakes
    <2>1. /\ pc["writer"] = "write" /\ left > 0 /\ left' = left - 1
          /\ out' = Append(out, buf) /\ UNCHANGED <<pc, buf, put, outCh>>
      BY <1>3 DEF KernelTakes, goVars
    <2>2. /\ Len(out') = Len(out) + 1 /\ out'[Len(out) + 1] = buf
          /\ \A j \in 1..Len(out) : out'[j] = out[j]
      BY <1>1, <2>1, AppendProperties
    <2>3. Taken' = Taken /\ buf = Taken /\ Len(out) + left = Taken * Size
      BY <2>1 DEF Taken, UnitsTaken
    <2>4. ASSUME NEW i \in 1..Taken, i * Size <= Len(out) + 1
          PROVE  out'[i * Size] = i
      <3>1. i * Size \in Nat /\ i * Size > 0
        <4>1. i \in Nat /\ i - 1 \in Nat /\ (i - 1) * Size \in Nat
          BY <1>1
        <4>2. i * Size = (i - 1) * Size + Size
          BY <1>1, <4>1
        <4> QED
          BY <1>1, <4>1, <4>2
      <3>2. CASE i * Size <= Len(out)
        <4>1. \A k \in Nat : k > 0 /\ k <= Len(out) => k \in 1..Len(out)
          BY <1>1
        <4>2. i * Size \in 1..Len(out)
          BY <3>1, <3>2, <4>1, Zenon
        <4>3. out[i * Size] = i
          BY <3>2 DEF UnitsTaken
        <4> QED
          BY <2>2, <4>2, <4>3
      <3>3. CASE i * Size = Len(out) + 1
        <4>1. i * Size + (left - 1) = Taken * Size /\ left - 1 \in 0..Size - 1
          BY <1>1, <2>1, <2>3, <3>3
        <4>2. i = Taken
          BY <1>1, <4>1, WholeBuffers
        <4> QED
          BY <2>2, <2>3, <3>3, <4>2
      <3> QED
        BY <1>1, <2>4, <3>1, <3>2, <3>3
    <2>5. Len(out') + left' = Taken' * Size
      <3>1. Len(out') + left' = Len(out) + left
        BY <1>1, <2>1, <2>2
      <3> QED
        BY <2>3, <3>1
    <2> QED
      BY <2>1, <2>2, <2>3, <2>4, <2>5 DEF UnitsTaken
  <1>4. CASE WriteReturns
    <2>1. /\ pc'["writer"] \in {"take", "panicked"} /\ left = 0
          /\ UNCHANGED <<left, put, outCh, out>>
      BY <1>1, <1>4 DEF WriteReturns, Goto, Goroutine, outVars
    <2> QED
      BY <2>1 DEF UnitsTaken, Taken
  <1>5. CASE WriteTimesOut \/ WriterChecks
    <2>1. /\ pc["writer"] \in {"write", "check"}
          /\ pc'["writer"] \in {"write", "check", "finish"}
          /\ UNCHANGED <<buf, left, put, outCh, out>>
      BY <1>1, <1>5
      DEF WriteTimesOut, WriterChecks, CheckAfterTimeout, Goto, Goroutine,
          bufVars, outVars
    <2> QED
      BY <2>1 DEF UnitsTaken, Taken
  <1>6. CASE TakeQuits \/ WriteFails
    <2>1. pc'["writer"] = "finish" /\ UNCHANGED <<buf, left, put, outCh, out>>
      BY <1>1, <1>6 DEF TakeQuits, WriteFails, Goto, Goroutine, bufVars, outVars
    <2> QED
      BY <2>1 DEF UnitsTaken, Taken
  <1>7. CASE TunnelPuts
    <2>1. /\ put' = put + 1 /\ outCh' = Append(outCh, put + 1)
          /\ UNCHANGED <<pc, buf, left, out>>
      BY <1>7 DEF TunnelPuts, goVars, bufVars
    <2>2. /\ Len(outCh') = Len(outCh) + 1 /\ outCh'[Len(outCh) + 1] = put + 1
          /\ \A j \in 1..Len(outCh) : outCh'[j] = outCh[j]
      BY <1>1, <2>1, AppendProperties
    <2>3. Taken' = Taken
      BY <1>1, <2>1, <2>2 DEF Taken
    <2>4. ASSUME NEW i \in 1..Len(outCh) + 1 PROVE outCh'[i] = Taken + i
      <3>1. CASE i = Len(outCh) + 1
        BY <1>1, <2>2, <3>1 DEF Taken
      <3>2. CASE i # Len(outCh) + 1
        <4>1. i \in 1..Len(outCh)
          BY <1>1, <3>2
        <4> QED
          BY <2>2, <4>1 DEF UnitsTaken
      <3> QED
        BY <3>1, <3>2
    <2>5. Len(outCh') <= put'
      BY <1>1, <2>1, <2>2 DEF UnitsTaken
    <2> QED
      BY <2>1, <2>2, <2>3, <2>4, <2>5 DEF UnitsTaken
  <1>8. CASE UNCHANGED <<buf, left, outVars>> /\ pc'["writer"] = pc["writer"]
    BY <1>8 DEF UnitsTaken, Taken, outVars
  <1>9. ASSUME NEW g \in Goroutine, End(g) PROVE UnitsTaken'
    <2>1. /\ pc'["writer"] \in {pc["writer"], "report", "done"}
          /\ UNCHANGED <<buf, left, put, outCh, out>>
      <3>1. /\ \E place \in {"report", "done"} : Goto(g, place)
            /\ UNCHANGED <<buf, left, put, outCh, out>>
        BY <1>9, Zenon
        DEF End, Finish, Reported, ReportTimesOut, bufVars, outVars
      <3> QED
        BY <1>1, <3>1 DEF Goto, Goroutine
    <2> QED
      BY <2>1 DEF UnitsTaken, Taken
  <1> QED
    <2>1. CASE Reader
      <3>1. pc'["writer"] = pc["writer"]
        BY <1>1, <2>1
        DEF Reader, ReaderLooks, Read, ReadTimesOut, ReadFails, Send, SendQuits,
            Goto, Goroutine
      <3> QED
        BY <2>1, <3>1, <1>8
        DEF Reader, ReaderLooks, Read, ReadTimesOut, ReadFails, Send, SendQuits,
            bufVars
    <2>2. CASE Writer
      BY <2>2, <1>2, <1>3, <1>4, <1>5, <1>6 DEF Writer
    <2> QED
      BY <2>1, <2>2, <1>7, <1>8, <1>9
      DEF Next, StopCalled, MonitorSeesStop, Stop, AskReader, AwaitReader,
          AskWriter, AwaitWriter, Ask, Await, CloseConn, Tunnel, TunnelTakes,
          Peer, PeerTakes, PeerEnds, PeerResets, bufVars, goVars, vars

\* The buffers written are the first ones, in order: all that were taken or all
\* but the last.
InOrder ==
  /\ Taken \in Nat
  /\ Len(out) \div Size = IF left = 0 THEN Taken ELSE Taken - 1
  /\ Len(out) \div Size \in Nat
  /\ Written = [i \in 1..(Len(out) \div Size) |-> i]

LEMMA WrittenInOrder == Typed /\ UnitsTaken => InOrder
  <1> SUFFICES ASSUME Typed, UnitsTaken PROVE InOrder
    OBVIOUS
  <1>1. /\ put \in Nat /\ Len(outCh) \in Nat /\ Len(out) \in Nat
        /\ left \in 0..Size /\ Size \in Nat \ {0} /\ Taken \in Nat
        /\ Len(out) + left = Taken * Size
    BY ConnAssumption, LenProperties DEF Typed, TypeOK, UnitsTaken, Taken
  <1>2. Len(out) \div Size = IF left = 0 THEN Taken ELSE Taken - 1
    BY <1>1, WholeTaken
  <1>3. left # 0 => Taken # 0
    BY <1>1
  <1>4. ASSUME NEW i \in 1..(Len(out) \div Size) PROVE out[i * Size] = i
    <2>1. i \in 1..Taken
      BY <1>1, <1>2
    <2>2. i * Size <= Len(out)
      <3>1. (Taken - i) * Size = Taken * Size - i * Size
        BY <1>1, <2>1
      <3>2. CASE left = 0
        <4>1. (Taken - i) * Size \in Nat
          BY <1>1, <2>1
        <4> QED
          BY <1>1, <2>1, <3>1, <3>2, <4>1
      <3>3. CASE left # 0
        <4>1. Taken - 1 - i \in Nat
          BY <1>1, <1>2, <2>1, <3>3
        <4>2. (Taken - 1 - i) * Size \in Nat
          BY <1>1, <4>1
        <4>3. (Taken - 1 - i) * Size = Taken * Size - Size - i * Size
          BY <1>1, <2>1
        <4> QED
          BY <1>1, <2>1, <4>2, <4>3
      <3> QED
        BY <3>2, <3>3
    <2> QED
      BY <2>1, <2>2 DEF UnitsTaken
  <1>5. Written = [i \in 1..(Len(out) \div Size) |-> i]
    BY <1>4 DEF Written
  <1> QED
    BY <1>1, <1>2, <1>3, <1>5 DEF InOrder

\* A put feeds the pipe, the kernel takes from it with the last unit of a
\* buffer, and nothing else moves it.
LEMMA WritePipeStep ==
  ASSUME Typed, UnitsTaken, [Next]_vars
  PROVE  [WritePipe!Feed \/ WritePipe!Take]_<<put, Written>>
  <1> DEFINE w == Len(out) \div Size
  <1>1. /\ put \in Nat /\ Len(outCh) \in Nat /\ Len(outCh) <= put
        /\ out \in Seq(Nat) /\ Len(out) \in Nat /\ left \in 0..Size
        /\ Size \in Nat \ {0} /\ ChanCap \in Nat
    BY ConnAssumption, LenProperties DEF Typed, TypeOK, UnitsTaken
  <1>2. /\ Taken \in Nat /\ w = IF left = 0 THEN Taken ELSE Taken - 1
        /\ w \in Nat /\ Written = [i \in 1..w |-> i]
    BY WrittenInOrder DEF InOrder
  <1>3. Len(Written) = w
    BY <1>2
  <1>4. CASE TunnelPuts
    <2>1. put' = put + 1 /\ Len(outCh) < ChanCap /\ Written' = Written
      BY <1>4 DEF TunnelPuts, Fits, Written
    <2>2. put - w < ChanCap + 1
      BY <1>1, <1>2, <2>1 DEF Taken
    <2> QED
      BY <1>3, <2>1, <2>2 DEF WritePipe!Feed
  <1>5. CASE KernelTakes
    <2>1. put' = put /\ left > 0 /\ left' = left - 1 /\ Taken' = Taken
      BY <1>5 DEF KernelTakes, Taken
    <2>2. /\ w' = IF left' = 0 THEN Taken' ELSE Taken' - 1
          /\ Written' = [i \in 1..w' |-> i]
      <3>1. InOrder'
        <4>1. Typed' /\ UnitsTaken'
          BY TypeStep, UnitsStep
        <4> QED
          BY <4>1, WrittenInOrder, PTL
      <3> QED
        BY <3>1 DEF InOrder
    <2> HIDE DEF w
    <2>3. CASE left = 1
      <3>1. w' = w + 1 /\ w < put
        BY <1>1, <1>2, <2>1, <2>2, <2>3 DEF Taken
      <3>2. Written' = Append(Written, w + 1)
        <4> DEFINE First(m) == [i \in 1..m |-> i]
        <4>1. ASSUME NEW m \in Nat
              PROVE  /\ First(m) \in Seq(Nat) /\ Len(First(m)) = m
                     /\ \A i \in 1..m : First(m)[i] = i
          OBVIOUS
        <4>2. Written = First(w) /\ Written' = First(w + 1) /\ w + 1 \in Nat
          <5>1. Written' = First(w') /\ w' = w + 1
            BY <2>2, <3>1, Zenon
          <5> QED
            BY <1>2, <5>1
        <4> HIDE DEF First
        <4>3. /\ Written \in Seq(Nat) /\ Len(Written) = w
              /\ \A i \in 1..w : Written[i] = i
          BY <1>2, <4>1, <4>2
        <4>4. /\ Written' \in Seq(Nat) /\ Len(Written') = w + 1
              /\ \A i \in 1..w + 1 : Written'[i] = i
          BY <4>1, <4>2
        <4>5. /\ Append(Written, w + 1) \in Seq(Nat)
              /\ Len(Append(Written, w + 1)) = w + 1
              /\ \A i \in 1..w + 1 : Append(Written, w + 1)[i] = i
          BY <1>2, <4>3, AppendProperties
        <4> QED
          BY <1>2, <4>4, <4>5, SeqEqual
      <3> QED
        BY <1>3, <2>1, <3>1, <3>2 DEF WritePipe!Take
    <2>4. CASE left # 1
      <3>1. w' = w
        BY <1>1, <1>2, <2>1, <2>2, <2>4
      <3> QED
        BY <1>2, <2>1, <2>2, <3>1
    <2> QED
      BY <2>3, <2>4
  <1>6. CASE UNCHANGED <<put, out>>
    BY <1>6 DEF Written
  <1> QED
    BY <1>4, <1>5, <1>6
    DEF Next, Reader, ReaderLooks, Read, ReadTimesOut, ReadFails, Send, SendQuits,
        Writer, TakeBuffer, TakeQuits, WriteReturns, WriteTimesOut, WriterChecks,
        WriteFails, End, Finish, Reported, ReportTimesOut, StopCalled,
        MonitorSeesStop, Stop, AskReader, AwaitReader, AskWriter, AwaitWriter,
        Ask, Await, CloseConn, Tunnel, TunnelTakes, Peer, PeerTakes, PeerEnds,
        PeerResets, outVars, vars

\* What the kernel takes as a whole is what the tunnel put on the channel, in
\* order and without a gap, through partial writes, timeouts and stops.
THEOREM WriteImplementsPipe == Spec => WriteIsPipe
  <1>1. Init => UnitsTaken
    BY ConnAssumption DEF Init, UnitsTaken, Taken, Goroutine
  <1>2. Init => WritePipe!Init
    <2> SUFFICES ASSUME Init PROVE Written = <<>> /\ put = 0
      BY DEF WritePipe!Init
    <2>1. out = <<>> /\ Len(out) = 0 /\ 0 \div Size = 0
      BY ConnAssumption DEF Init
    <2> QED
      BY <2>1 DEF Written, Init
  <1>3. Typed /\ UnitsTaken /\ [Next]_vars
          => [WritePipe!Feed \/ WritePipe!Take]_<<put, Written>>
    BY WritePipeStep
  <1> QED
    BY <1>1, <1>2, <1>3, TypedAlways, UnitsStep, PTL
    DEF Spec, WriteIsPipe, WritePipe!Spec
===============================================================================

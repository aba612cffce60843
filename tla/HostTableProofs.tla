--------------------------- MODULE HostTableProofs ---------------------------
(***************************************************************************)
(* The safety properties of HostTable, for any hosts and wherever the      *)
(* process dies or a rename fails.                                         *)
(***************************************************************************)
EXTENDS HostTable, TLAPS

(***************************************************************************)
(* What the properties need to be inductive.                               *)
(***************************************************************************)

\* The types of the table and of the two files.
FilesTyped ==
  /\ process \in {"off", "up", "create", "write", "rename"}
  /\ hosts \in Tables(Record)
  /\ fn \in Tables(Saved) \cup {Absent}
  /\ fnNew \in Tables(Saved) \cup {Absent, Partial}

\* The record of a file agrees with that of the table.
Keeps(file, table) ==
  \A k \in DOMAIN file : /\ k \in DOMAIN table
                         /\ table[k].hostname = file[k].hostname
                         /\ table[k].banned = file[k].banned

\* A process that runs knows at least what the file says, and what it is about
\* to rename is its whole table.
TableCoversFile ==
  /\ process # "off" /\ fn # Absent => Keeps(fn, hosts)
  /\ process = "rename" => fnNew = Encoded(hosts)

\* An address in the table is that of a host this process met, and a host it
\* met is in the table as it was met.
TableKnowsMet ==
  /\ met \in Tables([hostname : Name, remote : Address])
  /\ process # "off" =>
       /\ \A k \in DOMAIN hosts : hosts[k].remote # NoAddress => k \in DOMAIN met
       /\ \A k \in DOMAIN met : /\ k \in DOMAIN hosts
                                /\ hosts[k].hostname = met[k].hostname
                                /\ hosts[k].remote = met[k].remote
  /\ verdict \in Verdicts \cup {NoVerdict}
-----------------------------------------------------------------------------
(***************************************************************************)
(* What the conversions do.                                                *)
(***************************************************************************)

LEMMA EmptyTable == ASSUME NEW R PROVE << >> \in Tables(R)
  <1>1. << >> \in [{} -> R]
    OBVIOUS
  <1> QED
    BY <1>1 DEF Tables

LEMMA EncodedTyped ==
  ASSUME NEW t \in Tables(Record)
  PROVE  /\ Encoded(t) \in Tables(Saved)
         /\ DOMAIN Encoded(t) = DOMAIN t
         /\ \A k \in DOMAIN t : /\ Encoded(t)[k].hostname = t[k].hostname
                                /\ Encoded(t)[k].banned = t[k].banned
  BY DEF Encoded, Tables, Saved, Record

LEMMA DecodedTyped ==
  ASSUME NEW f \in Tables(Saved)
  PROVE  /\ Decoded(f) \in Tables(Record)
         /\ DOMAIN Decoded(f) = DOMAIN f
         /\ \A k \in DOMAIN f : /\ Decoded(f)[k].hostname = f[k].hostname
                                /\ Decoded(f)[k].banned = f[k].banned
                                /\ Decoded(f)[k].remote = NoAddress
  BY DEF Decoded, Tables, Saved, Record

LEMMA AddedTyped ==
  ASSUME hosts \in Tables(Record),
         NEW k \in HostKey, NEW n \in Name, NEW a \in Address,
         k \notin DOMAIN hosts
  PROVE  Added(k, n, a) \in Tables(Record)
  <1> DEFINE new == Added(k, n, a)
  <1>1. DOMAIN hosts \subseteq HostKey /\ \A j \in DOMAIN hosts : hosts[j] \in Record
    BY DEF Tables
  <1>2. [hostname |-> n, banned |-> FALSE, remote |-> a] \in Record
    BY DEF Record
  <1>3. new \in [DOMAIN hosts \cup {k} -> Record]
    BY <1>1, <1>2 DEF Added
  <1> QED
    BY <1>1, <1>3 DEF Added, Tables

\* A file that is two saves of tables old and new says of a host the same.
LEMMA SavedFilesAgree ==
  ASSUME NEW f \in Tables(Saved), NEW g \in Tables(Saved),
         \A k \in DOMAIN f : /\ k \in DOMAIN g
                             /\ g[k].hostname = f[k].hostname
                             /\ g[k].banned = f[k].banned
  PROVE  \A k \in DOMAIN f : k \in DOMAIN g /\ g[k] = f[k]
  BY DEF Tables, Saved
-----------------------------------------------------------------------------
LEMMA FilesInit == HostInit => FilesTyped /\ TableCoversFile
  BY EmptyTable DEF HostInit, FilesTyped, TableCoversFile

\* A step keeps the types, and the process ahead of its file.
LEMMA FilesStep ==
  FilesTyped /\ TableCoversFile /\ [HostNext]_hostVars
    => (FilesTyped /\ TableCoversFile)'
  <1> SUFFICES ASSUME FilesTyped, TableCoversFile, [HostNext]_hostVars
               PROVE  (FilesTyped /\ TableCoversFile)'
    OBVIOUS
  <1> USE DEF FilesTyped, TableCoversFile
  <1>1. CASE Starts
    <2>1. CASE fn = Absent
      BY <1>1, <2>1, EmptyTable DEF Starts
    <2>2. CASE fn # Absent
      BY <1>1, <2>2, DecodedTyped DEF Starts, Keeps
    <2> QED
      BY <2>1, <2>2
  <1>2. ASSUME NEW k \in HostKey, NEW n \in Name, NEW a \in Address,
               MeetsHost(k, n, a)
        PROVE  (FilesTyped /\ TableCoversFile)'
    <2>1. CASE k \in DOMAIN hosts
      BY <1>2, <2>1 DEF MeetsHost, Keeps
    <2>2. CASE k \notin DOMAIN hosts
      <3>1. /\ hosts' = Added(k, n, a) /\ process = "up" /\ process' = "create"
            /\ UNCHANGED <<fn, fnNew>>
        BY <1>2, <2>2 DEF MeetsHost
      <3>2. fn # Absent => Keeps(fn, hosts)'
        BY <2>2, <3>1 DEF Keeps, Added
      <3>3. hosts' \in Tables(Record)
        BY <2>2, <3>1, AddedTyped
      <3> QED
        BY <3>1, <3>2, <3>3
    <2> QED
      BY <2>1, <2>2
  <1>3. CASE Closes \/ CreatesNew
    BY <1>3 DEF Closes, CreatesNew, Keeps
  <1>4. CASE WritesNew
    BY <1>4, EncodedTyped DEF WritesNew, Keeps
  <1>5. CASE Renames
    BY <1>5, EncodedTyped DEF Renames, Keeps
  <1>6. CASE Dies
    BY <1>6 DEF Dies
  <1>7. CASE UNCHANGED hostVars
    BY <1>7 DEF hostVars, Keeps
  <1> QED
    BY <1>1, <1>2, <1>3, <1>4, <1>5, <1>6, <1>7 DEF HostNext

\* What the file says of a host it goes on saying, and it is never half written.
THEOREM FileCorrect == HostSpec => FileOnlyGrows
  <1> DEFINE Grows == fn # Absent =>
                        /\ fn' \in Tables(Saved)
                        /\ \A k \in DOMAIN fn : k \in DOMAIN fn' /\ fn'[k] = fn[k]
  <1>1. FilesTyped /\ TableCoversFile /\ [HostNext]_hostVars => [Grows]_hostVars
    <2> SUFFICES ASSUME FilesTyped, TableCoversFile, HostNext, fn # Absent
                 PROVE  Grows
      OBVIOUS
    <2>1. CASE fn' = fn
      BY <2>1 DEF FilesTyped
    <2>2. CASE fn' # fn
      <3>1. process = "rename" /\ fn' = Encoded(hosts)
        BY <2>2 DEF HostNext, Starts, MeetsHost, Closes, CreatesNew, WritesNew,
                    Renames, Dies, TableCoversFile
      <3>2. /\ fn' \in Tables(Saved)
            /\ \A k \in DOMAIN fn : /\ k \in DOMAIN fn'
                                    /\ fn'[k].hostname = fn[k].hostname
                                    /\ fn'[k].banned = fn[k].banned
        BY <3>1, EncodedTyped DEF FilesTyped, TableCoversFile, Keeps
      <3> QED
        BY <3>2, SavedFilesAgree DEF FilesTyped
    <2> QED
      BY <2>1, <2>2
  <1> QED
    BY <1>1, FilesInit, FilesStep, PTL DEF HostSpec, FileOnlyGrows
-----------------------------------------------------------------------------
LEMMA VerdictInit == HostInit => TableKnowsMet /\ VerdictHasCause
  BY EmptyTable DEF HostInit, TableKnowsMet, VerdictHasCause, NoVerdict

\* A step keeps the table and the history together, and judges by them.
LEMMA VerdictStep ==
  /\ FilesTyped /\ TableKnowsMet /\ VerdictHasCause
  /\ [HostNext]_hostVars
  => (TableKnowsMet /\ VerdictHasCause)'
  <1> SUFFICES ASSUME FilesTyped, TableKnowsMet, VerdictHasCause,
                      [HostNext]_hostVars
               PROVE  (TableKnowsMet /\ VerdictHasCause)'
    OBVIOUS
  <1> USE DEF FilesTyped, TableKnowsMet
  <1>1. CASE Starts
    <2>1. met' = << >> /\ verdict' = NoVerdict /\ fn # Partial
      BY <1>1 DEF Starts
    <2>2. << >> \in Tables([hostname : Name, remote : Address])
      BY EmptyTable
    <2>3. \A k \in DOMAIN hosts' : hosts'[k].remote = NoAddress
      <3>1. CASE fn = Absent
        BY <1>1, <3>1 DEF Starts
      <3>2. CASE fn # Absent
        BY <1>1, <3>2, DecodedTyped DEF Starts
      <3> QED
        BY <3>1, <3>2
    <2> QED
      BY <2>1, <2>2, <2>3 DEF VerdictHasCause, NoVerdict
  <1>2. ASSUME NEW k \in HostKey, NEW n \in Name, NEW a \in Address,
               MeetsHost(k, n, a)
        PROVE  (TableKnowsMet /\ VerdictHasCause)'
    <2>1. CASE k \in DOMAIN hosts
      <3>1. /\ UNCHANGED <<hosts, met>>
            /\ process # "off"
            /\ verdict' = [status |-> Judged(hosts[k], n, a), key |-> k,
                           hostname |-> n, remote |-> a]
        BY <1>2, <2>1 DEF MeetsHost
      <3>2. Judged(hosts[k], n, a) \in {"Banned", "KnownOK", "KnownRecordMismatch"}
        BY DEF Judged
      <3>3. TableKnowsMet'
        BY <3>1, <3>2 DEF Verdicts
      <3>4. Judged(hosts[k], n, a) = "KnownRecordMismatch"
              => ~(hosts[k].hostname = n /\ hosts[k].remote = a)
        BY DEF Judged
      <3>5. Judged(hosts[k], n, a) = "KnownOK"
              => n \in Local \/ (hosts[k].hostname = n /\ hosts[k].remote = a)
        BY DEF Judged
      <3>6. k \in DOMAIN met => /\ hosts[k].hostname = met[k].hostname
                                /\ hosts[k].remote = met[k].remote
                                /\ met[k] \in [hostname : Name, remote : Address]
        BY <3>1 DEF Tables
      <3>7. hosts[k].remote = a => k \in DOMAIN met
        BY <2>1, <3>1, HostAssumption
      <3>8. met[k] = [hostname |-> n, remote |-> a] /\ k \in DOMAIN met
              <=> hosts[k].hostname = n /\ hosts[k].remote = a
        BY <3>6, <3>7
      <3> QED
        BY <3>1, <3>3, <3>4, <3>5, <3>8 DEF VerdictHasCause
    <2>2. CASE k \notin DOMAIN hosts
      <3>1. /\ process = "up" /\ hosts' = Added(k, n, a)
            /\ met' = [j \in DOMAIN met \cup {k} |->
                         IF j = k THEN [hostname |-> n, remote |-> a] ELSE met[j]]
            /\ verdict' = [status |-> "Unknown", key |-> k, hostname |-> n,
                           remote |-> a]
        BY <1>2, <2>2 DEF MeetsHost
      <3>2. /\ DOMAIN met \cup {k} \in SUBSET HostKey
            /\ met' \in [DOMAIN met \cup {k} -> [hostname : Name, remote : Address]]
        BY <3>1 DEF Tables
      <3>3. met' \in Tables([hostname : Name, remote : Address])
        BY <3>2 DEF Tables
      <3>4. /\ \A j \in DOMAIN hosts' : hosts'[j].remote # NoAddress => j \in DOMAIN met'
            /\ \A j \in DOMAIN met' : /\ j \in DOMAIN hosts'
                                      /\ hosts'[j].hostname = met'[j].hostname
                                      /\ hosts'[j].remote = met'[j].remote
        <4>1. /\ DOMAIN met' = DOMAIN met \cup {k}
              /\ met'[k] = [hostname |-> n, remote |-> a]
              /\ \A j \in DOMAIN met : j # k => met'[j] = met[j]
          BY <3>1
        <4>2. k \notin DOMAIN met
          BY <2>2, <3>1
        <4>3. /\ DOMAIN hosts' = DOMAIN hosts \cup {k}
              /\ hosts'[k] = [hostname |-> n, banned |-> FALSE, remote |-> a]
              /\ \A j \in DOMAIN hosts : hosts'[j] = hosts[j]
          BY <2>2, <3>1 DEF Added
        <4> QED
          BY <2>2, <3>1, <4>1, <4>2, <4>3
      <3> QED
        BY <3>1, <3>3, <3>4 DEF VerdictHasCause, Verdicts
    <2> QED
      BY <2>1, <2>2
  <1>3. CASE Closes \/ CreatesNew \/ WritesNew \/ Renames \/ Dies
    BY <1>3 DEF Closes, CreatesNew, WritesNew, Renames, Dies, VerdictHasCause
  <1>4. CASE UNCHANGED hostVars
    BY <1>4 DEF hostVars, VerdictHasCause
  <1> QED
    BY <1>1, <1>2, <1>3, <1>4 DEF HostNext

\* A mismatch is a change since this process met the host, and no host passes
\* under a name that is not local unless this process met it there.
THEOREM VerdictCorrect == HostSpec => []VerdictHasCause
  BY FilesInit, FilesStep, VerdictInit, VerdictStep, PTL DEF HostSpec
=============================================================================

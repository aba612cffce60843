------------------------------ MODULE HostTable ------------------------------
(***************************************************************************)
(* The client's table of known hosts (knownhosts.go), the check of a host  *)
(* key against it (sshutil.go) and the file it is saved to after every     *)
(* addition and at Close (perjson.go, the default format), for a process   *)
(* that may crash at any step and start again.                             *)
(*                                                                         *)
(* A file is the function from keys to records that it decodes to, or      *)
(* Absent, or Partial, on which the program panics when it reads it.  The  *)
(* copy fn.prev is never read and is left out.                             *)
(*                                                                         *)
(*   process   "off", "up", and in saveJsonSnappy "create" (fn.new),       *)
(*             "write", "rename"                                           *)
(***************************************************************************)
EXTENDS Naturals

CONSTANTS
  HostKey, Name, Address,
  Local,          \* the names that start with localhost or 127.0.0.1
  NoAddress,      \* a nil net.Addr
  Absent, Partial

ASSUME HostAssumption ==
  /\ Local \subseteq Name /\ NoAddress \notin Address
  /\ Absent # Partial

Saved  == [hostname : Name, banned : BOOLEAN]
Record == [hostname : Name, banned : BOOLEAN, remote : Address \cup {NoAddress}]

Tables(R) == UNION {[S -> R] : S \in SUBSET HostKey}

ASSUME FileAssumption == {Absent, Partial} \cap Tables(Saved) = {}

VARIABLES
  process, hosts,               \* Hosts
  fn, fnNew,                    \* the file, and the one that will replace it
  verdict,                      \* of the last HostAlreadyKnown, with its arguments
  met                           \* history: who this process added

hostVars == <<process, hosts, fn, fnNew, verdict, met>>

NoVerdict == [status |-> "none"]

Verdicts == [status : {"Unknown", "Banned", "KnownOK", "KnownRecordMismatch"},
             key : HostKey, hostname : Name, remote : Address]

HostTypeOK ==
  /\ process \in {"off", "up", "create", "write", "rename"}
  /\ hosts \in Tables(Record)
  /\ fn \in Tables(Saved) \cup {Absent}
  /\ fnNew \in Tables(Saved) \cup {Absent, Partial}
  /\ verdict \in Verdicts \cup {NoVerdict}
  /\ met \in Tables([hostname : Name, remote : Address])

\* A table from an earlier version of the program, or edited by hand, may
\* hold bans; the program makes none.
HostInit ==
  /\ process = "off" /\ hosts = << >>
  /\ fn \in Tables(Saved) \cup {Absent} /\ fnNew = Absent
  /\ verdict = NoVerdict /\ met = << >>
-----------------------------------------------------------------------------
\* The remote field is not exported, so that encoding/json skips it.
Encoded(table) ==
  [k \in DOMAIN table |-> [hostname |-> table[k].hostname,
                           banned   |-> table[k].banned]]

Decoded(file) ==
  [k \in DOMAIN file |-> [hostname |-> file[k].hostname,
                          banned   |-> file[k].banned,
                          remote   |-> NoAddress]]

\* NewKnownHosts
Starts ==
  /\ process = "off" /\ process' = "up"
  /\ fn # Partial
  /\ hosts' = IF fn = Absent THEN << >> ELSE Decoded(fn)
  /\ met' = << >> /\ verdict' = NoVerdict
  /\ UNCHANGED <<fn, fnNew>>

\* Mutated Judged: the address is not compared.
JudgedByName(record, name, address) ==
  CASE record.banned -> "Banned"
    [] OTHER -> IF name \in Local \/ record.hostname = name
                  THEN "KnownOK" ELSE "KnownRecordMismatch"

\* HostAlreadyKnown for a key that is in the table
Judged(record, name, address) ==
  CASE record.banned              -> "Banned"
    [] ~record.banned /\ name \in Local -> "KnownOK"
    [] OTHER -> IF record.hostname = name /\ record.remote = address
                  THEN "KnownOK" ELSE "KnownRecordMismatch"

\* hosts[key] = record
Added(key, name, address) ==
  [k \in DOMAIN hosts \cup {key} |->
     IF k = key THEN [hostname |-> name, banned |-> FALSE, remote |-> address]
                ELSE hosts[k]]

\* The host key callback of SshConnect and of SshMakeNewAcct, which refuses
\* only a banned key: the dial then fails, and the program panics.
MeetsHost(key, name, address) ==
  /\ process = "up"
  /\ IF key \in DOMAIN hosts
       THEN /\ verdict' = [status |-> Judged(hosts[key], name, address),
                           key |-> key, hostname |-> name, remote |-> address]
            /\ process' = IF verdict'.status = "Banned" THEN "off" ELSE "up"
            /\ UNCHANGED <<hosts, met>>
       ELSE /\ hosts' = Added(key, name, address)
            /\ met' = [k \in DOMAIN met \cup {key} |->
                         IF k = key THEN [hostname |-> name, remote |-> address]
                                    ELSE met[k]]
            /\ verdict' = [status |-> "Unknown", key |-> key, hostname |-> name,
                           remote |-> address]
            /\ process' = "create"
  /\ UNCHANGED <<fn, fnNew>>

\* Close, which saves
Closes ==
  /\ process = "up" /\ process' = "create"
  /\ UNCHANGED <<hosts, fn, fnNew, verdict, met>>

\* Mutated CreatesNew: the file itself is truncated.
CreatesOver ==
  /\ process = "create" /\ process' = "write"
  /\ fn' = << >> /\ UNCHANGED <<fnNew, hosts, verdict, met>>

\* unsnap.Create(fnNew)
CreatesNew ==
  /\ process = "create" /\ process' = "write"
  /\ fnNew' = Partial /\ UNCHANGED <<fn, hosts, verdict, met>>

\* j.Write(by), and j.Close
WritesNew ==
  /\ process = "write" /\ process' = "rename"
  /\ fnNew' = Encoded(hosts)
  /\ UNCHANGED <<hosts, fn, verdict, met>>

\* mv fnNew fn, whose failure nobody notices
Renames ==
  /\ process = "rename" /\ process' = "up"
  /\ \/ fn' = fnNew /\ fnNew' = Absent
     \/ UNCHANGED <<fn, fnNew>>
  /\ UNCHANGED <<hosts, verdict, met>>

\* The process ends or is killed.
Dies ==
  /\ process # "off" /\ process' = "off"
  /\ UNCHANGED <<hosts, fn, fnNew, verdict, met>>

HostNext ==
  \/ Starts \/ Closes \/ CreatesNew \/ WritesNew \/ Renames \/ Dies
  \/ \E k \in HostKey, n \in Name, a \in Address : MeetsHost(k, n, a)

HostSpec == HostInit /\ [][HostNext]_hostVars
-----------------------------------------------------------------------------
(***************************************************************************)
(* Properties.                                                             *)
(***************************************************************************)

\* What the file says of a host it goes on saying, wherever the process is
\* killed and whichever rename fails: a ban is not lost, nor a host forgotten
\* or renamed, and the file is never half written (perjson.go: "don't blow
\* away the last good (fn) until the new version is completely written").
FileOnlyGrows ==
  [][fn # Absent =>
       /\ fn' \in Tables(Saved)
       /\ \A k \in DOMAIN fn : k \in DOMAIN fn' /\ fn'[k] = fn[k]]_hostVars

\* A host that this process met and that has not changed is never a mismatch,
\* and a key passes as known under a name that is not local only if this process
\* met it at that very address.  A host known from the file alone does not pass:
\* its address was not saved.
VerdictHasCause ==
  LET v == verdict
      SameAsMet == v.key \in DOMAIN met
                     /\ met[v.key] = [hostname |-> v.hostname, remote |-> v.remote]
  IN  /\ v.status = "KnownRecordMismatch" => ~SameAsMet
      /\ v.status = "KnownOK" => v.hostname \in Local \/ SameAsMet
=============================================================================

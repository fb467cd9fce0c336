---------------------------- MODULE FeatureStore ----------------------------
(***************************************************************************)
(* One feature directory: the journal, the projections derived from it     *)
(* (the snapshot leaves, `_meta.json`, spec.md, the registry file), the    *)
(* commands that write them under the feature lease (a mutation, a dry     *)
(* run, `doctor --rebuild`, `doctor --check-tail`), and the readers that   *)
(* load the projections without any lease.                                 *)
(*                                                                         *)
(* That the lease is exclusive, and a dead owner's is taken over in one    *)
(* step, is an assumption of this module: FeatureLease has the protocol of *)
(* `.lock`, when it keeps that assumption and when it breaks it.           *)
(*                                                                         *)
(* A process stands for one run of the CLI, and its name for the batch id, *)
(* the timestamps and the payloads of the lines it appends, which no other *)
(* run repeats. What a projection says is a function of the journal prefix *)
(* it was composed from, so a projection is represented by that prefix.    *)
(***************************************************************************)
EXTENDS Naturals, Sequences, FiniteSets, SequencesExt

CONSTANTS
  Procs,        \* runs of the CLI that write to the feature
  Readers,      \* runs of the CLI that only read its projections
  NoProc,       \* nobody; also the author of the line `loaf start` appended
  LeafOrder,    \* the projection files, in the order writeProjections has
  Kinds,        \* the commands that processes run
  MaxBatch,     \* bound: lines in one mutation
  EmitsSpec,    \* may a mutation emit spec entries? may it emit none?
  CutPoints,    \* where a write that does not complete may stop
  MaxCrashes    \* bound: processes that die without cleaning up

AllKinds == {"mutate", "dryRun", "rebuild", "checkTail"}

\* After some whole lines; within a line; just before the newline of a line.
AllCutPoints == {"boundary", "fragment", "unterminated"}

ASSUME NoProcAssumption == NoProc \notin Procs
ASSUME LeafOrderAssumption == LeafOrder \in Seq(STRING) /\ Len(LeafOrder) > 0
ASSUME KindsAssumption == Kinds \subseteq AllKinds
ASSUME MaxBatchAssumption == MaxBatch \in Nat \ {0}
ASSUME EmitsSpecAssumption == EmitsSpec \subseteq BOOLEAN
ASSUME CutPointsAssumption == CutPoints \subseteq AllCutPoints
ASSUME MaxCrashesAssumption == MaxCrashes \in Nat

VARIABLES
  journal,    \* the lines of journal.jsonl that parse as entries
  tail,       \* how the file ends
  leaves,     \* the prefix each snapshots/*.json was composed from
  meta,       \* the prefix `_meta.json` describes
  specMd,     \* the prefix spec.md was rendered from
  registry,   \* the prefix ~/.loaf/registry/<id>.json was built from
  holder,     \* the owner of `.lock`
  pc,         \* where each writer is
  cmd,        \* the command it runs
  view,       \* the journal as it loaded, replayed or extended it
  leaf,       \* the projection file it writes next
  outcome,    \* what it tells its caller
  crashes,    \* processes that died so far
  rpc,        \* where each reader is
  cached,     \* M0, the meta a reader holds on to
  got         \* the leaves it has read

files == <<journal, tail, leaves, meta, specMd, registry>>
procVars == <<pc, cmd, view, leaf, outcome>>
readerVars == <<rpc, cached, got>>
vars == <<files, holder, procVars, crashes, readerVars>>

-----------------------------------------------------------------------------
(* Lines, batches, and what the code asks of the journal's tail *)

Leaves == Range(LeafOrder)

Lines == [op : Procs \cup {NoProc}, seq : Nat, index : Nat, count : Nat, spec : BOOLEAN]

Tails == {"clean", "unterminated", "fragment"}

StartLine == [op |-> NoProc, seq |-> 0, index |-> 0, count |-> 1, spec |-> FALSE]

\* Mutant: the first line of a batch takes the seq of the tail.
Batch_SeqOfTail(p) ==
  [i \in 1 .. cmd[p].count |->
     [op |-> p, seq |-> Len(view[p]) + i - 2, index |-> i - 1,
      count |-> cmd[p].count, spec |-> cmd[p].spec]]

\* seq is tail_seq + 1 + i: it counts from the loaded journal, not from the file.
Batch(p) ==
  [i \in 1 .. cmd[p].count |->
     [op |-> p, seq |-> Len(view[p]) + i - 1, index |-> i - 1,
      count |-> cmd[p].count, spec |-> cmd[p].spec]]

\* The three facts `_meta.json` keeps about the last line: its seq, where it
\* starts and its hash.
SameTail(prefix) ==
  /\ tail = "clean"
  /\ Len(journal) = Len(prefix)
  /\ journal # <<>> => Last(journal) = Last(prefix)

\* Mutant: the lease is trusted, the tail is not looked at again.
TailMatches_Trusting(prefix) == TRUE

\* Mutant: seq and hash of the last line are compared, where it starts is not.
TailMatches_IgnoresOffset(prefix) ==
  /\ tail # "fragment"
  /\ Len(journal) = Len(prefix)
  /\ journal # <<>> => Last(journal) = Last(prefix)

\* assertJournalTailMatchesMeta
TailMatches(prefix) == SameTail(prefix)

\* checkSnapshotFresh
Fresh(prefix) == SameTail(prefix)

SpecLines(prefix) == SelectSeq(prefix, LAMBDA l : l.spec)

\* The lines at the end that share the batch of the last one.
LastBatch(lines) ==
  {i \in 1 .. Len(lines) : \A j \in i .. Len(lines) : lines[j].op = Last(lines).op}

BeforeLastBatch(lines) == SubSeq(lines, 1, Len(lines) - Cardinality(LastBatch(lines)))

\* A line outside a batch has no batch_id; its count is 1.
IncompleteLastBatch(lines) ==
  lines # <<>> /\ Cardinality(LastBatch(lines)) < Last(lines).count

DropIncompleteBatch(lines) ==
  IF IncompleteLastBatch(lines) THEN BeforeLastBatch(lines) ELSE lines

\* Mutant: the batch's declared size is compared with the last batch_index.
Recovered_IndexForCount(lines, end) ==
  IF lines # <<>> /\ Last(lines).index < Last(lines).count
  THEN BeforeLastBatch(lines)
  ELSE lines

\* Mutant: the partial line goes, the entries before it stay.
Recovered_LineOnly(lines, end) == IF end = "unterminated" THEN Front(lines) ELSE lines

\* What tailRecovery leaves: without the partial line, and without the batch
\* that ends the rest unless it is complete.
Recovered(lines, end) ==
  DropIncompleteBatch(IF end = "unterminated" THEN Front(lines) ELSE lines)

Goto(p, label) == pc' = [pc EXCEPT ![p] = label]

\* What the process had in memory goes with it.
Leave(p, label) ==
  /\ Goto(p, label)
  /\ view' = [view EXCEPT ![p] = <<>>]
  /\ leaf' = [leaf EXCEPT ![p] = 1]

Report(p, result) == outcome' = [outcome EXCEPT ![p] = result]

\* Places where a process runs no more.
Exited == {"done", "refused", "crashed", "interrupted", "cutOff"}

\* Places inside the lease.
Leased == {"confirm", "validate", "append", "spec", "recover", "replay", "leaf", "meta",
           "registry", "release"}

\* Where activeOwners names the lease: from its confirmation to the call of
\* release(), which deletes the entry before it looks for the file.
Registered == Leased \ {"confirm", "release"}

PcStates == Exited \cup Leased \cup {"idle", "load", "acquire"}

Outcomes == {"none", "notCommitted", "committed", "rebuilt", "failed"}

Commands ==
  [kind : Kinds \cap {"mutate"}, count : 1 .. MaxBatch, spec : EmitsSpec]
    \cup [kind : Kinds \ {"mutate"}, count : {0}, spec : {FALSE}]

NoCommand == [kind |-> "none", count |-> 0, spec |-> FALSE]

-----------------------------------------------------------------------------
\* A feature that does not exist yet, or one on which `loaf start` ran.
Init ==
  /\ journal \in {<<>>, <<StartLine>>}
  /\ tail = "clean"
  /\ leaves = [f \in Leaves |-> journal]
  /\ meta = journal
  /\ specMd = <<>>
  /\ registry = journal
  /\ holder = NoProc
  /\ pc = [p \in Procs |-> "idle"]
  /\ cmd = [p \in Procs |-> NoCommand]
  /\ view = [p \in Procs |-> <<>>]
  /\ leaf = [p \in Procs |-> 1]
  /\ outcome = [p \in Procs |-> "none"]
  /\ crashes = 0
  /\ rpc = [r \in Readers |-> "idle"]
  /\ cached = [r \in Readers |-> <<>>]
  /\ got = [r \in Readers |-> <<>>]

\* A mutation loads the journal before it asks for the lease; doctor does not.
Start(p) ==
  /\ pc[p] = "idle"
  /\ \E c \in Commands :
       /\ cmd' = [cmd EXCEPT ![p] = c]
       /\ Goto(p, IF c.kind \in {"mutate", "dryRun"} THEN "load" ELSE "acquire")
  /\ UNCHANGED <<files, holder, view, leaf, outcome, crashes, readerVars>>

\* loadSession: a replay of the whole file. The newline of the last line is not
\* asked for, and neither is the completeness of a batch.
Load(p) ==
  /\ pc[p] = "load"
  /\ IF tail = "fragment"
     THEN Leave(p, "refused")
     ELSE Goto(p, "acquire") /\ view' = [view EXCEPT ![p] = journal] /\ UNCHANGED leaf
  /\ UNCHANGED <<files, holder, cmd, outcome, crashes, readerVars>>

\* createLease, after the recovery of a dead owner's file where there is one.
Acquire(p) ==
  /\ pc[p] = "acquire"
  /\ holder \in {NoProc} \cup {q \in Procs : pc[q] \in Exited}
  /\ holder' = p
  /\ Goto(p, "confirm")
  /\ UNCHANGED <<files, cmd, view, leaf, outcome, crashes, readerVars>>

\* The file is read back, and activeOwners learns of it.
Confirm(p) ==
  /\ pc[p] = "confirm"
  /\ Goto(p, CASE cmd[p].kind = "rebuild"   -> "replay"
               [] cmd[p].kind = "checkTail" -> "recover"
               [] OTHER                     -> "validate")
  /\ UNCHANGED <<files, holder, cmd, view, leaf, outcome, crashes, readerVars>>

LockTimeout(p) ==
  /\ pc[p] = "acquire"
  /\ holder # NoProc
  /\ Leave(p, "refused")
  /\ Report(p, IF cmd[p].kind \in {"mutate", "dryRun"} THEN "notCommitted" ELSE "failed")
  /\ UNCHANGED <<files, holder, cmd, crashes, readerVars>>

(* mutateBatchUnderLease *)

\* Preflight, a gate, an attachment or a sidecar stops the mutation.
Reject(p) ==
  /\ pc[p] = "validate"
  /\ Goto(p, "release")
  /\ Report(p, "notCommitted")
  /\ UNCHANGED <<files, holder, cmd, view, leaf, crashes, readerVars>>

Validate(p) ==
  /\ pc[p] = "validate"
  /\ IF TailMatches(view[p]) /\ cmd[p].kind = "mutate"
     THEN Goto(p, "append") /\ UNCHANGED outcome
     ELSE Goto(p, "release") /\ Report(p, "notCommitted")
  /\ UNCHANGED <<files, holder, cmd, view, leaf, crashes, readerVars>>

\* appendMany refuses before it writes: an entry or the batch is over the byte
\* limit, or the tail is no longer the one that was validated.
AppendRefused(p) ==
  /\ pc[p] = "append"
  /\ Goto(p, "release")
  /\ Report(p, "notCommitted")
  /\ UNCHANGED <<files, holder, cmd, view, leaf, crashes, readerVars>>

\* One write, then fsync. The journal and the caller's view grow together.
AppendBatch(p) ==
  /\ pc[p] = "append"
  /\ TailMatches(view[p])
  /\ journal' = journal \o Batch(p)
  /\ view' = [view EXCEPT ![p] = @ \o Batch(p)]
  /\ leaf' = [leaf EXCEPT ![p] = 1]
  /\ Report(p, "committed")
  /\ Goto(p, IF cmd[p].spec THEN "spec" ELSE "leaf")
  /\ UNCHANGED <<tail, leaves, meta, specMd, registry, holder, cmd, crashes, readerVars>>

\* The lines are there, but fsync failed: the mutation reports "not-committed".
AppendUnsynced(p) ==
  /\ pc[p] = "append"
  /\ TailMatches(view[p])
  /\ journal' = journal \o Batch(p)
  /\ Goto(p, "release")
  /\ Report(p, "notCommitted")
  /\ UNCHANGED <<tail, leaves, meta, specMd, registry, holder, cmd, view, leaf, crashes,
                 readerVars>>

\* The write stopped short: the disk is full, or the machine went down.
AppendTorn(p) ==
  /\ pc[p] = "append"
  /\ TailMatches(view[p])
  /\ \E cut \in CutPoints, k \in 0 .. cmd[p].count :
       /\ cut # "unterminated" => k < cmd[p].count
       /\ cut = "unterminated" => k > 0
       /\ journal' = journal \o SubSeq(Batch(p), 1, k)
       /\ tail' = IF cut = "boundary" THEN "clean" ELSE cut
  /\ Goto(p, "release")
  /\ Report(p, "notCommitted")
  /\ UNCHANGED <<leaves, meta, specMd, registry, holder, cmd, view, leaf, crashes, readerVars>>

\* spec.md first. If it cannot be written, nothing else is.
WriteSpec(p) ==
  /\ pc[p] = "spec"
  /\ specMd' = view[p]
  /\ Goto(p, "leaf")
  /\ UNCHANGED <<journal, tail, leaves, meta, registry, holder, cmd, view, leaf, outcome,
                 crashes, readerVars>>

(* writeProjections, of a mutation and of doctor alike *)

\* Mutant: `_meta.json` is refreshed along with the first leaf.
WriteLeaf_MetaAlong(p) ==
  /\ pc[p] = "leaf"
  /\ leaves' = [leaves EXCEPT ![LeafOrder[leaf[p]]] = view[p]]
  /\ meta' = view[p]
  /\ leaf' = [leaf EXCEPT ![p] = @ + 1]
  /\ Goto(p, IF leaf[p] = Len(LeafOrder) THEN "meta" ELSE "leaf")
  /\ UNCHANGED <<journal, tail, specMd, registry, holder, cmd, view, outcome, crashes,
                 readerVars>>

WriteLeaf(p) ==
  /\ pc[p] = "leaf"
  /\ leaves' = [leaves EXCEPT ![LeafOrder[leaf[p]]] = view[p]]
  /\ leaf' = [leaf EXCEPT ![p] = @ + 1]
  /\ Goto(p, IF leaf[p] = Len(LeafOrder) THEN "meta" ELSE "leaf")
  /\ UNCHANGED <<journal, tail, meta, specMd, registry, holder, cmd, view, outcome, crashes,
                 readerVars>>

WriteMeta(p) ==
  /\ pc[p] = "meta"
  /\ meta' = view[p]
  /\ IF cmd[p].kind = "mutate"
     THEN Goto(p, "registry") /\ UNCHANGED outcome
     ELSE Goto(p, "release") /\ Report(p, "rebuilt")
  /\ UNCHANGED <<journal, tail, leaves, specMd, registry, holder, cmd, view, leaf, crashes,
                 readerVars>>

\* Mutant: the error leaves without the `finally` that releases the lease.
ProjectionFails_NoFinally(p) ==
  /\ pc[p] \in {"spec", "leaf", "meta"}
  /\ Leave(p, "done")
  /\ IF cmd[p].kind = "mutate" THEN UNCHANGED outcome ELSE Report(p, "failed")
  /\ UNCHANGED <<files, holder, cmd, crashes, readerVars>>

\* PROJECTION_WRITE_FAILED of a mutation keeps commit_state = "committed".
ProjectionFails(p) ==
  /\ pc[p] \in {"spec", "leaf", "meta"}
  /\ Goto(p, "release")
  /\ IF cmd[p].kind = "mutate" THEN UNCHANGED outcome ELSE Report(p, "failed")
  /\ UNCHANGED <<files, holder, cmd, view, leaf, crashes, readerVars>>

\* Best effort: a failed write of the registry file is not reported.
WriteRegistry(p) ==
  /\ pc[p] = "registry"
  /\ registry' \in {registry, view[p]}
  /\ Goto(p, "release")
  /\ UNCHANGED <<journal, tail, leaves, meta, specMd, holder, cmd, view, leaf, outcome,
                 crashes, readerVars>>

(* doctor *)

\* Mutant: one byte too many is cut off, the newline of the last line kept.
Recover_OneByteMore(p) ==
  /\ pc[p] = "recover"
  /\ journal' = Recovered(journal, tail)
  /\ tail' = IF tail # "clean" /\ journal' # <<>> THEN "unterminated" ELSE "clean"
  /\ Goto(p, "replay")
  /\ UNCHANGED <<leaves, meta, specMd, registry, holder, cmd, view, leaf, outcome, crashes,
                 readerVars>>

Recover(p) ==
  /\ pc[p] = "recover"
  /\ journal' = Recovered(journal, tail)
  /\ tail' = "clean"
  /\ Goto(p, "replay")
  /\ UNCHANGED <<leaves, meta, specMd, registry, holder, cmd, view, leaf, outcome, crashes,
                 readerVars>>

\* The tail is a newer writer's, or the file cannot be truncated.
RecoverFails(p) ==
  /\ pc[p] = "recover"
  /\ Goto(p, "release")
  /\ Report(p, "failed")
  /\ UNCHANGED <<files, holder, cmd, view, leaf, crashes, readerVars>>

Replay(p) ==
  /\ pc[p] = "replay"
  /\ IF tail = "fragment"
     THEN Goto(p, "release") /\ Report(p, "failed") /\ UNCHANGED <<view, leaf>>
     ELSE /\ Goto(p, "leaf")
          /\ view' = [view EXCEPT ![p] = journal]
          /\ leaf' = [leaf EXCEPT ![p] = 1]
          /\ UNCHANGED outcome
  /\ UNCHANGED <<files, holder, cmd, crashes, readerVars>>

Release(p) ==
  /\ pc[p] = "release"
  /\ holder' = IF holder = p THEN NoProc ELSE holder
  /\ Leave(p, "done")
  /\ UNCHANGED <<files, cmd, outcome, crashes, readerVars>>

(* Ctrl-C, and deaths that run no handler *)

\* The handler unlinks the leases that activeOwners names and exits. A lease
\* that is being taken or given back is not there: its file stays behind.
Interrupt(p) ==
  /\ pc[p] \notin Exited \cup {"idle"}
  /\ holder' = IF holder = p /\ pc[p] \in Registered THEN NoProc ELSE holder
  /\ Leave(p, IF pc[p] \in Leased \ Registered THEN "cutOff" ELSE "interrupted")
  /\ UNCHANGED <<files, cmd, outcome, crashes, readerVars>>

Crash(p) ==
  /\ pc[p] \in Leased
  /\ crashes < MaxCrashes
  /\ crashes' = crashes + 1
  /\ Leave(p, "crashed")
  /\ UNCHANGED <<files, holder, cmd, outcome, readerVars>>

-----------------------------------------------------------------------------
(* loadProjections *)

\* No session, or a journal without `_meta.json`: neither serves anything.
ReadMeta(r) ==
  /\ rpc[r] = "idle"
  /\ cached' = [cached EXCEPT ![r] = meta]
  /\ rpc' = [rpc EXCEPT ![r] = IF meta = <<>> THEN "refused" ELSE "check"]
  /\ UNCHANGED <<files, holder, procVars, crashes, got>>

CheckFresh(r) ==
  /\ rpc[r] = "check"
  /\ rpc' = [rpc EXCEPT ![r] = IF Fresh(cached[r]) THEN "read" ELSE "refused"]
  /\ UNCHANGED <<files, holder, procVars, crashes, cached, got>>

ReadLeaf(r) ==
  /\ rpc[r] = "read"
  /\ LET next == leaves[LeafOrder[Len(got[r]) + 1]] IN
       /\ got' = [got EXCEPT ![r] = @ \o <<next>>]
       /\ rpc' = [rpc EXCEPT ![r] =
                    IF Len(got[r]) + 1 = Len(LeafOrder) THEN "recheck" ELSE "read"]
  /\ UNCHANGED <<files, holder, procVars, crashes, cached>>

\* A leaf that is missing or fails its schema.
ReadLeafFails(r) ==
  /\ rpc[r] = "read"
  /\ rpc' = [rpc EXCEPT ![r] = "refused"]
  /\ UNCHANGED <<files, holder, procVars, crashes, cached, got>>

\* Mutant: no second look at the journal once the leaves are read.
CheckAgain_Skipped(r) ==
  /\ rpc[r] = "recheck"
  /\ rpc' = [rpc EXCEPT ![r] = "served"]
  /\ UNCHANGED <<files, holder, procVars, crashes, cached, got>>

\* Against the cached meta, never against a newer one.
CheckAgain(r) ==
  /\ rpc[r] = "recheck"
  /\ rpc' = [rpc EXCEPT ![r] = IF Fresh(cached[r]) THEN "served" ELSE "refused"]
  /\ UNCHANGED <<files, holder, procVars, crashes, cached, got>>

-----------------------------------------------------------------------------
Mutating(p) ==
  \/ Load(p) \/ Reject(p) \/ Validate(p) \/ AppendRefused(p)
  \/ AppendBatch(p) \/ AppendUnsynced(p) \/ AppendTorn(p)
  \/ WriteSpec(p) \/ WriteRegistry(p)

Repairing(p) == Recover(p) \/ RecoverFails(p) \/ Replay(p)

Publishing(p) == WriteLeaf(p) \/ WriteMeta(p) \/ ProjectionFails(p)

Locking(p) == Acquire(p) \/ Confirm(p) \/ LockTimeout(p) \/ Release(p)

Working(p) == Locking(p) \/ Mutating(p) \/ Repairing(p) \/ Publishing(p)

Reading(r) ==
  ReadMeta(r) \/ CheckFresh(r) \/ ReadLeaf(r) \/ ReadLeafFails(r) \/ CheckAgain(r)

Next ==
  \/ \E p \in Procs : Start(p) \/ Working(p) \/ Interrupt(p) \/ Crash(p)
  \/ \E r \in Readers : Reading(r)

\* A live command goes on: its calls return, and its wait for the lease is
\* bounded. Nothing obliges a command to start, or to be killed.
Fairness == \A p \in Procs : WF_vars(Working(p))

Spec == Init /\ [][Next]_vars

FairSpec == Spec /\ Fairness
-----------------------------------------------------------------------------
(* Properties *)

Histories == Seq(Lines)

\* Every variable has its type.
TypeOK ==
  /\ journal \in Histories
  /\ tail \in Tails
  /\ leaves \in [Leaves -> Histories]
  /\ meta \in Histories
  /\ specMd \in Histories
  /\ registry \in Histories
  /\ holder \in Procs \cup {NoProc}
  /\ pc \in [Procs -> PcStates]
  /\ cmd \in [Procs -> Commands \cup {NoCommand}]
  /\ view \in [Procs -> Histories]
  /\ leaf \in [Procs -> 1 .. Len(LeafOrder) + 1]
  /\ outcome \in [Procs -> Outcomes]
  /\ crashes \in Nat
  /\ rpc \in [Readers -> {"idle", "check", "read", "recheck", "served", "refused"}]
  /\ cached \in [Readers -> Histories]
  /\ got \in [Readers -> Seq(Histories)]

\* "seq: strictly +1 per entry; no gaps", whatever was loaded before the lease,
\* torn, truncated or retried: a replay would refuse anything else for good.
SeqContiguous == \A i \in 1 .. Len(journal) : journal[i].seq = i - 1

\* A mutation that reported "committed" stays in the journal, whole, through
\* every later repair, crash and append.
CommittedSurvives ==
  \A p \in Procs :
    outcome[p] = "committed"
    => \E i \in 0 .. Len(journal) - cmd[p].count :
         \A k \in 1 .. cmd[p].count :
           journal[i + k].op = p /\ journal[i + k].index = k - 1

\* Gates and reducers judge a mutation on the journal loaded before the lease;
\* lines only ever land behind exactly that journal, properly terminated.
AppendsBehindValidatedBase ==
  [][\A p \in Procs :
       pc[p] = "append" /\ journal' # journal => view[p] = journal /\ tail = "clean"]_vars

\* The lease is given back on every path out of a command: success, refusal, a
\* failed write, and Ctrl-C while the command works under it. A kill leaves it
\* behind, and so does Ctrl-C while it is being taken or given back, though
\* concurrency-contract.ts:153 says that a first Ctrl-C "releases lock".
LeaseReturned ==
  \A p \in Procs :
    pc[p] \in Leased ~> pc[p] \in Exited /\ (holder # p \/ pc[p] \in {"crashed", "cutOff"})

\* When doctor reports success, a reader finds `_meta.json` and every leaf in
\* agreement with the journal. (A last line that only lacks its newline is the
\* exception: --rebuild accepts it, the fast check does not.)
DoctorRefreshes ==
  \A p \in Procs :
    pc[p] = "release" /\ outcome[p] = "rebuilt"
    => /\ Fresh(meta) \/ (cmd[p].kind = "rebuild" /\ tail = "unterminated")
       /\ \A f \in Leaves : leaves[f] = meta

\* "truncate back to the last fully committed boundary": when --check-tail
\* reports success, the journal does not end within a batch.
CheckTailEndsOnCommit ==
  \A p \in Procs :
    pc[p] = "release" /\ outcome[p] = "rebuilt" /\ cmd[p].kind = "checkTail"
    => ~IncompleteLastBatch(journal)

\* "a reader must never see a fresh _meta pointing at stale projection files"
FreshMetaDescribesLeaves ==
  Fresh(meta) => \A f \in Leaves : leaves[f] = meta

\* What a reader returns was composed, all of it, from the journal prefix that
\* the meta it returns describes, although it takes no lease.
ReadersServeOnePrefix ==
  \A r \in Readers :
    rpc[r] = "served" => \A i \in 1 .. Len(LeafOrder) : got[r][i] = cached[r]

\* "`loaf doctor --rebuild` is the recovery path" for spec.md.
RebuildRestoresSpec ==
  \A p \in Procs :
    pc[p] = "release" /\ outcome[p] = "rebuilt"
    => SpecLines(specMd) = SpecLines(journal)

Log == INSTANCE AtomicLog WITH log <- Recovered(journal, tail)

\* What the journal says once a torn tail is discounted only grows, by whole
\* batches.
ImplementsAtomicLog == Log!Spec
=============================================================================

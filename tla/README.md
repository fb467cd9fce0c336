# loaf: TLA+ models, checks and proofs

loaf is a command line tool that drives a coding agent through the phases of a
feature (TRIAGE, SPEC, EXECUTE, VERIFY, SETTLE, DONE). Everything it knows of a
feature is one append-only journal; every other file is a projection of it.
Two things can go wrong, and the models follow them:

- Each command is a process of its own: an agent, its sub-agents, its hooks and
  a person may run several at once on the same files. Who may write, what does a
  reader see halfway, what does a killed process leave behind, what does a
  decision taken on an older file do to a newer one? (`FeatureLease`,
  `FeatureStore`, `ScopeClosure`)
- Each command is judged on its own, by guards spread over a transition table,
  a kind registry, preflight checks, gates and policies. What do long sequences
  of commands, each of them legal, add up to? (`Workflow` and the modules under
  it)

This directory holds these models, their TLC runs and the TLAPS proofs. Paths
below are relative to the repository; `core/` stands for `src/core/`, `cli/` for
`src/cli/`.

- [1 The system](#1-the-system)
- [2 The modules and the code](#2-the-modules-and-the-code)
- [3 The runs](#3-the-runs)
- [4 The proofs](#4-the-proofs)
- [5 What the checks found](#5-what-the-checks-found)
- [6 What is not modelled](#6-what-is-not-modelled)
- [7 The plan](#7-the-plan)

## 1 The system

### Components

| component | code | state | operations | what makes it correct |
|---|---|---|---|---|
| feature write lease | `core/feature-write-lease.ts`, the SIGINT hook of `cli.tsx` | `.loaf/<feature>/.lock`: pid, owner token, times | acquire (create, confirm), recover a dead owner's file, release, release on Ctrl-C | one holder; a live holder's file stays; a dead one's is reclaimed; a wait ends |
| mutation pipeline | `core/journal-mutate.ts`, `core/journal-append.ts`, `core/cli-runtime.ts` | `journal.jsonl` | load, judge a batch, append it, project it | batches are whole, seq numbers have no gap, nothing lands behind a journal it was not judged on, a committed batch stays |
| replay and tail recovery | `core/journal-bootstrap.ts` | - | replay, `doctor --check-tail` | only what was not committed is dropped; what is left replays |
| projections and readers | `core/projection-writer.ts`, `core/projection-loader.ts`, `core/snapshot-reader.ts` | `snapshots/*.json`, `_meta.json` | write leaves then meta; fast check, read, fast check again | a fresh `_meta.json` never stands beside other leaves; a reader serves one journal prefix |
| doctor | `cli/commands/profile-config.tsx` | - | `--rebuild`, `--check-tail` | what it reports repaired is fresh |
| spec.md, registry | `core/spec-projection.ts`, `core/registry-writer.ts` | `spec.md`, `~/.loaf/registry/<id>.json` | written after an append | they follow the journal |
| session runtime file | `core/session-runtime.ts` | `~/.loaf/runtime/<session>.json` and its lock | locked read-modify-write | one writer at a time, no lost update |
| pending scope and EXECUTE closure | `core/pending-scope.ts`, `core/execute-closure.ts`, `core/scope-closure-policy.ts`, `core/scope-projection.ts` | `pending_scope`, the `scope:recorded` facts of the journal | track a path, close an iteration, recover a closure, settle | an iteration is closed once with its scope, no tracked path is lost |
| workflow state machine | `core/machine.ts`, `core/reducer.ts`, `core/reducer/*`, `core/entry-admission.ts` | sub-state, iteration, ceremony, spec_locked, verify_accepted | one reducer case per entry kind, transitions and back edges | no legal sequence of entries skips a gate of its ceremony; work runs on a locked spec |
| gates | `core/gates/*` | - | spec-lock, verify-accept | what a gate accepted stands until the delivery |
| tasks | `core/task-*.ts`, `cli/task-authoring.ts`, `cli/commands/tasks/*` | tasks, steps, dependencies | plan, add, amend, claim, step, promote, reset, abandon | an order of work always exists, progress is kept, an id names one task for ever |
| findings, interventions, pending decisions | `core/intervention-policy.ts`, `core/finding-schema.ts` | open findings, FIFO of decisions | raise, close, decide, resolve | a back edge has its finding and is counted, a waiting decision holds the session |
| next action advisory | `core/next-action.ts`, `core/reducer/transition.ts` | - | one advised command per state | the advised command is one that is admitted |
| attachments and sidecars | `core/attachment-*.ts`, `core/sidecar.ts` | `attachments/**` | promote before the append, verify on replay | an entry's sidecar exists and has its hash |
| session dispatch, prune, restore | `core/session-dispatch.ts`, `core/trash-bucket.ts` | `.loaf/*`, the trash | select, prune, restore | a command works on the feature it selected |
| write guard and hooks | `core/write-guard.ts`, `core/hook-*.ts` | - | decide one event | - |
| handoff, configuration, i18n, board and TUI, argument parsing | `cli/**`, ... | resume-pack.json; otherwise none | - | - |

### How they interact

A mutating command loads and replays the journal, judges its batch on the
result, takes the feature lease, checks that the journal's tail is still the
one it loaded, appends the whole batch with one write and one fsync, writes
`spec.md` if the batch has spec entries, the leaves, `_meta.json`, the registry
file, and gives the lease back. `doctor` takes the same lease and writes the
same projections from a replay. Readers (`status`, the hooks, the board) take
no lease: they compare `_meta.json` with the journal's tail before and after
they read the leaves.

The scope hook takes the runtime lock of its session and no feature lease. The
closure (`loaf advance EXECUTE.done`) takes the runtime lock and, within it,
the feature lease. All other mutations take the feature lease only, so a
session may move on while a hook waits or a closure works.

### What is hard

- Interleaving: every `await` between two file-system calls is a place for
  another process. `unlinkIfUnchanged` looks and then unlinks by name; the
  batch is judged before the lease is taken; readers have no lease at all.
- Crashes: a killed process leaves a lock file, half a line, whole lines of half
  a batch, some leaves, a closure that is committed and not settled.
- Partial failure: a short write, an fsync that fails behind a complete write,
  a projection that fails behind a commit.
- Stale decisions: an observation of a lock file, a captured cursor, a loaded
  journal, a pending set.
- Bounded waits and retries that share one counter.
- Sequences: a finding goes back to the spec after work has begun, a task is
  amended to another kind, a dependency is abandoned while another task is
  reopened, a ceremony is escalated over a waiting gate. Every entry is checked
  alone; what the checks leave together is nowhere written down.

PROJECT.json lists the hazards, each at its line, with the properties that
would catch it.

## 2 The modules and the code

| module | what it is |
|---|---|
| `ExclusiveLease` | abstract: one command at a time owns a feature |
| `FeatureLease` | the `.lock` protocol, one action per file-system call; implements `ExclusiveLease` |
| `AtomicLog` | abstract: a log that grows by whole batches |
| `FeatureStore` | journal, projections, writers, doctor, readers; implements `AtomicLog` |
| `ScopeClosure` | runtime file, hooks, closures, and the commands that move the cursor beside them |
| `Cursor` | sub-states, ceremonies, transitions, back edges, authority by entry kind, next action |
| `TaskGraph` | tasks, their steps, the graph, and what may be done to them |
| `Interventions` | findings and pending decisions |
| `Gates` | spec, evidence, spec-lock and verify-accept |
| `Workflow` | one session: the snapshot, one action per command |
| `Lifecycle` | abstract: the phases of a session; `Workflow` implements it |
| `MCFeatureLease`, `MCFeatureStore`, `MCScopeClosure`, `MCWorkflow` | symmetry, sequences and scenarios for TLC |
| `FeatureLeaseProofs`, `FeatureStoreProofs`, `FeatureStoreCommitProofs`, `ScopeClosureProofs` | theorems about files |
| `TaskGraphProofs`, `WorkflowProofs`, `WorkflowTaskProofs`, `WorkflowEndProofs` | theorems about sessions |

`Workflow` EXTENDS `Gates`, which EXTENDS `Interventions`, `TaskGraph` and
`Cursor`: the lower four have no state of their own, they are the operators
that the code's pure functions are.

`FeatureStore` assumes that the lease excludes and that a dead owner's is taken
over in one step. `FeatureLease` says what that assumption is worth: the file
protocol keeps it as long as no unlink hits a generation that was not looked at
(`NoStaleUnlinkRefines`), and `lease_stolen` is what happens otherwise. What
`FeatureStore` shows of crashes it shows of a store whose lease is not stolen.
`ScopeClosure` takes a mutation to be what
`FeatureStore` promises (a batch lands whole, and only behind the journal it
was judged on) and assumes the same of the runtime lock, whose recovery has the
same gap (`session-runtime.ts:335-339`). `Workflow` takes both for
granted: a command is one step, because a batch lands only behind the snapshot
it was judged on, and whole.

### FeatureLease

`lock` is the file: its owner (for pid and token), the attempt in which it was
created (with the owner, the generation that `observe` compares by inode and
times), how much of its text is there, and whether its mtime is older than
`legacyLockStaleMs`. `pc` names the call a process makes next: `create`,
`write`, `chmod`, `confirm` are `createLease` and the read back; `observe`,
`revalidate`, `fence`, `unlink` are the recovery; `held` is the caller's body;
`release`, `releaseFence`, `releaseUnlink` the `finally`; `signalUnlink` the
SIGINT hook; `abandon` the unlink in the `catch` of `createLease`. `attempts`
is the one counter that lost races, recoveries and waits share. A process is
one run of the CLI, so a process that has left the lease code is a dead pid:
pid reuse is not modelled, and with it the generation check's other purpose.

### FeatureStore

`journal` is the sequence of whole lines, `tail` how the file ends (clean, a
last line without newline, a fragment). A line has its author, which stands for
batch id and payload, its seq, its place in the batch and the batch's size, and
whether it is a spec entry. A projection is a function of the journal prefix it
was composed from, so `leaves`, `meta`, `specMd`, `registry` hold prefixes. A
writer goes `load`, `acquire`, `confirm`, `validate`, `append`, (`spec`),
`leaf`..., `meta`, `registry`, `release`; `doctor` goes `recover` and `replay`
before the leaves. `confirm` lies between `createLease` and the registration in
`activeOwners`, `release` within `release()`, which takes the lease off that list
before it looks for the file. `Interrupt` is Ctrl-C: the handler unlinks the lease
of a command in between (`Registered`), which ends `interrupted`; a command in
`confirm` or `release` ends `cutOff` with its lease on the disk, like one that was
killed (`crashed`). An unlink of `release()` that the Ctrl-C does not stop any more
is `Release` itself.
`TailMatches` and `Fresh` compare what the code compares (offset, seq, hash of
the last line), not the whole history. `AppendTorn` stops a write at one of
`CutPoints`; `AppendUnsynced` is a complete write whose fsync failed, reported
as not committed. `Reject` stands for every refusal of admission and gates.

### ScopeClosure

`cursor` is sub-state and iteration; `before` stands for the sub-states up to
EXECUTE.plan, `after` for VERIFY. `facts` are the closure facts, `version` tells
two journal tails apart. `pending` and `lock` are the runtime file and its
lock. A hook reads its cursor (`StartHook`), waits, publishes; a closure waits,
reloads under the lock, commits or recovers, settles. `Commit`,
`CommitUnreported` and `CommitFails` are the outcomes of `mutateBatch`:
committed (with or without its projections), committed behind a failed fsync,
not committed. `Settled` is the decision of `settlePendingScope`.
`Forward`, `BackEdge`, `OtherEntry` are the other commands, `Rebuild` the
doctor; each may leave the projections stale, which keeps hooks from starting.
`LegacyClosures` puts a session in EXECUTE.done without a marker, the case
that `executeClosureTransaction` answers with `not-committed`; the caller then
runs an ordinary mutation that the transition table refuses, so nothing more
happens in the model.

### Workflow

The state is the snapshot that the journal replays to (`core/snapshot.ts`,
as the reducer fills it): `cursor`, `ceremony`, `locked` (`spec_locked`),
`accepted` (`verify_accepted`), `iteration`, `lessons` are the session; `spec`,
`tasks`, `basedOn` (`tasks_based_on.spec`) the plan; `evidence`, `findings`,
`pending` the ledger. `issued` is not in the snapshot: it is what
`collectOccupiedTaskIds` finds in the journal.

An action is a command with its whole batch: `loaf finding raise --action
fix-impl` writes a finding, a step reset and a back edge, so `RaiseFix` admits
each of the three on what the ones before it leave, and writes them all.
Authority by sub-state is `Allowed` (the table of `kind-registry.ts`); the
further conjuncts are the preflight checks of that entry kind; the primed
variables are the reducer's case. Where a command judges something itself
before it writes (a gate, `KeepsShown` of an amendment, the ids it allocates),
that is a conjunct too.

`Cursor` holds the transition table with its guards (`LegalTransitions`,
`Passes`), the back edges (`ValidBackEdge`), and `chooseNextAction` with its
helpers (`NextAction`). `TaskGraph` holds a task as its kind, steps with
applicability and status, dependencies, drives and red proof; `CheckTaskGraph`
is the whole graph check, `PlanFrozen`, `ProgressFrozen` and `FreshTask` the
three amendment policies, `Finished` and `Reopened` the reducer's step cases
with promotion. `Acyclic` says that some order exists, where the code searches
depth first. `Interventions` holds the grid of categories and actions and the
queue (`AfterHead`, `Blocks`, `GateFree`). `Gates` holds the checks of both
gates, each by the name it has in the code.

A `Scenario` is what agents and users may bring: specs, plans, additions,
amendments, evidence, findings, waivers, decisions, and how many of each. All
the bounds of the model are in it. Which command comes next is always free.
`ScenariosAssumption` says only that what is brought parses.

`Lifecycle` is what the other models assume of a session: phases, lock,
acceptance and iteration. It justifies `before`, `after`, `Forward` and
`BackEdge` of `ScopeClosure`.

## 3 The runs

| run | instance | what it shows | states |
|---|---|---|---|
| `lease_no_crash` | 3 commands, 3 attempts, no kill | at most one holder, a holder finds its own token, the protocol implements `ExclusiveLease` | 10 k |
| `lease_recovery` | 2 commands, 2 kills, slow creators, empty and partial files left behind | every acquisition ends; a dead owner's file is reclaimed; a live holder's file is only lost to an unlink that was decided on another generation | 30 k |
| `lease_stolen` | 3 commands, 1 kill | violation: such an unlink happens | |
| `store_writers` | 3 commands of every kind, batches of 1 or 2, writes that stop anywhere, 1 kill | seq numbers, committed batches, doctor, appends behind the judged base | 1.6 M |
| `store_readers` | 2 writers and a reader, torn lines, 1 kill | fresh meta describes the leaves, a reader serves one prefix, the repaired journal implements `AtomicLog`, the lease comes back but from a kill or a Ctrl-C while it is taken or given back | 470 k |
| `store_future_leaves`, `store_torn_batches`, `store_spec_rebuild` | 2 or 3 commands | violations, see 5 | |
| `scope_closure` | 3 hooks or closures, 2 paths, 3 iterations, 4 batches, 1 kill, with and without a legacy closure | closed once with its scope, success settles, paths are lost only to an overtaken hook, no pending set ahead of the session | 500 k |
| `scope_overtaken` | 2 hooks | violation: that loss happens | |
| `workflow` | six scenarios, below | ten invariants and seven action properties of a session, and that it implements `Lifecycle` | 280 k |
| `workflow_stale_accept` | the scenario `DeepBug` | violation: an iteration is settled on the acceptance of an earlier one, with an open finding | |

Bounds. Three processes are what the known races take: one that dies or is
late, one that recovers, one that is harmed. Attempts of 3 let a process lose a
race, recover and still try again. Batches of 2 are the smallest with an
inside; a torn pair followed by another one takes three commands. Two leaves
are enough to stop between them. Three iterations let a pending set be older
than two closures; four batches allow two closures with a back edge between
them and one unrelated entry. In `store_readers` writes stop within a line
only: a write that stops between two lines leads to the violations of section
5, so `FreshMetaDescribesLeaves` and `AtomicLog` are what holds without that
case; `store_writers` has all three cut points. The theorems of section 4
remove the bounds where they apply.

The scenarios of `workflow` are one run since the properties are the same; each
is there for what the others cannot reach.

| scenario | what it brings | what it reaches |
|---|---|---|
| `DeepBug` | a bug with a red test under the full ceremony, one finding that goes back to the spec or to the code, or is deferred | every phase, both gates, re-lock and re-plan (two spec versions, two task ids) |
| `LightPair` | two dependent tasks, no VERIFY, two fix findings | delivery from EXECUTE.done; a task reopened over a dependency that is reopened or abandoned |
| `Grown` | a plan, an addition that depends on it, amendments that would close a cycle or change a kind | the graph checks after every kind of change; waivers |
| `Escalated` | escalations, three kinds of decision, two at a time, coverage by waiver | the queue against gates, moves and ends; a spec extended item by item |
| `Spiked` | a spike with a policy amendment | conversion, and the refusal to deliver a live spike |
| `Amended` | a task that becomes another kind and back, a fix of its red test | progress over amendments, a reset step whose red test stays registered |

Two tasks are the smallest graph with an edge and a cycle; two findings let one
reset meet another; two spec versions are one amendment. In 17 mutants, one
for each property, the bug shows within these bounds.

Fairness. A process that is alive is scheduled: weak fairness of the steps of
acquiring and releasing (`FeatureLease`) and of a command's own steps
(`FeatureStore`). Nothing obliges a command to start, to fail, to be
interrupted or to die, nor a command to finish its body in `FeatureLease`. Time
passes (`Age`), which is all the stale limit needs. Waits are bounded by the
code's own attempt counter, so liveness does not rest on an unbounded retry.
`ScopeClosure` has no liveness property: a person decides whether a closure is
retried. `Workflow` has none for the same reason: the next command is the
agent's or the user's choice, so nothing is fair. What it has instead says that
the session can always go on: `WorkNeverStuck` (unfinished work is in hand, or
`loaf tasks next` names some) and `AdviceIsLegal` (a session that is not over
has one advised command, and it is admitted).

Deadlock is off in every run: a CLI process ends, and when all have ended the
model stops as the system does.

## 4 The proofs

`FeatureLeaseProofs`
- `TypeCorrect`: `Spec => []TypeOK`.
- `LeaseExcludes`, `LeaseIsOwned`, `LeaseRefines`, under `NoRecovery` (no kill,
  no creator that sleeps past the stale limit, nothing left behind): mutual
  exclusion, the holder's token in the file, and that the protocol implements
  `ExclusiveLease`, for any number of commands and attempts. Mutual exclusion
  alone is not inductive: the invariant adds that whoever is past its `open`
  owns the file in place (`OwnersOwn`), that a file has a live owner
  (`FileIsOwned`), that the text is there from the write on (`FilledInTime`),
  and that nobody gets into recovery (`NobodyRecovers`). Without `NoRecovery`
  the statements are false, as `lease_stolen` shows, so the assumption is not
  for the proof's comfort.
- `LiveLeaseLostOnlyToStaleUnlink`, with every kill, slow creator, recovery and
  left-behind file: a live holder loses its file only in the step of another
  process's unlink by name. Its invariant `RInv` says what a process that is about
  to unlink has seen: a token that is still in some file is that of a spent or
  living attempt (`Spent`, `OldAttempt`), what was observed is gone for good or
  still the same generation (`SeenIsOld`, `SeenIsGone`), only the file of a dead
  process is recovered (`RecoversTheDead`), and a release looks for its own token
  (`ReleasesItsOwn`). So what `unlinkIfUnchanged` compares never condemns a live
  lease: the file it removes can only be a later generation than the one compared.
- `OnlyStaleUnlinksBreakTheLease`, `NoStaleUnlinkRefines`: the converse. A stale
  unlink removes a file that is neither the process's own nor the generation it
  looked at last. In every behaviour without one, whatever dies or sleeps, the
  lease excludes, is owned, and implements `ExclusiveLease`. The two together say
  that the gap between check and unlink, with the two unlinks that check nothing,
  is the whole of what `lease_stolen` shows.
- `WaitIsBounded`: an acquisition makes at most `MaxAttempts` attempts and each
  of its steps spends some of a budget that nothing gives back (`Budget`, ten steps
  for an attempt). It is the safety half of `AcquisitionSettles`.

`FeatureStoreProofs`
- `TypeCorrect`, with the strengthening that a writer's leaf and a reader's
  position stay in range; it rests on lemmas on what the repair of the tail and
  the making of a batch return.
- `SeqNumbersContiguous`: for any commands, cut points, kills and repairs. The
  inductive invariant is `SeqInv`, type correctness and the property itself. A
  batch is numbered on from the writer's view; `TailMatches` at the append gives
  that view the journal's length (`NumberedOn`), a torn write adds a prefix of
  the batch, and a repair keeps a prefix of the journal (`RecoveredTyped`).

`FeatureStoreCommitProofs` (any number of commands, readers, leaves and kills)
- `Steps` says what a step can do: it concerns one process (`Own`), takes, keeps
  or leaves the lease (`Leases`), and leaves the journal, lets it grow from an
  append, or repairs it (`Writes`). `BaseInv` is inductive over that: whoever is
  inside owns the lease (`LeaseHeld`), nobody has a line of a batch that has not
  been appended (`AppendsOnce`), and a view that shares a line with the journal
  shares everything before it (`ViewsAgree`).
- `AppendBase` is about a check that looks at one line only: `TailMatches` compares
  length and last line, and `ViewsAgree` makes that the whole history
  (`MatchingIsJournal`); the lease keeps others from appending in the same step.
- `CommittedBatchesStay`: a repair drops the last batch only when lines of it
  are missing, and the partial line only when its append reported otherwise
  (`TornUncommitted`), so it keeps every batch that stands (`RepairKeeps`).
- `DoctorLeavesFresh`: while doctor publishes, what it replayed is the journal
  (`DoctorInv`).
- `FreshMetaIsComplete`, `ReadersConsistent`, under `OnlyUnreadIsTruncated`: a
  write that stops short does so within a line, or nobody runs `--check-tail`. In
  either case a repair takes away only what no load has returned. They are about
  `Stable`, the part of the journal that every load returns: it is only ever
  extended (`StableMoves`), so a meta or a cached meta that passes the fast check
  is all of it (`FreshIsStable`), and the next growth makes it fail for good.
- `StoreImplementsAtomicLog`, under `OnlyFragments` (the first of the two): the
  journal that a repair would leave grows by whole batches.
- Without these conditions the statements are false, as `store_future_leaves` and
  `store_torn_batches` show: in the states of the former, between the repair and
  the first leaf that doctor rewrites, a reader passes both of its checks and is
  served leaves of two prefixes. It takes both: the write that stops between two
  lines, and the repair.
- `LeaseNeverForgotten`: a command that is over and still holds the lease was
  killed, or stopped by Ctrl-C while it took the lease or gave it back.
  `CommandsAreBounded`: each step of a command spends some of the calls it has left
  (`Work`). Together they are `LeaseReturned` but for fairness.

`ScopeClosureProofs` (any number of hooks, closures, paths, iterations, kills)
- `TypeCorrect`, with `SeenBehind` (nobody has read more of a session than
  there is), which is what keeps a pending set from being ahead: the
  `pending_iteration_ahead` refusals of the code are unreachable.
- `ClosedOnce`: an iteration is past EXECUTE.work exactly when the journal has
  one fact of it. The invariant: the lock excludes (`LockHeld`), a closure that
  is about to append has read EXECUTE.work and, if the tail is still its own,
  the current cursor (`CommitOfWork`), and no fact is ahead (`FactsBehind`).
- `LostOnlyOvertaken`: the action property of the same run. `CarriesPending`
  says that a closure about to append carries everything pending that is not
  recorded, and that a committed one has left nothing unrecorded; both rest on
  the lock.
- `SuccessSettles`: a closure that reports success has settled.
- `ScopeInvariant` puts these invariants together. From it: the batch that closes
  an iteration records every path that is pending when it lands, though it was
  composed at an earlier reload (`ClosureRecordsPending`); the record of an
  iteration is final (`RecordedScopeIsFinal`); and the documented monotone union, which
  `scope_overtaken` refutes, holds of a session that takes no back edge
  (`NothingLostWithoutBackEdge`).

`WorkflowProofs`, `WorkflowTaskProofs`, `WorkflowEndProofs` (every property of
the run `workflow`, for every set of scenarios: any specs, graphs of any size,
any number of amendments, findings, decisions and escalations, from
`ScenariosAssumption` alone)
- `SessionStep` and `PlanStep` sort the 32 commands by what they do to cursor,
  lock, spec and plan. `SpecInv` is inductive over them: a spec is locked only
  past SPEC, work runs on a locked spec or without any (`WorkOnLockedSpec`), and
  a locked spec has a current plan (`PlanOfLockedSpec`). That a session without a
  SPEC phase has no spec needs `cursor \in TRIAGE => spec.version = 0`.
- `TaskSteps` does the same for the graph: a step leaves it, replaces it by one
  that was checked (`Regraphs`), or takes one task one step on (`Works`).
  `TaskInv` (tasks are well formed under ids that were given out) and `LedgerInv`
  (findings and decisions are well typed) complete `SessionInv`, from which
  types, ids, reopening, kept progress and the frozen graph follow.
- `GraphInv` is `GraphStaysAcyclic` with `AbandonedDepsOnlyUnderReopened`. That
  no unfinished task depends on an abandoned one is false (a fix finding reopens
  a done task whose dependency was abandoned meanwhile); with the exception for
  reopened tasks it is inductive, and then an acyclic graph has a first
  unfinished task, which is ready or in hand (`SomethingToDo`).
- `BackEdgesCounted` counts the findings that went back by the cardinality of a
  finite set that only grows at the end of the sequence.
- `DeliveriesMeetCeremony` follows from the step that delivers and from the fact
  that a session that is over keeps ceremony, lessons and tasks.
- `AcceptedWorkStands`: in VERIFY.accept and SETTLE no command touches spec or
  tasks; evidence only grows and every check of `WorkProved` is monotone in it;
  no finding that keeps work open can be raised without going back.
- `AdviceHolds`: the only advice that depends on the past is the delivery from
  SETTLE, which needs `SettledAccepted`.
- `DecisionsHold`, `WorkIsFinal` and the refinement of `Lifecycle`
  (`SessionImplementsLifecycle`) follow step by step.
- `SettledIsProved` bounds what `workflow_stale_accept` found: if no command
  returns to SPEC or EXECUTE once the session is accepted (`KeepsAcceptance`),
  whatever is settled, or delivered under a ceremony that verifies, has its
  lanes, coverage and tasks proved and no finding open. An accepted session is then
  in VERIFY.accept or behind it (`AcceptedProved`), where `AcceptedWorkStands`
  keeps the proof. Returns before the acceptance do no harm.
- `RecordIsKept`: findings keep their place, action and target, a closed one stays
  closed, evidence is never withdrawn, and acceptance, iteration, spec version,
  task ids and lessons never go back. `OverIsOver`: nothing but the queue of
  decisions changes in a session that is over.

`TaskGraphProofs` has the lemmas on what a claim, a step, a reset, an
abandonment, a new body and an amendment make of a well-formed task.

Only model-checked: liveness (`AcquisitionSettles`, `DeadLeaseReclaimed`,
`LeaseReturned`), since fairness and ENABLED are beyond the prover. What a proof
can say of them is said: the wait and every command are bounded
(`WaitIsBounded`, `CommandsAreBounded`), and no exit keeps the lease but a kill, or
Ctrl-C while it is being taken or given back (`LeaseNeverForgotten`). What remains is that a live process is scheduled, and
that a dead one's pid is found dead.

## 5 What the checks found

- `lease_stolen`: `unlinkIfUnchanged` compares and then unlinks by name, so two
  recoverers of one dead lease can remove the file of the one that succeeded.
- `store_future_leaves`: a batch torn between two lines replays; a rebuild that
  dies after a leaf, then `--check-tail`, puts an old `_meta.json` that is
  fresh beside a newer leaf until the repair has rewritten it.
- `store_torn_batches`: `--check-tail` looks at the last batch only, so after
  two torn batches it reports success over the first.
- `store_spec_rebuild`: `doctor --rebuild` does not write spec.md (nor the
  registry file), which the comments name as the recovery path.
- `scope_overtaken`: a hook of an earlier iteration that gets the lock after a
  hook of a later one replaces its pending paths; the protocol document
  promises a monotone union, a unit test keeps the reset.
- `workflow_stale_accept`: `verify_accepted` is never taken back. After an
  approval and a fix finding the next iteration arrives at VERIFY.accept as
  accepted; it is settled (which `loaf next` advises) without a second decision
  and with the finding still open. The trace has 26 states.

What the modelling of the store showed besides, and no run is about: a first
Ctrl-C does not always release the lease, as `concurrency-contract.ts:153` says it
does. `activeOwners` learns of the lease after `createLease` and its read back
(`feature-write-lease.ts:203`) and forgets it at the start of `release()` (`:212`),
before the file is unlinked; in both windows the handler finds nothing to release.
`Interrupt` has both, `LeaseReturned` makes the exception, and the next command
recovers the file as a dead owner's.

What the modelling of the workflow showed besides, and what no run is about:

- Within one iteration an acceptance is safe: nothing between it and the
  delivery undoes what the gate saw (`AcceptanceStands`). That property leaves
  out the review of the spec (check 5): its verdict depends on who implemented,
  and late evidence may change that. `DeliveredMeetsCeremony` speaks of the
  flag, whatever iteration set it.
- The commands that end a session do not look at the live decisions, and a
  decision may be raised after the end. `StateProjection` refuses such a state
  (projection-schema.ts:246, protocol.md:186 and :385), but only when the end is
  committed: the command reports failed projections, and so does
  `doctor --rebuild` until the decision is resolved. The model has both
  sequences.
- A fix finding reopens a task whatever its dependencies are by then; a task that
  is done may be amended and stays done; a task without a required step is never
  promoted; a reset of a red test keeps its registration.
- When a done task, an abandoned dependency and a reopening meet, the graph check
  refuses every later amendment of the graph (TASK_DEP_ABANDONED); work goes on.
- A profile escalation that is raised after EXECUTE is advised in vain, since
  the ceremony can no longer be set: `pending resolve` is the way out.
  `AdviceIsLegal` names that exception. In TRIAGE an escalation answers whatever
  decision is at the head.
- `loaf next` fails in VERIFY without a spec, while the hint after a command
  takes all four lanes. Both are in the model.
- protocol.md:187 and :382 want no task in progress at an end; archive, abandon
  and the conversion of a spike do not look.

## 6 What is not modelled

- FeatureStore: a SIGINT while an asynchronous write is in flight (the write
  may land after the lease is gone); a stolen lease (what it could do follows
  from `lease_stolen`); failures to derive the registry file; a dry run on a
  directory that does not exist; the rule for a missing tasks.json; runs of
  invalid whole lines and lines of a newer writer, which are one failing
  outcome of `--check-tail`; loss of unsynced data by the machine.
- FeatureLease: pid reuse; clocks that go backwards; the injected test seams.
- ScopeClosure: the lock's file protocol; identity and schema checks of the
  runtime file (they refuse); normalisation of paths; the dry run of the
  closure; sidecars of long path lists. A closure that waited may close a later
  iteration than the one in which it was called: the model has that behaviour,
  the documents neither promise nor forbid it.
- Workflow: texts, ids of evidence and requirements, timestamps; files of
  attachments (an evidence has one or not) and of tasks; `session:resumed`,
  `handoff` and `scope:recorded`, which no other check reads; `--dry-run`;
  commands that are killed or lose the race for the lease (a batch is one step, as
  `FeatureStore` shows).
- attachments and sidecars: their promotion before the append and the orphans a
  failed append leaves.
- dispatch, prune, restore, write guard: choices over files that the models above
  do not share.
- handoff (a lease holder that writes resume-pack.json under a fixed temporary
  name), presentation, configuration, i18n, argument parsing: no state that
  others rely on.

## 7 The plan

Done: 1 the lease, 2 the feature store, 3 pending scope and closure, 4 the
workflow with its abstract life, 5 the tasks with their graph (both in
`Workflow`, because most properties relate the two), and the proofs of all of
them: every property of the passing runs but the three liveness ones is a
theorem.
Next, in this order:

6. `RuntimeLock`: the file protocol of `session-runtime.ts` (create, confirm,
   fence, unlink, malformed files), with the lock of `ScopeClosure` as its
   abstract specification where that holds.
7. `TailRecovery`: `--check-tail` as a pure function over short files with
   invalid, newer and torn lines, against "keep the longest committed prefix".
8. Attachments and sidecars; dispatch, prune and restore.

The violations of section 5 stay in the suite until the code changes.

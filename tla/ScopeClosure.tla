---------------------------- MODULE ScopeClosure ----------------------------
(***************************************************************************)
(* How the paths an agent writes become the actual scope of a feature. A   *)
(* `loaf hook scope-track` after each write adds its path to the pending   *)
(* scope in ~/.loaf/runtime/<session>.json; `loaf advance EXECUTE.done`    *)
(* records the pending paths in the journal, in one batch with the         *)
(* transition, and clears them. Both hold the runtime lock meanwhile. The  *)
(* other commands move the session's cursor and take no runtime lock.      *)
(*                                                                         *)
(* mutateBatch is one step here: FeatureStore models its inside, and that  *)
(* a batch only lands behind the journal it was judged on.                 *)
(***************************************************************************)
EXTENDS Naturals

CONSTANTS
  Procs,          \* runs of the hook and of the closure
  NoProc,         \* nobody
  Paths,          \* repository paths that the agent writes
  LegacyClosures, \* iterations that an older binary closed, without a marker
  MaxIteration,   \* bound: iterations of the session
  MaxEntries,     \* bound: batches appended to the journal
  MaxCrashes      \* bound: processes that die without cleaning up

ASSUME ProcsAssumption == NoProc \notin Procs
ASSUME LegacyAssumption == LegacyClosures \subseteq {1}
ASSUME IterationAssumption == MaxIteration \in Nat \ {0}
ASSUME EntriesAssumption == MaxEntries \in Nat
ASSUME CrashesAssumption == MaxCrashes \in Nat

VARIABLES
  cursor,   \* sub_state and iteration of the journal's snapshot
  facts,    \* the closure facts of the journal, each at its batch's version
  version,  \* batches appended so far: what the journal's tail tells apart
  fresh,    \* does `_meta.json` describe the journal?
  pending,  \* pending_scope of the runtime file
  lock,     \* the owner of the runtime lock
  pc,       \* where each process is
  seen,     \* the cursor and the version that a process has read
  paths,    \* the path a hook tracks, the paths a closure records
  phase,    \* what a closure has proved: a commit, a recovery or nothing
  result,   \* what a closure tells its caller
  crashes   \* processes that died so far

journalVars == <<cursor, facts, version, fresh>>
vars == <<journalVars, pending, lock, pc, seen, paths, phase, result, crashes>>

-----------------------------------------------------------------------------
\* "before" stands for everything up to EXECUTE.plan, "after" for VERIFY.*.
SubStates == {"before", "EXECUTE.work", "EXECUTE.done", "after"}

Cursors == [sub : SubStates, iteration : 1..MaxIteration]

Facts == [iteration : 1..MaxIteration, paths : SUBSET Paths, version : 1..MaxEntries]

NoPending == [iteration |-> 0, paths |-> {}]

Phases == {"none", "committed", "committed-failure", "recovered"}

Results == {"none", "committed", "recovered", "failure", "not-committed"}

Locked == {"publish", "reload", "commit", "settle", "release"}

PcStates == Locked \cup {"idle", "lockHook", "lockClosure", "exited"}

FactsOf(iteration) == {f \in facts : f.iteration = iteration}

Recorded == UNION {f.paths : f \in facts}

\* uncoveredPendingPaths: what the pending set's own iteration did not record.
Uncovered == pending.paths \ UNION {f.paths : f \in FactsOf(pending.iteration)}

\* pendingIsCovered: even an empty set requires the fact of its own iteration.
Covered == FactsOf(pending.iteration) # {} /\ Uncovered = {}

\* preparePendingScopeClosure: the paths that a closure of this cursor records.
ClosurePaths == IF pending.iteration = cursor.iteration THEN pending.paths ELSE Uncovered

\* The pending paths that a hook of this iteration keeps beside its own.
Carried(iteration) ==
  IF pending.iteration = iteration
  THEN pending.paths
  ELSE IF pending.iteration < iteration THEN Uncovered ELSE {}

Goto(p, label) == pc' = [pc EXCEPT ![p] = label]

-----------------------------------------------------------------------------
\* What a process holds in `seen` before it reads the session.
Unread == [cursor |-> [sub |-> "before", iteration |-> 1], version |-> 0]

\* Work of the first iteration, or one that was closed without a marker.
Init ==
  /\ \/ cursor = [sub |-> "EXECUTE.work", iteration |-> 1]
     \/ \E i \in LegacyClosures : cursor = [sub |-> "EXECUTE.done", iteration |-> i]
  /\ facts = {}
  /\ version = 0
  /\ fresh = TRUE
  /\ pending = NoPending
  /\ lock = NoProc
  /\ pc = [p \in Procs |-> "idle"]
  /\ seen = [p \in Procs |-> Unread]
  /\ paths = [p \in Procs |-> {}]
  /\ phase = [p \in Procs |-> "none"]
  /\ result = [p \in Procs |-> "none"]
  /\ crashes = 0

Read(p) == seen' = [seen EXCEPT ![p] = [cursor |-> cursor, version |-> version]]

\* The process ends and its variables with it.
Exit(p) ==
  /\ Goto(p, "exited")
  /\ seen' = [seen EXCEPT ![p] = Unread]
  /\ paths' = [paths EXCEPT ![p] = {}]
  /\ phase' = [phase EXCEPT ![p] = "none"]
  /\ result' = [result EXCEPT ![p] = "none"]

\* The hook reads its cursor from the projections, before it asks for the lock.
StartHook(p) ==
  /\ pc[p] = "idle"
  /\ fresh
  /\ Read(p)
  /\ \E x \in Paths : paths' = [paths EXCEPT ![p] = {x}]
  /\ Goto(p, "lockHook")
  /\ UNCHANGED <<journalVars, pending, lock, phase, result, crashes>>

\* `loaf advance EXECUTE.done`, from EXECUTE.work or again from EXECUTE.done.
StartClosure(p) ==
  /\ pc[p] = "idle"
  /\ cursor.sub \in {"EXECUTE.work", "EXECUTE.done"}
  /\ Goto(p, "lockClosure")
  /\ UNCHANGED <<journalVars, pending, lock, seen, paths, phase, result, crashes>>

\* Mutant: the lock is taken from a live owner.
LockFree_Ignored == TRUE

\* The lock is free, or its owner's process is gone. That a dead owner's lock is
\* taken over in one step is an assumption: acquireRuntimeLock looks at the owner
\* and unlinks by name in two calls.
LockFree == lock \in {NoProc} \cup {q \in Procs : pc[q] = "exited"}

Acquire(p) ==
  /\ LockFree
  /\ lock' = p
  /\ \/ pc[p] = "lockHook" /\ Goto(p, "publish")
     \/ pc[p] = "lockClosure" /\ Goto(p, "reload")
  /\ UNCHANGED <<journalVars, pending, seen, paths, phase, result, crashes>>

LockTimeout(p) ==
  /\ pc[p] \in {"lockHook", "lockClosure"}
  /\ ~LockFree
  /\ Exit(p)
  /\ UNCHANGED <<journalVars, pending, lock, crashes>>

-----------------------------------------------------------------------------
\* The hook's read-modify-write. Outside EXECUTE.work it only beats the heart.
Publish(p) ==
  /\ pc[p] = "publish"
  /\ LET at == seen[p].cursor IN
       pending' = IF at.sub = "EXECUTE.work"
                  THEN [iteration |-> at.iteration, paths |-> Carried(at.iteration) \cup paths[p]]
                  ELSE pending
  /\ Goto(p, "release")
  /\ UNCHANGED <<journalVars, lock, seen, paths, phase, result, crashes>>

\* The path is no repository path, or the journal or the file cannot be read.
PublishFails(p) ==
  /\ pc[p] = "publish"
  /\ Goto(p, "release")
  /\ UNCHANGED <<journalVars, pending, lock, seen, paths, phase, result, crashes>>

\* The closure replays the journal under the lock and decides what is left. A
\* pending set ahead of the journal would be refused; TypeOK says there is none.
Reload(p) ==
  /\ pc[p] = "reload"
  /\ Read(p)
  /\ \/ /\ cursor.sub = "EXECUTE.work"
        /\ pending.iteration <= cursor.iteration
        /\ paths' = [paths EXCEPT ![p] = ClosurePaths]
        /\ Goto(p, "commit")
        /\ UNCHANGED <<phase, result>>
     \/ /\ cursor.sub = "EXECUTE.done"
        /\ FactsOf(cursor.iteration) # {}
        /\ pending.iteration <= cursor.iteration
        /\ phase' = [phase EXCEPT ![p] = "recovered"]
        /\ Goto(p, "settle")
        /\ UNCHANGED <<paths, result>>
     \/ /\ cursor.sub = "EXECUTE.done"
        /\ FactsOf(cursor.iteration) = {}
        /\ result' = [result EXCEPT ![p] = "not-committed"]
        /\ Goto(p, "release")
        /\ UNCHANGED <<paths, phase>>
     \/ /\ cursor.sub \notin {"EXECUTE.work", "EXECUTE.done"}
        /\ result' = [result EXCEPT ![p] = "failure"]
        /\ Goto(p, "release")
        /\ UNCHANGED <<paths, phase>>
  /\ UNCHANGED <<journalVars, pending, lock, crashes>>

\* The batch <<scope:recorded, event:phase_advanced>> in the journal.
Append(p) ==
  /\ version < MaxEntries
  /\ version' = version + 1
  /\ facts' = facts \cup {[iteration |-> seen[p].cursor.iteration, paths |-> paths[p],
                           version |-> version + 1]}
  /\ cursor' = [sub |-> "EXECUTE.done", iteration |-> cursor.iteration]

\* Mutant: the batch is not held against the journal's tail.
Admitted_AnyTail(p) == FactsOf(seen[p].cursor.iteration) = {}

\* The tail is the one that was replayed, and the iteration has no fact yet.
Admitted(p) == version = seen[p].version /\ FactsOf(seen[p].cursor.iteration) = {}

\* mutateBatch commits. The projections or the registry may still fail.
Commit(p) ==
  /\ pc[p] = "commit"
  /\ Admitted(p)
  /\ Append(p)
  /\ \E projected, ok \in BOOLEAN :
       /\ ok => projected
       /\ fresh' = projected
       /\ phase' = [phase EXCEPT ![p] = IF ok THEN "committed" ELSE "committed-failure"]
  /\ Goto(p, "settle")
  /\ UNCHANGED <<pending, lock, seen, paths, result, crashes>>

\* The batch is in the journal, but its fsync failed and the caller hears so.
CommitUnreported(p) ==
  /\ pc[p] = "commit"
  /\ Admitted(p)
  /\ Append(p)
  /\ fresh' = FALSE
  /\ result' = [result EXCEPT ![p] = "failure"]
  /\ Goto(p, "release")
  /\ UNCHANGED <<pending, lock, seen, paths, phase, crashes>>

\* A stale tail, a lease that is not to be had, tasks that are not finished.
CommitFails(p) ==
  /\ pc[p] = "commit"
  /\ result' = [result EXCEPT ![p] = "failure"]
  /\ Goto(p, "release")
  /\ UNCHANGED <<journalVars, pending, lock, seen, paths, phase, crashes>>

\* Mutant: only the closure that appended the batch clears what it recorded.
Settled_CommitOnly(p) == phase[p] = "committed" \/ pending = NoPending

\* May pending_scope become null?
Settled(p) == phase[p] = "committed" \/ pending = NoPending \/ Covered

\* settlePendingScope and the write of the runtime file.
Settle(p) ==
  /\ pc[p] = "settle"
  /\ pending' = IF Settled(p) THEN NoPending ELSE pending
  /\ result' = [result EXCEPT ![p] = IF phase[p] = "committed-failure" THEN "failure" ELSE phase[p]]
  /\ Goto(p, "release")
  /\ UNCHANGED <<journalVars, lock, seen, paths, phase, crashes>>

\* The runtime file cannot be written.
SettleFails(p) ==
  /\ pc[p] = "settle"
  /\ result' = [result EXCEPT ![p] = "failure"]
  /\ Goto(p, "release")
  /\ UNCHANGED <<journalVars, pending, lock, seen, paths, phase, crashes>>

\* The finally of withRuntimeLock. A failed unlink leaves the file behind.
Release(p) ==
  /\ pc[p] = "release"
  /\ lock' \in {NoProc, lock}
  /\ Exit(p)
  /\ UNCHANGED <<journalVars, pending, crashes>>

Crash(p) ==
  /\ pc[p] \notin {"idle", "exited"}
  /\ crashes < MaxCrashes
  /\ crashes' = crashes + 1
  /\ Exit(p)
  /\ UNCHANGED <<journalVars, pending, lock>>

-----------------------------------------------------------------------------
\* Another command's batch. It can commit and leave the projections behind.
OtherBatch ==
  /\ version < MaxEntries
  /\ version' = version + 1
  /\ fresh' \in BOOLEAN
  /\ UNCHANGED <<facts, pending, lock, pc, seen, paths, phase, result, crashes>>

\* Mutant: a forward edge starts the iterations over.
Forward_FirstIteration ==
  /\ OtherBatch
  /\ \/ cursor.sub = "before" /\ cursor' = [sub |-> "EXECUTE.work", iteration |-> 1]
     \/ cursor.sub = "EXECUTE.done" /\ cursor' = [sub |-> "after", iteration |-> cursor.iteration]

\* `loaf advance` along a forward edge keeps the iteration.
Forward ==
  /\ OtherBatch
  /\ \/ cursor.sub = "before" /\ cursor' = [sub |-> "EXECUTE.work", iteration |-> cursor.iteration]
     \/ cursor.sub = "EXECUTE.done" /\ cursor' = [sub |-> "after", iteration |-> cursor.iteration]

\* A finding's back edge: amend-spec to SPEC.spec, the others to EXECUTE.work.
BackEdge ==
  /\ OtherBatch
  /\ cursor.iteration < MaxIteration
  /\ \E target \in {"before", "EXECUTE.work"} :
       /\ cursor.sub = "before" => target = "before"
       /\ cursor' = [sub |-> target, iteration |-> cursor.iteration + 1]

\* Evidence, findings and tasks leave the cursor alone.
OtherEntry == OtherBatch /\ UNCHANGED cursor

\* `loaf doctor --rebuild`.
Rebuild ==
  /\ ~fresh
  /\ fresh' = TRUE
  /\ UNCHANGED <<cursor, facts, version, pending, lock, pc, seen, paths, phase, result, crashes>>

Next ==
  \/ \E p \in Procs :
       \/ StartHook(p) \/ StartClosure(p) \/ Acquire(p) \/ LockTimeout(p)
       \/ Publish(p) \/ PublishFails(p)
       \/ Reload(p) \/ Commit(p) \/ CommitUnreported(p) \/ CommitFails(p)
       \/ Settle(p) \/ SettleFails(p) \/ Release(p) \/ Crash(p)
  \/ Forward \/ BackEdge \/ OtherEntry \/ Rebuild

Spec == Init /\ [][Next]_vars

-----------------------------------------------------------------------------
\* Every variable has its type; the runtime file is empty or of an iteration
\* that the session has reached (session-runtime.ts, projection-schema.ts).
TypeOK ==
  /\ cursor \in Cursors
  /\ facts \subseteq Facts
  /\ version \in 0..MaxEntries
  /\ fresh \in BOOLEAN
  /\ pending \in {NoPending} \cup [iteration : 1..cursor.iteration, paths : SUBSET Paths]
  /\ lock \in Procs \cup {NoProc}
  /\ pc \in [Procs -> PcStates]
  /\ seen \in [Procs -> [cursor : Cursors, version : 0..MaxEntries]]
  /\ paths \in [Procs -> SUBSET Paths]
  /\ phase \in [Procs -> Phases]
  /\ result \in [Procs -> Results]
  /\ crashes \in 0..MaxCrashes

\* An iteration is past EXECUTE.work exactly when the journal holds one
\* closure fact of it, unless an older binary closed it without a marker:
\* no interleaving of closures, retries, crashes and back edges records an
\* iteration twice, closes one without its scope, or a scope of another one.
ClosedOnceWithItsScope ==
  LET now == cursor.iteration
      closed == cursor.sub = "EXECUTE.done" \/ cursor.sub = "after" IN
  /\ \A f, g \in facts : f.iteration = g.iteration => f = g
  /\ FactsOf(now) # {} => closed
  /\ closed => FactsOf(now) # {} \/ now \in LegacyClosures

\* A closure that tells its caller that the iteration is closed leaves no
\* pending set behind that the journal already records in full, however the
\* batch got there: its own append, a crashed run's, or a failed fsync's.
SuccessSettlesPending ==
  \A p \in Procs :
    pc[p] = "release" /\ result[p] \in {"committed", "recovered"} =>
      /\ ~Covered
      /\ result[p] = "committed" => pending = NoPending

\* What the machine knows of the agent's writes.
Known == pending.paths \cup Recorded

\* A hook publishes that read its cursor in an earlier iteration than the
\* pending set's.
OvertakenHook ==
  \E p \in Procs : /\ pc[p] = "publish" /\ pc'[p] = "release"
                  /\ seen[p].cursor.iteration < pending.iteration

\* A step after which a path is neither pending nor recorded is the publish of
\* an overtaken hook: crashes, retries, failed writes and the hooks that are
\* late within an iteration or over one closure lose nothing.
LostOnlyToOvertakenHook == [][Known \subseteq Known' \/ OvertakenHook]_vars

\* The protocol's monotone union: no step forgets a tracked path.
MonotoneUnion == [][Known \subseteq Known']_vars
=============================================================================

------------------------- MODULE ScopeClosureProofs -------------------------
(***************************************************************************)
(* Theorems about the pending scope and the closure, for any number of     *)
(* hooks and closures, any paths, and any number of iterations and crashes.*)
(***************************************************************************)
EXTENDS ScopeClosure, TLAPS

USE ProcsAssumption, LegacyAssumption, IterationAssumption, EntriesAssumption,
    CrashesAssumption

-----------------------------------------------------------------------------
(* Type correctness *)

\* Nobody has read more of the session than there is.
SeenBehind ==
  \A p \in Procs : /\ seen[p].cursor.iteration <= cursor.iteration
                   /\ seen[p].version <= version

TypeInv == TypeOK /\ SeenBehind

LEMMA InitTyped == Init => TypeInv
<1> SUFFICES ASSUME Init PROVE TypeInv
  OBVIOUS
<1>1. cursor \in Cursors
  <2>1. cursor.sub \in SubStates /\ cursor.iteration \in 1 .. MaxIteration
           /\ cursor = [sub |-> cursor.sub, iteration |-> cursor.iteration]
    BY DEF Init, SubStates
  <2> QED
    BY <2>1 DEF Cursors
<1>2. Unread \in [cursor : Cursors, version : 0 .. MaxEntries]
  BY DEF Unread, Cursors, SubStates
<1>3. TypeOK
  <2>1. pc \in [Procs -> PcStates] /\ phase \in [Procs -> Phases] /\ result \in [Procs -> Results]
    BY DEF Init, PcStates, Phases, Results
  <2>2. seen \in [Procs -> [cursor : Cursors, version : 0 .. MaxEntries]]
    BY <1>2 DEF Init
  <2> QED
    BY <1>1, <2>1, <2>2 DEF Init, TypeOK
<1>4. SeenBehind
  <2>1. \A p \in Procs : seen[p].cursor.iteration = 1 /\ seen[p].version = 0
    BY DEF Init, Unread
  <2>2. 1 <= cursor.iteration
    BY <1>1 DEF Cursors
  <2>3. 0 <= version
    BY DEF Init
  <2> QED
    BY <2>1, <2>2, <2>3 DEF SeenBehind
<1> QED
  BY <1>3, <1>4 DEF TypeInv

\* What the leaves below need of the types, once.
LEMMA TypeFacts ==
  ASSUME TypeInv
  PROVE  /\ cursor.sub \in SubStates
         /\ cursor.iteration \in 1 .. MaxIteration
         /\ cursor = [sub |-> cursor.sub, iteration |-> cursor.iteration]
         /\ pending.iteration \in 0 .. cursor.iteration
         /\ pending.paths \in SUBSET Paths
         /\ pending.iteration = 0 => pending = NoPending
         /\ \A f \in facts : f.iteration \in 1 .. MaxIteration /\ f.paths \in SUBSET Paths
         /\ FactsOf(0) = {}
         /\ Unread \in [cursor : Cursors, version : 0 .. MaxEntries]
         /\ Uncovered \in SUBSET pending.paths
<1>1. pending = NoPending \/ pending \in [iteration : 1 .. cursor.iteration, paths : SUBSET Paths]
  BY DEF TypeInv, TypeOK
<1>2. \A f \in facts : f.iteration \in 1 .. MaxIteration /\ f.paths \in SUBSET Paths
  BY DEF TypeInv, TypeOK, Facts
<1>3. Unread \in [cursor : Cursors, version : 0 .. MaxEntries]
  BY DEF Unread, Cursors, SubStates
<1>4. Uncovered \in SUBSET pending.paths
  BY DEF Uncovered
<1> QED
  BY <1>1, <1>2, <1>3, <1>4 DEF TypeInv, TypeOK, Cursors, NoPending, FactsOf

LEMMA ReadTyped ==
  ASSUME TypeInv, NEW p \in Procs, Read(p), UNCHANGED <<cursor, version>>
  PROVE  /\ seen' \in [Procs -> [cursor : Cursors, version : 0 .. MaxEntries]]
         /\ SeenBehind'
BY TypeFacts DEF TypeInv, TypeOK, SeenBehind, Read, Cursors

LEMMA ExitTyped ==
  ASSUME TypeInv, NEW p \in Procs, Exit(p), UNCHANGED <<cursor, facts, version, fresh, pending>>
  PROVE  /\ pc' \in [Procs -> PcStates]
         /\ seen' \in [Procs -> [cursor : Cursors, version : 0 .. MaxEntries]]
         /\ paths' \in [Procs -> SUBSET Paths]
         /\ phase' \in [Procs -> Phases]
         /\ result' \in [Procs -> Results]
         /\ SeenBehind'
<1>1. seen' \in [Procs -> [cursor : Cursors, version : 0 .. MaxEntries]]
  BY TypeFacts DEF TypeInv, TypeOK, Exit
<1>2. SeenBehind'
  BY TypeFacts DEF TypeInv, TypeOK, SeenBehind, Exit, Unread, Cursors
<1> QED
  BY <1>1, <1>2 DEF TypeInv, TypeOK, Exit, Goto, PcStates, Phases, Results

\* A batch of a closure or of another command.
LEMMA AppendTyped ==
  ASSUME TypeInv, NEW p \in Procs, Append(p)
  PROVE  /\ cursor' \in Cursors
         /\ cursor'.iteration = cursor.iteration
         /\ facts' \subseteq Facts
         /\ version' \in 0 .. MaxEntries
         /\ version' = version + 1
<1>1. seen[p].cursor.iteration \in 1 .. MaxIteration /\ paths[p] \in SUBSET Paths
  BY DEF TypeInv, TypeOK, Cursors
<1>2. version + 1 \in 1 .. MaxEntries
  BY DEF Append, TypeInv, TypeOK
<1>3. [iteration |-> seen[p].cursor.iteration, paths |-> paths[p], version |-> version + 1] \in Facts
  BY <1>1, <1>2 DEF Facts
<1>4. facts' \subseteq Facts
  BY <1>3 DEF Append, TypeInv, TypeOK
<1>5. cursor' \in Cursors /\ cursor'.iteration = cursor.iteration
  BY TypeFacts DEF Append, Cursors, SubStates
<1> QED
  BY <1>2, <1>4, <1>5 DEF Append

LEMMA BackEdgeCursor ==
  ASSUME TypeInv, BackEdge
  PROVE  /\ cursor' \in Cursors
         /\ cursor'.iteration = cursor.iteration + 1
         /\ cursor'.sub \in {"before", "EXECUTE.work"}
<1>1. PICK target \in {"before", "EXECUTE.work"} :
        cursor' = [sub |-> target, iteration |-> cursor.iteration + 1]
  BY DEF BackEdge
<1>2. cursor.iteration + 1 \in 1 .. MaxIteration
  BY TypeFacts DEF BackEdge
<1> QED
  BY <1>1, <1>2 DEF Cursors, SubStates

LEMMA ForwardCursor ==
  ASSUME TypeInv, Forward
  PROVE  /\ cursor' \in Cursors
         /\ cursor'.iteration = cursor.iteration
         /\ \/ cursor.sub = "before" /\ cursor'.sub = "EXECUTE.work"
            \/ cursor.sub = "EXECUTE.done" /\ cursor'.sub = "after"
BY TypeFacts DEF Forward, Cursors, SubStates

LEMMA OtherBatchTyped ==
  ASSUME TypeInv, OtherBatch, cursor' \in Cursors, cursor'.iteration >= cursor.iteration
  PROVE  TypeInv'
<1>1. version' \in 0 .. MaxEntries
  BY DEF OtherBatch, TypeInv, TypeOK
<1>2. pending' \in {NoPending} \cup [iteration : 1 .. cursor'.iteration, paths : SUBSET Paths]
  BY TypeFacts DEF OtherBatch, TypeInv, TypeOK, Cursors
<1>3. TypeOK'
  BY <1>1, <1>2 DEF OtherBatch, TypeInv, TypeOK
<1>4. SeenBehind'
  BY DEF OtherBatch, TypeInv, TypeOK, SeenBehind, Cursors
<1> QED
  BY <1>3, <1>4 DEF TypeInv

\* The steps that leave the journal, the pending set and what was read alone.
LEMMA LocalStepTyped ==
  ASSUME TypeInv,
         UNCHANGED <<cursor, facts, version, pending, seen>>,
         fresh' \in BOOLEAN, lock' \in Procs \cup {NoProc}, pc' \in [Procs -> PcStates],
         paths' \in [Procs -> SUBSET Paths], phase' \in [Procs -> Phases],
         result' \in [Procs -> Results], crashes' \in 0 .. MaxCrashes
  PROVE  TypeInv'
BY DEF TypeInv, TypeOK, SeenBehind

LEMMA NextTyped == TypeInv /\ [Next]_vars => TypeInv'
<1> SUFFICES ASSUME TypeInv, [Next]_vars PROVE TypeInv'
  OBVIOUS
<1> USE DEF TypeInv, TypeOK
<1>1. ASSUME NEW p \in Procs, StartHook(p) PROVE TypeInv'
  <2>1. seen' \in [Procs -> [cursor : Cursors, version : 0 .. MaxEntries]] /\ SeenBehind'
    BY <1>1, ReadTyped DEF StartHook, journalVars
  <2>2. pc' \in [Procs -> PcStates] /\ paths' \in [Procs -> SUBSET Paths]
    BY <1>1 DEF StartHook, Goto, PcStates
  <2> QED
    BY <1>1, <2>1, <2>2 DEF StartHook, journalVars
<1>2. ASSUME NEW p \in Procs, StartClosure(p) PROVE TypeInv'
  BY <1>2, LocalStepTyped DEF StartClosure, journalVars, Goto, PcStates
<1>3. ASSUME NEW p \in Procs, Acquire(p) PROVE TypeInv'
  BY <1>3, LocalStepTyped DEF Acquire, journalVars, Goto, PcStates, Locked
<1>4. ASSUME NEW p \in Procs, LockTimeout(p) PROVE TypeInv'
  BY <1>4, ExitTyped DEF LockTimeout, journalVars
<1>5. ASSUME NEW p \in Procs, Publish(p) PROVE TypeInv'
  <2> DEFINE i == seen[p].cursor.iteration
  <2>1. i \in 1 .. cursor.iteration /\ paths[p] \in SUBSET Paths
    BY DEF SeenBehind, Cursors
  <2>2. Carried(i) \in SUBSET Paths
    BY TypeFacts DEF Carried
  <2>3. pending' \in {NoPending} \cup [iteration : 1 .. cursor.iteration, paths : SUBSET Paths]
    BY <1>5, <2>1, <2>2 DEF Publish
  <2>4. pc' \in [Procs -> PcStates]
    BY <1>5 DEF Publish, Goto, PcStates, Locked
  <2> QED
    BY <1>5, <2>3, <2>4 DEF Publish, journalVars, SeenBehind
<1>6. ASSUME NEW p \in Procs, PublishFails(p) PROVE TypeInv'
  BY <1>6, LocalStepTyped DEF PublishFails, journalVars, Goto, PcStates, Locked
<1>7. ASSUME NEW p \in Procs, Reload(p) PROVE TypeInv'
  <2>1. seen' \in [Procs -> [cursor : Cursors, version : 0 .. MaxEntries]] /\ SeenBehind'
    BY <1>7, ReadTyped DEF Reload, journalVars
  <2>2. ClosurePaths \in SUBSET Paths
    BY TypeFacts DEF ClosurePaths
  <2>3. /\ pc' \in [Procs -> PcStates] /\ paths' \in [Procs -> SUBSET Paths]
        /\ phase' \in [Procs -> Phases] /\ result' \in [Procs -> Results]
    BY <1>7, <2>2 DEF Reload, Goto, PcStates, Locked, Phases, Results
  <2> QED
    BY <1>7, <2>1, <2>3 DEF Reload, journalVars
<1>8. ASSUME NEW p \in Procs, Commit(p) PROVE TypeInv'
  <2>1. pc' \in [Procs -> PcStates]
    BY <1>8 DEF Commit, Goto, PcStates, Locked
  <2>2. fresh' \in BOOLEAN /\ phase' \in [Procs -> Phases]
    BY <1>8 DEF Commit, Phases
  <2>3. Append(p) /\ UNCHANGED <<pending, lock, seen, paths, result, crashes>>
    BY <1>8 DEF Commit
  <2> QED
    BY <2>1, <2>2, <2>3, AppendTyped DEF SeenBehind
<1>9. ASSUME NEW p \in Procs, CommitUnreported(p) PROVE TypeInv'
  <2>1. pc' \in [Procs -> PcStates]
    BY <1>9 DEF CommitUnreported, Goto, PcStates, Locked
  <2>2. fresh' \in BOOLEAN /\ result' \in [Procs -> Results]
    BY <1>9 DEF CommitUnreported, Results
  <2>3. Append(p) /\ UNCHANGED <<pending, lock, seen, paths, phase, crashes>>
    BY <1>9 DEF CommitUnreported
  <2> QED
    BY <2>1, <2>2, <2>3, AppendTyped DEF SeenBehind
<1>10. ASSUME NEW p \in Procs, CommitFails(p) PROVE TypeInv'
  BY <1>10, LocalStepTyped DEF CommitFails, journalVars, Goto, PcStates, Locked, Results
<1>11. ASSUME NEW p \in Procs, Settle(p) PROVE TypeInv'
  <2>1. pc' \in [Procs -> PcStates]
    BY <1>11 DEF Settle, Goto, PcStates, Locked
  <2>2. result' \in [Procs -> Results]
    BY <1>11 DEF Settle, Results, Phases
  <2> QED
    BY <1>11, <2>1, <2>2 DEF Settle, journalVars, SeenBehind
<1>12. ASSUME NEW p \in Procs, SettleFails(p) PROVE TypeInv'
  BY <1>12, LocalStepTyped DEF SettleFails, journalVars, Goto, PcStates, Locked, Results
<1>13. ASSUME NEW p \in Procs, Release(p) PROVE TypeInv'
  BY <1>13, ExitTyped DEF Release, journalVars
<1>14. ASSUME NEW p \in Procs, Crash(p) PROVE TypeInv'
  BY <1>14, ExitTyped DEF Crash, journalVars
<1>15. CASE Forward
  <2>1. OtherBatch
    BY <1>15 DEF Forward
  <2> QED
    BY <1>15, <2>1, ForwardCursor, OtherBatchTyped DEF Cursors
<1>16. CASE BackEdge
  <2>1. OtherBatch
    BY <1>16 DEF BackEdge
  <2> QED
    BY <1>16, <2>1, BackEdgeCursor, OtherBatchTyped DEF Cursors
<1>17. CASE OtherEntry
  BY <1>17, OtherBatchTyped DEF OtherEntry, Cursors
<1>18. CASE Rebuild
  BY <1>18 DEF Rebuild, SeenBehind
<1>19. CASE UNCHANGED vars
  BY <1>19 DEF vars, journalVars, SeenBehind
<1> QED
  BY <1>1, <1>2, <1>3, <1>4, <1>5, <1>6, <1>7, <1>8, <1>9, <1>10, <1>11, <1>12, <1>13, <1>14,
     <1>15, <1>16, <1>17, <1>18, <1>19 DEF Next

\* Type correctness of the runtime file, the locks and the closures of a
\* session (session-runtime.ts, pending-scope.ts, execute-closure.ts): no
\* pending set ever belongs to an iteration that the session has not reached.
THEOREM TypeCorrect == Spec => []TypeOK
<1>1. Init => TypeInv
  BY InitTyped
<1>2. TypeInv /\ [Next]_vars => TypeInv'
  BY NextTyped
<1>3. TypeInv => TypeOK
  BY DEF TypeInv
<1> QED
  BY <1>1, <1>2, <1>3, PTL DEF Spec

-----------------------------------------------------------------------------
(* The runtime lock excludes *)

LockHeld == \A p \in Procs : pc[p] \in Locked => lock = p

LEMMA NextLockHeld == TypeInv /\ LockHeld /\ [Next]_vars => LockHeld'
<1> SUFFICES ASSUME TypeInv, LockHeld, [Next]_vars PROVE LockHeld'
  OBVIOUS
<1> USE DEF TypeInv, TypeOK, LockHeld, Locked, Goto, journalVars
<1>1. ASSUME NEW p \in Procs, StartHook(p) PROVE LockHeld'
  BY <1>1 DEF StartHook
<1>2. ASSUME NEW p \in Procs, StartClosure(p) PROVE LockHeld'
  BY <1>2 DEF StartClosure
<1>3. ASSUME NEW p \in Procs, Acquire(p) PROVE LockHeld'
  <2>1. \A q \in Procs : pc[q] \notin Locked
    BY <1>3 DEF Acquire, LockFree
  <2> QED
    BY <1>3, <2>1 DEF Acquire
<1>4. ASSUME NEW p \in Procs, LockTimeout(p) PROVE LockHeld'
  BY <1>4 DEF LockTimeout, Exit
<1>5. ASSUME NEW p \in Procs, Publish(p) \/ PublishFails(p) PROVE LockHeld'
  BY <1>5 DEF Publish, PublishFails
<1>6. ASSUME NEW p \in Procs, Reload(p) PROVE LockHeld'
  BY <1>6 DEF Reload
<1>7. ASSUME NEW p \in Procs, Commit(p) \/ CommitUnreported(p) \/ CommitFails(p) PROVE LockHeld'
  BY <1>7 DEF Commit, CommitUnreported, CommitFails
<1>8. ASSUME NEW p \in Procs, Settle(p) \/ SettleFails(p) PROVE LockHeld'
  BY <1>8 DEF Settle, SettleFails
<1>9. ASSUME NEW p \in Procs, Release(p) PROVE LockHeld'
  <2>1. \A q \in Procs \ {p} : pc[q] \notin Locked
    BY <1>9 DEF Release
  <2> QED
    BY <1>9, <2>1 DEF Release, Exit
<1>10. ASSUME NEW p \in Procs, Crash(p) PROVE LockHeld'
  BY <1>10 DEF Crash, Exit
<1>11. CASE Forward \/ BackEdge \/ OtherEntry \/ Rebuild
  BY <1>11 DEF Forward, BackEdge, OtherEntry, OtherBatch, Rebuild
<1>12. CASE UNCHANGED vars
  BY <1>12 DEF vars
<1> QED
  BY <1>1, <1>2, <1>3, <1>4, <1>5, <1>6, <1>7, <1>8, <1>9, <1>10, <1>11, <1>12 DEF Next

-----------------------------------------------------------------------------
(* An iteration is closed once, with its scope *)

\* A closure that is about to append has read work, and it still reads the
\* session's cursor if the journal has not grown since.
CommitOfWork ==
  \A p \in Procs : pc[p] = "commit" =>
    /\ seen[p].cursor.sub = "EXECUTE.work"
    /\ seen[p].version = version => seen[p].cursor = cursor

FactsBehind == \A f \in facts : f.iteration <= cursor.iteration

ClosureInv == CommitOfWork /\ FactsBehind /\ ClosedOnceWithItsScope

\* Steps that leave the journal alone, and put nobody before the append.
LEMMA ClosureUntouched ==
  ASSUME TypeInv, ClosureInv, UNCHANGED <<cursor, facts, version>>,
         \A p \in Procs : pc'[p] = "commit" => pc[p] = "commit" /\ seen'[p] = seen[p]
  PROVE  ClosureInv'
BY DEF ClosureInv, CommitOfWork, FactsBehind, ClosedOnceWithItsScope, FactsOf

LEMMA AppendCloses ==
  ASSUME TypeInv, ClosureInv, NEW p \in Procs, pc[p] = "commit", Admitted(p), Append(p)
  PROVE  FactsBehind' /\ ClosedOnceWithItsScope'
<1> DEFINE new == [iteration |-> cursor.iteration, paths |-> paths[p], version |-> version + 1]
<1>1. seen[p].cursor = cursor /\ cursor.sub = "EXECUTE.work"
  BY DEF Admitted, ClosureInv, CommitOfWork
<1>2. facts' = facts \cup {new} /\ FactsOf(cursor.iteration) = {}
  BY <1>1 DEF Append, Admitted
<1>3. cursor'.iteration = cursor.iteration /\ cursor'.sub = "EXECUTE.done"
  BY DEF Append
<1>4. FactsBehind'
  BY <1>2, <1>3, TypeFacts DEF ClosureInv, FactsBehind
<1>5. \A f, g \in facts' : f.iteration = g.iteration => f = g
  BY <1>2 DEF ClosureInv, ClosedOnceWithItsScope, FactsOf
<1>6. new \in FactsOf(cursor.iteration)'
  BY <1>2, <1>3 DEF FactsOf
<1> QED
  BY <1>3, <1>4, <1>5, <1>6 DEF ClosedOnceWithItsScope

LEMMA NextClosureInv == TypeInv /\ LockHeld /\ ClosureInv /\ [Next]_vars => ClosureInv'
<1> SUFFICES ASSUME TypeInv, LockHeld, ClosureInv, [Next]_vars PROVE ClosureInv'
  OBVIOUS
<1> USE DEF TypeInv, TypeOK, Goto, journalVars
<1>1. ASSUME NEW p \in Procs, StartHook(p) \/ StartClosure(p) PROVE ClosureInv'
  BY <1>1, ClosureUntouched DEF StartHook, StartClosure, Read
<1>2. ASSUME NEW p \in Procs, Acquire(p) PROVE ClosureInv'
  BY <1>2, ClosureUntouched DEF Acquire
<1>3. ASSUME NEW p \in Procs, LockTimeout(p) \/ Release(p) \/ Crash(p) PROVE ClosureInv'
  BY <1>3, ClosureUntouched DEF LockTimeout, Release, Crash, Exit
<1>4. ASSUME NEW p \in Procs, Publish(p) \/ PublishFails(p) PROVE ClosureInv'
  BY <1>4, ClosureUntouched DEF Publish, PublishFails
<1>5. ASSUME NEW p \in Procs, Reload(p) PROVE ClosureInv'
  <2>1. UNCHANGED <<cursor, facts, version>>
    BY <1>5 DEF Reload
  <2>2. seen'[p] = [cursor |-> cursor, version |-> version]
    BY <1>5 DEF Reload, Read
  <2>3. pc'[p] = "commit" => cursor.sub = "EXECUTE.work"
    BY <1>5 DEF Reload
  <2>4. \A q \in Procs \ {p} : pc'[q] = pc[q] /\ seen'[q] = seen[q]
    BY <1>5 DEF Reload, Read
  <2>5. CommitOfWork'
    BY <2>1, <2>2, <2>3, <2>4 DEF ClosureInv, CommitOfWork
  <2> QED
    BY <2>1, <2>5 DEF ClosureInv, FactsBehind, ClosedOnceWithItsScope, FactsOf
<1>6. ASSUME NEW p \in Procs, Commit(p) \/ CommitUnreported(p) PROVE ClosureInv'
  <2>1. pc[p] = "commit" /\ Admitted(p) /\ Append(p)
    BY <1>6 DEF Commit, CommitUnreported
  <2>2. \A q \in Procs : pc'[q] # "commit"
    BY <1>6, <2>1 DEF Commit, CommitUnreported, LockHeld, Locked
  <2> QED
    BY <2>1, <2>2, AppendCloses DEF ClosureInv, CommitOfWork
<1>7. ASSUME NEW p \in Procs, CommitFails(p) \/ Settle(p) \/ SettleFails(p) PROVE ClosureInv'
  BY <1>7, ClosureUntouched DEF CommitFails, Settle, SettleFails
<1>8. CASE Forward \/ BackEdge \/ OtherEntry
  <2>1. OtherBatch
    BY <1>8 DEF Forward, BackEdge, OtherEntry
  <2>2. CommitOfWork'
    BY <2>1 DEF OtherBatch, ClosureInv, CommitOfWork, SeenBehind
  <2>3. CASE Forward
    BY <2>1, <2>2, <2>3, ForwardCursor
    DEF OtherBatch, ClosureInv, FactsBehind, ClosedOnceWithItsScope, FactsOf
  <2>4. CASE BackEdge
    <3>1. \A f \in facts : f.iteration < cursor'.iteration
      BY <2>4, BackEdgeCursor, TypeFacts DEF ClosureInv, FactsBehind
    <3>2. facts' = facts
      BY <2>1 DEF OtherBatch
    <3>3. FactsOf(cursor.iteration)' = {} /\ FactsBehind'
      BY <3>1, <3>2, TypeFacts, BackEdgeCursor, <2>4 DEF FactsOf, FactsBehind, Cursors
    <3>4. cursor'.sub \in {"before", "EXECUTE.work"}
      BY <2>4, BackEdgeCursor
    <3> QED
      BY <2>2, <3>2, <3>3, <3>4 DEF ClosureInv, ClosedOnceWithItsScope
  <2>5. CASE OtherEntry
    BY <2>1, <2>2, <2>5
    DEF OtherEntry, OtherBatch, ClosureInv, FactsBehind, ClosedOnceWithItsScope, FactsOf
  <2> QED
    BY <1>8, <2>3, <2>4, <2>5
<1>9. CASE Rebuild
  BY <1>9, ClosureUntouched DEF Rebuild
<1>10. CASE UNCHANGED vars
  BY <1>10, ClosureUntouched DEF vars
<1> QED
  BY <1>1, <1>2, <1>3, <1>4, <1>5, <1>6, <1>7, <1>8, <1>9, <1>10 DEF Next

LEMMA InitClosure == Init => LockHeld /\ ClosureInv
<1> SUFFICES ASSUME Init PROVE LockHeld /\ ClosureInv
  OBVIOUS
<1>1. \A p \in Procs : pc[p] = "idle"
  BY DEF Init
<1>2. facts = {}
  BY DEF Init
<1>3. cursor.sub = "EXECUTE.work" \/ cursor.iteration \in LegacyClosures
  BY DEF Init
<1>4. cursor.sub = "EXECUTE.work" \/ cursor.sub = "EXECUTE.done"
  BY DEF Init
<1> QED
  BY <1>1, <1>2, <1>3, <1>4
  DEF LockHeld, Locked, ClosureInv, CommitOfWork, FactsBehind, ClosedOnceWithItsScope, FactsOf

\* However closures, retries, crashes and back edges interleave, the journal
\* holds one fact of an iteration that was closed with a marker and none of
\* an open one (execute-closure.ts under mutateBatch's tail check).
THEOREM ClosedOnce == Spec => []ClosedOnceWithItsScope
<1>1. Init => TypeInv /\ LockHeld /\ ClosureInv
  BY InitTyped, InitClosure
<1>2. TypeInv /\ LockHeld /\ ClosureInv /\ [Next]_vars => (TypeInv /\ LockHeld /\ ClosureInv)'
  BY NextTyped, NextLockHeld, NextClosureInv
<1>3. ClosureInv => ClosedOnceWithItsScope
  BY DEF ClosureInv
<1> QED
  BY <1>1, <1>2, <1>3, PTL DEF Spec

-----------------------------------------------------------------------------
(* Tracked paths are lost only to an overtaken hook *)

\* A closure that is about to append carries everything that is pending and
\* not recorded; one that has committed leaves nothing unrecorded behind.
CarriesPending ==
  \A p \in Procs :
    /\ pc[p] = "commit" => pending.paths \subseteq paths[p] \cup Recorded
    /\ pc[p] = "settle" /\ phase[p] = "committed" => pending.paths \subseteq Recorded

LEMMA UncoveredOrRecorded == pending.paths \subseteq Uncovered \cup Recorded
BY DEF Uncovered, Recorded, FactsOf

LEMMA AppendRecords ==
  ASSUME NEW p \in Procs, Append(p)
  PROVE  Recorded' = Recorded \cup paths[p]
<1>1. PICK f : f.paths = paths[p] /\ facts' = facts \cup {f}
  BY DEF Append
<1> QED
  BY <1>1 DEF Recorded

\* Steps that leave the facts and the pending set alone.
LEMMA CarriesUntouched ==
  ASSUME CarriesPending, UNCHANGED <<facts, pending>>,
         \A p \in Procs :
           /\ pc'[p] = "commit" => pc[p] = "commit" /\ paths'[p] = paths[p]
           /\ pc'[p] = "settle" => pc[p] = "settle" /\ phase'[p] = phase[p]
  PROVE  CarriesPending'
BY DEF CarriesPending, Recorded

\* Steps of the owner of the lock, after which nobody is about to append or
\* to settle.
LEMMA CarriesNothing ==
  ASSUME TypeInv, LockHeld, NEW p \in Procs, pc[p] \in Locked,
         pc' = [pc EXCEPT ![p] = "release"]
  PROVE  CarriesPending'
BY DEF TypeInv, TypeOK, LockHeld, Locked, CarriesPending

LEMMA NextCarriesPending == TypeInv /\ LockHeld /\ CarriesPending /\ [Next]_vars => CarriesPending'
<1> SUFFICES ASSUME TypeInv, LockHeld, CarriesPending, [Next]_vars PROVE CarriesPending'
  OBVIOUS
<1> USE DEF TypeInv, TypeOK, Goto, journalVars
<1>1. ASSUME NEW p \in Procs, StartHook(p) \/ StartClosure(p) PROVE CarriesPending'
  BY <1>1, CarriesUntouched DEF StartHook, StartClosure
<1>2. ASSUME NEW p \in Procs, Acquire(p) PROVE CarriesPending'
  BY <1>2, CarriesUntouched DEF Acquire
<1>3. ASSUME NEW p \in Procs, LockTimeout(p) \/ Release(p) \/ Crash(p) PROVE CarriesPending'
  BY <1>3, CarriesUntouched DEF LockTimeout, Release, Crash, Exit
<1>4. ASSUME NEW p \in Procs, Publish(p) \/ PublishFails(p) PROVE CarriesPending'
  BY <1>4, CarriesNothing DEF Publish, PublishFails, Locked
<1>5. ASSUME NEW p \in Procs, Reload(p) PROVE CarriesPending'
  <2>1. UNCHANGED <<facts, pending>> /\ pc[p] \in Locked
    BY <1>5 DEF Reload, Locked
  <2>2. \A q \in Procs \ {p} : pc'[q] \notin {"commit", "settle"}
    BY <1>5, <2>1 DEF Reload, LockHeld, Locked
  <2>3. pc'[p] = "commit" => paths'[p] = ClosurePaths
    BY <1>5 DEF Reload
  <2>4. pc'[p] = "settle" => phase'[p] = "recovered"
    BY <1>5 DEF Reload
  <2>5. pending.paths \subseteq ClosurePaths \cup Recorded
    BY UncoveredOrRecorded DEF ClosurePaths
  <2> QED
    BY <2>1, <2>2, <2>3, <2>4, <2>5 DEF CarriesPending, Recorded
<1>6. ASSUME NEW p \in Procs, Commit(p) PROVE CarriesPending'
  <2>1. pc[p] = "commit" /\ Append(p) /\ pending' = pending
    BY <1>6 DEF Commit
  <2>2. \A q \in Procs \ {p} : pc'[q] \notin {"commit", "settle"}
    BY <1>6, <2>1 DEF Commit, LockHeld, Locked
  <2>3. pc'[p] = "settle"
    BY <1>6 DEF Commit
  <2>4. pending'.paths \subseteq Recorded'
    BY <2>1, AppendRecords DEF CarriesPending
  <2> QED
    BY <2>2, <2>3, <2>4 DEF CarriesPending
<1>7. ASSUME NEW p \in Procs, CommitUnreported(p) \/ CommitFails(p) PROVE CarriesPending'
  BY <1>7, CarriesNothing DEF CommitUnreported, CommitFails, Locked
<1>8. ASSUME NEW p \in Procs, Settle(p) \/ SettleFails(p) PROVE CarriesPending'
  BY <1>8, CarriesNothing DEF Settle, SettleFails, Locked
<1>9. CASE Forward \/ BackEdge \/ OtherEntry \/ Rebuild
  BY <1>9, CarriesUntouched DEF Forward, BackEdge, OtherEntry, OtherBatch, Rebuild
<1>10. CASE UNCHANGED vars
  BY <1>10, CarriesUntouched DEF vars
<1> QED
  BY <1>1, <1>2, <1>3, <1>4, <1>5, <1>6, <1>7, <1>8, <1>9, <1>10 DEF Next

\* A hook's publish that was not overtaken by a later iteration's.
LEMMA PublishKeeps ==
  ASSUME TypeInv, NEW p \in Procs, Publish(p), ~(seen[p].cursor.iteration < pending.iteration)
  PROVE  Known \subseteq Known'
<1> DEFINE i == seen[p].cursor.iteration
<1>1. Recorded' = Recorded
  BY DEF Publish, journalVars, Recorded
<1>2. i \in Nat /\ pending.iteration \in Nat
  BY TypeFacts DEF TypeInv, TypeOK, Cursors
<1>3. pending.paths \subseteq Carried(i) \cup Recorded
  BY <1>2, UncoveredOrRecorded DEF Carried
<1>4. pending'.paths = pending.paths \/ Carried(i) \subseteq pending'.paths
  BY DEF Publish
<1> QED
  BY <1>1, <1>3, <1>4 DEF Known

LEMMA SettleKeeps ==
  ASSUME TypeInv, CarriesPending, NEW p \in Procs, Settle(p)
  PROVE  Known \subseteq Known'
<1>1. pc[p] = "settle" /\ Recorded' = Recorded
  BY DEF Settle, journalVars, Recorded
<1>2. CASE Settled(p)
  <2>1. pending.paths \subseteq Recorded
    BY <1>1, <1>2, UncoveredOrRecorded DEF Settled, CarriesPending, Covered, NoPending
  <2> QED
    BY <1>1, <2>1 DEF Known
<1>3. CASE ~Settled(p)
  BY <1>1, <1>3 DEF Settle, Known
<1> QED
  BY <1>2, <1>3

LEMMA NextKeeps ==
  TypeInv /\ CarriesPending /\ [Next]_vars =>
    Known \subseteq Known' \/ OvertakenHook
<1> DEFINE Goal == Known \subseteq Known' \/ OvertakenHook
<1> SUFFICES ASSUME TypeInv, CarriesPending, [Next]_vars PROVE Goal
  OBVIOUS
<1>1. ASSUME UNCHANGED <<facts, pending>> PROVE Goal
  BY <1>1 DEF Known, Recorded
<1>2. ASSUME NEW p \in Procs,
             StartHook(p) \/ StartClosure(p) \/ Acquire(p) \/ LockTimeout(p) \/ PublishFails(p)
             \/ Reload(p) \/ CommitFails(p) \/ SettleFails(p) \/ Release(p) \/ Crash(p)
      PROVE  Goal
  BY <1>1, <1>2 DEF StartHook, StartClosure, Acquire, LockTimeout, PublishFails, Reload,
                    CommitFails, SettleFails, Release, Crash, journalVars
<1>3. ASSUME NEW p \in Procs, Publish(p) PROVE Goal
  <2>1. CASE seen[p].cursor.iteration < pending.iteration
    BY <1>3, <2>1 DEF Publish, Goto, TypeInv, TypeOK, OvertakenHook
  <2>2. CASE ~(seen[p].cursor.iteration < pending.iteration)
    BY <1>3, <2>2, PublishKeeps
  <2> QED
    BY <2>1, <2>2
<1>4. ASSUME NEW p \in Procs, Commit(p) \/ CommitUnreported(p) PROVE Goal
  <2>1. Append(p) /\ pending' = pending
    BY <1>4 DEF Commit, CommitUnreported
  <2> QED
    BY <2>1, AppendRecords DEF Known
<1>5. ASSUME NEW p \in Procs, Settle(p) PROVE Goal
  BY <1>5, SettleKeeps
<1>6. CASE Forward \/ BackEdge \/ OtherEntry \/ Rebuild
  BY <1>1, <1>6 DEF Forward, BackEdge, OtherEntry, OtherBatch, Rebuild
<1>7. CASE UNCHANGED vars
  BY <1>1, <1>7 DEF vars, journalVars
<1> QED
  BY <1>2, <1>3, <1>4, <1>5, <1>6, <1>7 DEF Next

LEMMA InitCarries == Init => CarriesPending
BY DEF Init, CarriesPending

\* However hooks, closures, retries, failed writes and crashes interleave, a
\* path that was tracked stays pending or recorded, except at the publish of
\* a hook that waited for the lock while a later iteration's hook passed it
\* (pending-scope.ts, the branch that carries nothing).
THEOREM LostOnlyOvertaken == Spec => LostOnlyToOvertakenHook
<1>1. Init => TypeInv /\ LockHeld /\ CarriesPending
  BY InitTyped, InitClosure, InitCarries
<1>2. TypeInv /\ LockHeld /\ CarriesPending /\ [Next]_vars
        => (TypeInv /\ LockHeld /\ CarriesPending)'
  BY NextTyped, NextLockHeld, NextCarriesPending
<1>3. TypeInv /\ CarriesPending /\ [Next]_vars
        => Known \subseteq Known' \/ OvertakenHook
  BY NextKeeps
<1> QED
  BY <1>1, <1>2, <1>3, PTL DEF Spec, LostOnlyToOvertakenHook

-----------------------------------------------------------------------------
(* A reported closure has settled what it recorded *)

\* Only a process on its way out has an answer.
AnswersLast == \A p \in Procs : pc[p] # "release" => result[p] = "none"

AnswerInv == AnswersLast /\ SuccessSettlesPending

\* Steps that leave the facts and the pending set alone.
LEMMA AnswersUntouched ==
  ASSUME AnswerInv, UNCHANGED <<facts, pending>>,
         \A p \in Procs : /\ pc'[p] # "release" => result'[p] = "none"
                          /\ pc'[p] = "release" /\ result'[p] \in {"committed", "recovered"}
                               => pc[p] = "release" /\ result'[p] = result[p]
  PROVE  AnswerInv'
BY DEF AnswerInv, AnswersLast, SuccessSettlesPending, Covered, Uncovered, FactsOf

\* Steps of the owner of the lock after which there is no reported success.
LEMMA AnswersNoSuccess ==
  ASSUME TypeInv, LockHeld, AnswerInv, NEW p \in Procs, pc[p] \in Locked,
         \A q \in Procs \ {p} : pc'[q] = pc[q] /\ result'[q] = result[q],
         result'[p] \notin {"committed", "recovered"},
         pc'[p] # "release" => result'[p] = "none"
  PROVE  AnswerInv'
<1>1. \A q \in Procs \ {p} : pc'[q] # "release"
  BY DEF LockHeld, Locked
<1> QED
  BY <1>1 DEF AnswerInv, AnswersLast, SuccessSettlesPending

LEMMA SettleAnswers ==
  ASSUME TypeInv, LockHeld, AnswerInv, NEW p \in Procs, Settle(p)
  PROVE  AnswerInv'
<1>1. \A q \in Procs \ {p} : pc'[q] = pc[q] /\ pc[q] # "release" /\ result'[q] = result[q]
  BY DEF Settle, Goto, LockHeld, Locked, TypeInv, TypeOK
<1>2. pc'[p] = "release" /\ facts' = facts
  BY DEF Settle, Goto, journalVars, TypeInv, TypeOK
<1>3. AnswersLast'
  BY <1>1, <1>2 DEF AnswerInv, AnswersLast
<1>4. result'[p] = "committed" => pending' = NoPending
  BY DEF Settle, Settled, TypeInv, TypeOK
<1>5. ~Covered'
  <2>1. CASE Settled(p)
    BY <1>2, <2>1, TypeFacts DEF Settle, Covered, NoPending, FactsOf
  <2>2. CASE ~Settled(p)
    BY <1>2, <2>2 DEF Settle, Settled, Covered, Uncovered, FactsOf
  <2> QED
    BY <2>1, <2>2
<1> QED
  BY <1>1, <1>3, <1>4, <1>5 DEF AnswerInv, SuccessSettlesPending

LEMMA NextAnswers == TypeInv /\ LockHeld /\ AnswerInv /\ [Next]_vars => AnswerInv'
<1> SUFFICES ASSUME TypeInv, LockHeld, AnswerInv, [Next]_vars PROVE AnswerInv'
  OBVIOUS
<1> USE DEF TypeInv, TypeOK, Goto, journalVars, AnswerInv, AnswersLast
<1>1. ASSUME NEW p \in Procs, StartHook(p) \/ StartClosure(p) PROVE AnswerInv'
  BY <1>1, AnswersUntouched DEF StartHook, StartClosure
<1>2. ASSUME NEW p \in Procs, Acquire(p) PROVE AnswerInv'
  BY <1>2, AnswersUntouched DEF Acquire
<1>3. ASSUME NEW p \in Procs, LockTimeout(p) \/ Release(p) \/ Crash(p) PROVE AnswerInv'
  BY <1>3, AnswersUntouched DEF LockTimeout, Release, Crash, Exit
<1>4. ASSUME NEW p \in Procs, Publish(p) \/ PublishFails(p) PROVE AnswerInv'
  BY <1>4, AnswersNoSuccess DEF Publish, PublishFails, Locked
<1>5. ASSUME NEW p \in Procs, Reload(p) PROVE AnswerInv'
  BY <1>5, AnswersNoSuccess DEF Reload, Locked
<1>6. ASSUME NEW p \in Procs, Commit(p) \/ CommitUnreported(p) \/ CommitFails(p) PROVE AnswerInv'
  BY <1>6, AnswersNoSuccess DEF Commit, CommitUnreported, CommitFails, Locked
<1>7. ASSUME NEW p \in Procs, Settle(p) PROVE AnswerInv'
  BY <1>7, SettleAnswers
<1>8. ASSUME NEW p \in Procs, SettleFails(p) PROVE AnswerInv'
  BY <1>8, AnswersNoSuccess DEF SettleFails, Locked
<1>9. CASE Forward \/ BackEdge \/ OtherEntry \/ Rebuild
  BY <1>9, AnswersUntouched DEF Forward, BackEdge, OtherEntry, OtherBatch, Rebuild
<1>10. CASE UNCHANGED vars
  BY <1>10, AnswersUntouched DEF vars
<1> QED
  BY <1>1, <1>2, <1>3, <1>4, <1>5, <1>6, <1>7, <1>8, <1>9, <1>10 DEF Next

LEMMA InitAnswers == Init => AnswerInv
BY DEF Init, AnswerInv, AnswersLast, SuccessSettlesPending

\* A closure that reports success, as a commit or as the recovery of one, has
\* settled the pending set (execute-closure.ts, settlePendingScope).
THEOREM SuccessSettles == Spec => []SuccessSettlesPending
<1>1. Init => TypeInv /\ LockHeld /\ AnswerInv
  BY InitTyped, InitClosure, InitAnswers
<1>2. TypeInv /\ LockHeld /\ AnswerInv /\ [Next]_vars => (TypeInv /\ LockHeld /\ AnswerInv)'
  BY NextTyped, NextLockHeld, NextAnswers
<1>3. AnswerInv => SuccessSettlesPending
  BY DEF AnswerInv
<1> QED
  BY <1>1, <1>2, <1>3, PTL DEF Spec

-----------------------------------------------------------------------------
(* What follows for the scope of a feature *)

\* What the invariants of this module say together.
ScopeInv == TypeInv /\ LockHeld /\ ClosureInv /\ CarriesPending

LEMMA ScopeInvariant == Spec => []ScopeInv
<1>1. Init => ScopeInv
  BY InitTyped, InitClosure, InitCarries DEF ScopeInv
<1>2. ScopeInv /\ [Next]_vars => ScopeInv'
  BY NextTyped, NextLockHeld, NextClosureInv, NextCarriesPending DEF ScopeInv
<1> QED
  BY <1>1, <1>2, PTL DEF Spec

\* Only an append records, whoever then fails to report it.
LEMMA OnlyAppendsRecord ==
  ASSUME [Next]_vars, facts' # facts
  PROVE  \E p \in Procs : pc[p] = "commit" /\ Append(p) /\ pending' = pending
<1>1. PICK p \in Procs : Commit(p) \/ CommitUnreported(p)
  BY DEF Next, vars, journalVars, StartHook, StartClosure, Acquire, LockTimeout, Publish,
     PublishFails, Reload, CommitFails, Settle, SettleFails, Release, Crash, Forward,
     BackEdge, OtherEntry, OtherBatch, Rebuild
<1> QED
  BY <1>1 DEF Commit, CommitUnreported

\* The batch that closes an iteration records every path that is pending when
\* it lands, those of an earlier iteration included: what was decided under the
\* lock at the reload is still all there is.
THEOREM ClosureRecordsPending ==
  Spec => [][facts' # facts => pending' = pending /\ pending.paths \subseteq Recorded']_vars
<1>1. ScopeInv /\ [Next]_vars =>
        [facts' # facts => pending' = pending /\ pending.paths \subseteq Recorded']_vars
  <2> SUFFICES ASSUME ScopeInv, [Next]_vars, facts' # facts
               PROVE  pending' = pending /\ pending.paths \subseteq Recorded'
    OBVIOUS
  <2>1. PICK p \in Procs : pc[p] = "commit" /\ Append(p) /\ pending' = pending
    BY OnlyAppendsRecord
  <2> QED
    BY <2>1, AppendRecords DEF ScopeInv, CarriesPending
<1> QED
  BY <1>1, ScopeInvariant, PTL DEF Spec

\* The recorded scope of an iteration is final: no retry, back edge or later
\* closure adds to it or replaces it.
THEOREM RecordedScopeIsFinal ==
  Spec => [][\A i \in 1 .. MaxIteration : FactsOf(i) # {} => FactsOf(i)' = FactsOf(i)]_vars
<1>1. ScopeInv /\ ScopeInv' /\ [Next]_vars =>
        [\A i \in 1 .. MaxIteration : FactsOf(i) # {} => FactsOf(i)' = FactsOf(i)]_vars
  <2> SUFFICES ASSUME ScopeInv', [Next]_vars,
                      NEW i \in 1 .. MaxIteration, FactsOf(i) # {}
               PROVE  FactsOf(i)' = FactsOf(i)
    OBVIOUS
  <2>1. CASE facts' = facts
    BY <2>1 DEF FactsOf
  <2>2. CASE facts' # facts
    <3>1. PICK p \in Procs : Append(p)
      BY <2>2, OnlyAppendsRecord
    <3>2. PICK f : facts' = facts \cup {f}
      BY <3>1 DEF Append
    <3>3. \A g, h \in facts' : g.iteration = h.iteration => g = h
      BY DEF ScopeInv, ClosureInv, ClosedOnceWithItsScope
    <3> QED
      BY <3>2, <3>3 DEF FactsOf
  <2> QED
    BY <2>1, <2>2
<1> QED
  BY <1>1, ScopeInvariant, PTL DEF Spec

\* "monotone union", where it does hold: in a session that takes no back edge
\* no step forgets a tracked path. A hook can only be overtaken by a later
\* iteration's.
THEOREM NothingLostWithoutBackEdge ==
  Spec /\ [](cursor.iteration = 1) => MonotoneUnion
<1>1. TypeInv /\ CarriesPending /\ cursor.iteration = 1 /\ [Next]_vars
        => [Known \subseteq Known']_vars
  <2> SUFFICES ASSUME TypeInv, CarriesPending, cursor.iteration = 1, [Next]_vars
               PROVE  Known \subseteq Known'
    OBVIOUS
  <2>1. ASSUME NEW p \in Procs PROVE ~(seen[p].cursor.iteration < pending.iteration)
    <3>1. seen[p].cursor.iteration \in Nat \ {0}
      BY IterationAssumption DEF TypeInv, TypeOK, Cursors
    <3>2. pending.iteration \in {0, 1}
      BY DEF TypeInv, TypeOK, NoPending
    <3> QED
      BY <3>1, <3>2
  <2> QED
    BY <2>1, NextKeeps DEF OvertakenHook
<1>2. ScopeInv => TypeInv /\ CarriesPending
  BY DEF ScopeInv
<1> QED
  BY <1>1, <1>2, ScopeInvariant, PTL DEF Spec, MonotoneUnion

=============================================================================

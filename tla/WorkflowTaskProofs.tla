------------------------- MODULE WorkflowTaskProofs -------------------------
(***************************************************************************)
(* Theorems about the tasks of a session, for any scenario. One lemma,     *)
(* TaskSteps, says what a step can do to the graph: nothing, a checked new *)
(* graph, or one more step in the life of one task. The rest follows.      *)
(***************************************************************************)
EXTENDS WorkflowProofs, TaskGraphProofs

-----------------------------------------------------------------------------
(* The graph holds tasks under ids that were given out. *)

TaskInv ==
  /\ issued \in Nat
  /\ DOMAIN tasks \subseteq 1..issued
  /\ tasks \in [DOMAIN tasks -> Task]
  /\ \A t \in DOMAIN tasks : WellFormed(tasks[t])

\* A task under a checked graph keeps its status and what has begun of it.
Kept(u, t) ==
  /\ u.status = t.status
  /\ \/ SameBody(u, t)
     \/ \A s \in DOMAIN t.steps :
          t.steps[s].status # "pending" => s \in DOMAIN u.steps /\ u.steps[s] = t.steps[s]

\* A new graph, an extended one or an amended one.
Regraphs ==
  /\ TaskInv'
  /\ CheckTaskGraph(tasks')
  /\ DOMAIN tasks' \ DOMAIN tasks = (issued + 1)..issued'
  /\ \A t \in DOMAIN tasks \cap DOMAIN tasks' : Kept(tasks'[t], tasks[t])
  /\ cursor = "EXECUTE.work" => \E f \in DOMAIN findings : Sponsors(findings, f, {"amend-tasks"})

\* What brings a task to its next status.
Moves(t, status) ==
  \/ Claimable(tasks, t) /\ status = "in_progress"
  \/ CanAbandon(tasks, t) /\ status = "abandoned"
  \/ tasks[t].status = "in_progress" /\ status \in {"in_progress", "done"}
  \/ /\ tasks[t].status # "abandoned" /\ status = "in_progress"
     /\ Sponsors(findings', Len(findings'), FixActions)
     /\ findings'[Len(findings')].target.task = t
     /\ \E input \in inputs.raises : findings' = Append(findings, Raised(input))

\* One step in the life of one task.
Works(t) ==
  /\ tasks' = [tasks EXCEPT ![t] = tasks'[t]]
  /\ issued' = issued
  /\ tasks'[t] \in Task /\ WellFormed(tasks'[t])
  /\ SameBody(tasks'[t], tasks[t])
  /\ SameNeeds(tasks'[t], tasks[t])
  /\ Moves(t, tasks'[t].status)

LEMMA AllocatedTyped ==
  ASSUME NEW p, IsPlan(p), Len(p) \in Nat, NEW last \in Nat
  PROVE  /\ DOMAIN Allocated(p, last) = (last + 1)..(last + Len(p))
         /\ \A t \in DOMAIN Allocated(p, last) :
              Allocated(p, last)[t] \in Task /\ FreshTask(Allocated(p, last)[t])
<1> DEFINE ids == (last + 1)..(last + Len(p))
<1>1. DOMAIN Allocated(p, last) = ids
  BY DEF Allocated
<1>2. ASSUME NEW t \in ids
      PROVE  Allocated(p, last)[t] \in Task /\ FreshTask(Allocated(p, last)[t])
  <2> DEFINE deps == p[t - last].onto \cup {last + k : k \in p[t - last].local}
  <2>1. t - last \in DOMAIN p
    BY DEF IsPlan
  <2>2. IsTaskInput(p[t - last]) /\ p[t - last].local \subseteq DOMAIN p
    BY <2>1 DEF IsPlan
  <2>3. deps \in SUBSET Nat
    BY <2>2 DEF IsTaskInput, IsPlan
  <2>4. Allocated(p, last)[t] = NewTask(p[t - last], deps)
    BY DEF Allocated
  <2> QED
    BY <2>2, <2>3, <2>4, NewTaskTyped
<1> QED
  BY <1>1, <1>2

\* Two typed graphs over each other are typed.
LEMMA AddedTyped ==
  ASSUME NEW old, NEW more, \A t \in DOMAIN old : old[t] \in Task /\ WellFormed(old[t]),
         \A t \in DOMAIN more : more[t] \in Task /\ FreshTask(more[t])
  PROVE  /\ DOMAIN Added(old, more) = DOMAIN old \cup DOMAIN more
         /\ Added(old, more) \in [DOMAIN Added(old, more) -> Task]
         /\ \A t \in DOMAIN Added(old, more) : WellFormed(Added(old, more)[t])
BY DEF Added, FreshTask, WellFormed

LEMMA InputShape ==
  ASSUME inputs \in Scenarios
  PROVE  /\ \A p \in inputs.plans \cup inputs.adds : IsPlan(p) /\ Len(p) \in Nat
         /\ \A i \in inputs.amends : IsAmendInput(i)
         /\ \A p \in inputs.policies : \A s \in DOMAIN p : p[s] \in Needs
         /\ inputs.results \subseteq Results
BY ScenariosAssumption DEF IsScenario

-----------------------------------------------------------------------------
(* The five commands that change the graph. *)

LEMMA SubmitRegraphs ==
  ASSUME TaskInv, inputs \in Scenarios, TasksSubmit
  PROVE  Regraphs
<1>1. PICK p \in inputs.plans :
        /\ Allowed("event:tasks_planned", cursor)
        /\ CheckTaskGraph(tasks')
        /\ tasks' = Allocated(p, issued)
        /\ issued' = issued + Len(p)
  BY DEF TasksSubmit, Planned, LastId
<1>2. IsPlan(p) /\ Len(p) \in Nat /\ issued \in Nat
  BY <1>1, InputShape DEF TaskInv
<1>3. /\ DOMAIN tasks' = (issued + 1)..issued'
      /\ \A t \in DOMAIN tasks' : tasks'[t] \in Task /\ FreshTask(tasks'[t])
  BY <1>1, <1>2, AllocatedTyped
<1>4. tasks' \in [DOMAIN tasks' -> Task]
  BY <1>1, <1>3 DEF Allocated
<1>5. TaskInv' /\ DOMAIN tasks' \cap DOMAIN tasks = {}
  BY <1>1, <1>2, <1>3, <1>4 DEF TaskInv, FreshTask, WellFormed
<1>6. DOMAIN tasks' \ DOMAIN tasks = (issued + 1)..issued'
  BY <1>3, <1>5
<1>7. cursor # "EXECUTE.work"
  BY <1>1 DEF Allowed, KindSubStates
<1> QED
  BY <1>1, <1>5, <1>6, <1>7 DEF Regraphs

\* Tasks with new ids come to a graph.
LEMMA MoreTasks ==
  ASSUME TaskInv, inputs \in Scenarios, NEW p \in inputs.adds, NEW old,
         DOMAIN old = DOMAIN tasks,
         \A t \in DOMAIN tasks : old[t] \in Task /\ WellFormed(old[t]) /\ Kept(old[t], tasks[t]),
         tasks' = Added(old, Allocated(p, issued)), issued' = issued + Len(p)
  PROVE  /\ TaskInv'
         /\ DOMAIN tasks' \ DOMAIN tasks = (issued + 1)..issued'
         /\ \A t \in DOMAIN tasks \cap DOMAIN tasks' : Kept(tasks'[t], tasks[t])
<1> DEFINE more == Allocated(p, issued)
<1>1. IsPlan(p) /\ Len(p) \in Nat /\ issued \in Nat /\ DOMAIN tasks \subseteq 1..issued
  BY InputShape DEF TaskInv
<1>2. /\ DOMAIN more = (issued + 1)..issued'
      /\ \A t \in DOMAIN more : more[t] \in Task /\ FreshTask(more[t])
  BY <1>1, AllocatedTyped
<1>3. DOMAIN old \cap DOMAIN more = {}
  BY <1>1, <1>2
<1> HIDE DEF more
<1>4. tasks' = Added(old, more)
  BY DEF more
<1>5. /\ DOMAIN tasks' = DOMAIN old \cup DOMAIN more
      /\ tasks' \in [DOMAIN tasks' -> Task]
      /\ \A t \in DOMAIN tasks' : WellFormed(tasks'[t])
  <2>1. /\ DOMAIN Added(old, more) = DOMAIN old \cup DOMAIN more
        /\ Added(old, more) \in [DOMAIN Added(old, more) -> Task]
        /\ \A t \in DOMAIN Added(old, more) : WellFormed(Added(old, more)[t])
    <3>1. \A t \in DOMAIN old : old[t] \in Task /\ WellFormed(old[t])
      OBVIOUS
    <3> QED
      BY <1>2, <3>1, AddedTyped
  <2> QED
    BY <1>4, <2>1
<1>6. TaskInv'
  BY <1>1, <1>2, <1>5 DEF TaskInv
<1>7. \A t \in DOMAIN tasks \cap DOMAIN tasks' : tasks'[t] = old[t]
  BY <1>3, <1>4 DEF Added
<1> QED
  BY <1>2, <1>3, <1>5, <1>6, <1>7

LEMMA AddRegraphs ==
  ASSUME TaskInv, inputs \in Scenarios, TasksAdd
  PROVE  Regraphs
<1> DEFINE old == [t \in DOMAIN tasks |-> Reissued(tasks[t])]
<1>1. PICK p \in inputs.adds :
        /\ cursor = "SPEC.design"
        /\ Plannable(tasks') /\ CheckTaskGraph(tasks')
        /\ tasks' = Added(old, Allocated(p, issued))
        /\ issued' = issued + Len(p)
  BY DEF TasksAdd, Planned, LastId
<1>2. \A t \in DOMAIN tasks : old[t] \in Task /\ WellFormed(old[t]) /\ Kept(old[t], tasks[t])
  BY ReissuedTyped DEF TaskInv, WellFormed, Kept, SameBody
<1>3. DOMAIN old = DOMAIN tasks
  OBVIOUS
<1> HIDE DEF old
<1> QED
  BY <1>1, <1>2, <1>3, MoreTasks DEF Regraphs

LEMMA AddSponsoredRegraphs ==
  ASSUME TaskInv, inputs \in Scenarios, TasksAddSponsored
  PROVE  Regraphs
<1>1. PICK p \in inputs.adds, f \in DOMAIN findings :
        /\ Sponsors(findings, f, {"amend-tasks"})
        /\ CheckTaskGraph(tasks')
        /\ tasks' = Added(tasks, Allocated(p, issued))
        /\ issued' = issued + Len(p)
  BY DEF TasksAddSponsored, SponsoredAdd, Sponsored, LastId
<1>2. \A t \in DOMAIN tasks : tasks[t] \in Task /\ WellFormed(tasks[t]) /\ Kept(tasks[t], tasks[t])
  BY DEF TaskInv, Kept, SameBody
<1> QED
  BY <1>1, <1>2, MoreTasks DEF Regraphs

\* One task is exchanged for another of the same id.
LEMMA Exchanged ==
  ASSUME TaskInv, NEW t \in DOMAIN tasks, NEW u \in Task, WellFormed(u), Kept(u, tasks[t]),
         tasks' = [tasks EXCEPT ![t] = u], issued' = issued
  PROVE  /\ TaskInv'
         /\ DOMAIN tasks' \ DOMAIN tasks = (issued + 1)..issued'
         /\ \A x \in DOMAIN tasks \cap DOMAIN tasks' : Kept(tasks'[x], tasks[x])
<1>1. DOMAIN tasks' = DOMAIN tasks /\ \A x \in DOMAIN tasks : tasks'[x] = IF x = t THEN u ELSE tasks[x]
  BY DEF TaskInv
<1>2. TaskInv'
  BY <1>1 DEF TaskInv
<1>3. (issued + 1)..issued' = {}
  BY DEF TaskInv
<1>4. \A x \in DOMAIN tasks : Kept(tasks[x], tasks[x])
  BY DEF Kept, SameBody
<1> QED
  BY <1>1, <1>2, <1>3, <1>4

LEMMA AmendSponsoredRegraphs ==
  ASSUME TaskInv, inputs \in Scenarios, TasksAmendSponsored
  PROVE  Regraphs
<1>1. PICK t \in DOMAIN tasks, input \in inputs.amends, f \in DOMAIN findings :
        /\ Sponsors(findings, f, {"amend-tasks"})
        /\ ProgressFrozen(tasks[t], Replacement(tasks[t], input))
        /\ WellFormed(Replacement(tasks[t], input))
        /\ CheckTaskGraph(tasks')
        /\ tasks' = [tasks EXCEPT ![t] = Replacement(tasks[t], input)]
        /\ issued' = issued
  BY DEF TasksAmendSponsored, SponsoredReplace, Sponsored
<1>2. IsTaskInput(input) /\ tasks[t] \in Task
  BY <1>1, InputShape DEF IsAmendInput, TaskInv
<1>3. Replacement(tasks[t], input) \in Task /\ Kept(Replacement(tasks[t], input), tasks[t])
  BY <1>1, <1>2, ReplacementTyped DEF Kept, ProgressFrozen
<1> QED
  BY <1>1, <1>3, Exchanged DEF Regraphs

LEMMA AmendPolicyRegraphs ==
  ASSUME TaskInv, inputs \in Scenarios, TasksAmendPolicy
  PROVE  Regraphs
<1>1. PICK t \in DOMAIN tasks, policy \in inputs.policies :
        /\ cursor = "EXECUTE.plan"
        /\ CheckTaskGraph(tasks')
        /\ tasks' = [tasks EXCEPT ![t] = Narrowed(tasks[t], policy)]
        /\ issued' = issued
  BY DEF TasksAmendPolicy, PlanReplace
<1>2. tasks[t] \in Task /\ WellFormed(tasks[t]) /\ \A s \in DOMAIN policy : policy[s] \in Needs
  BY <1>1, InputShape DEF TaskInv
<1>3. /\ Narrowed(tasks[t], policy) \in Task
      /\ WellFormed(Narrowed(tasks[t], policy))
      /\ Kept(Narrowed(tasks[t], policy), tasks[t])
  BY <1>2, NarrowedTyped DEF Kept, WellFormed, SameBody
<1> QED
  BY <1>1, <1>3, Exchanged DEF Regraphs

-----------------------------------------------------------------------------
(* The commands that work on a task. *)

LEMMA Worked ==
  ASSUME TaskInv, NEW t \in DOMAIN tasks, NEW u \in Task, WellFormed(u),
         SameBody(u, tasks[t]), SameNeeds(u, tasks[t]), Moves(t, u.status),
         tasks' = [tasks EXCEPT ![t] = u], issued' = issued
  PROVE  Works(t)
<1>1. tasks'[t] = u
  BY DEF TaskInv
<1> QED
  BY <1>1 DEF Works

\* Another status is another status only.
LEMMA SameSteps ==
  ASSUME NEW t, NEW u, u.steps = t.steps
  PROVE  SameNeeds(u, t)
BY DEF SameNeeds

LEMMA ClaimWorks ==
  ASSUME TaskInv, Claim
  PROVE  \E t \in DOMAIN tasks : Works(t)
<1>1. PICK t \in DOMAIN tasks :
        Claimable(tasks, t) /\ tasks' = [tasks EXCEPT ![t] = Claimed(tasks[t])] /\ issued' = issued
  BY DEF Claim, Working
<1>2. tasks[t] \in Task /\ WellFormed(tasks[t])
  BY DEF TaskInv
<1>3. /\ Claimed(tasks[t]) \in Task /\ SameBody(Claimed(tasks[t]), tasks[t])
      /\ SameNeeds(Claimed(tasks[t]), tasks[t])
      /\ WellFormed(Claimed(tasks[t]))
      /\ Moves(t, Claimed(tasks[t]).status)
  BY <1>1, <1>2, ClaimedTyped, SameSteps DEF WellFormed, SameBody, Moves
<1> QED
  BY <1>1, <1>3, Worked

LEMMA AbandonWorks ==
  ASSUME TaskInv, AbandonTask
  PROVE  \E t \in DOMAIN tasks : Works(t)
<1>1. PICK t \in DOMAIN tasks :
        CanAbandon(tasks, t) /\ tasks' = [tasks EXCEPT ![t] = Abandoned(tasks[t])] /\ issued' = issued
  BY DEF AbandonTask, Working
<1>2. tasks[t] \in Task /\ WellFormed(tasks[t])
  BY DEF TaskInv
<1>3. /\ Abandoned(tasks[t]) \in Task /\ SameBody(Abandoned(tasks[t]), tasks[t])
      /\ SameNeeds(Abandoned(tasks[t]), tasks[t])
      /\ WellFormed(Abandoned(tasks[t]))
      /\ Moves(t, Abandoned(tasks[t]).status)
  BY <1>1, <1>2, AbandonedTyped, SameSteps DEF WellFormed, SameBody, Moves
<1> QED
  BY <1>1, <1>3, Worked

LEMMA StartWorks ==
  ASSUME TaskInv, StepStart
  PROVE  \E t \in DOMAIN tasks : Works(t)
<1> PICK t \in DOMAIN tasks : \E step \in DOMAIN tasks[t].steps :
        CanWork(tasks, t, step) /\ tasks' = [tasks EXCEPT ![t] = Started(tasks[t], step)]
        /\ issued' = issued
  BY DEF StepStart, Working
<1>1. PICK step \in DOMAIN tasks[t].steps :
        CanWork(tasks, t, step) /\ tasks' = [tasks EXCEPT ![t] = Started(tasks[t], step)]
        /\ issued' = issued
  OBVIOUS
<1>2. tasks[t] \in Task /\ WellFormed(tasks[t]) /\ tasks[t].status = "in_progress"
  BY <1>1 DEF TaskInv, CanWork
<1>3. /\ Started(tasks[t], step) \in Task /\ SameBody(Started(tasks[t], step), tasks[t])
      /\ SameNeeds(Started(tasks[t], step), tasks[t])
      /\ WellFormed(Started(tasks[t], step))
      /\ Moves(t, Started(tasks[t], step).status)
  BY <1>1, <1>2, StartedTyped DEF WellFormed, SameBody, Moves
<1> QED
  BY <1>1, <1>3, Worked

\* A result that registers a red test is one of a behavioral task.
LEMMA FinishWorks ==
  ASSUME TaskInv, NEW t \in DOMAIN tasks, NEW step \in DOMAIN tasks[t].steps,
         NEW result \in Results, NEW red \in BOOLEAN, CanWork(tasks, t, step),
         red => CanRegisterRed(tasks[t], step, result),
         tasks' = [tasks EXCEPT ![t] = Finished(tasks[t], step, result, red)], issued' = issued
  PROVE  Works(t)
<1>1. tasks[t] \in Task /\ WellFormed(tasks[t]) /\ tasks[t].status = "in_progress"
  BY DEF TaskInv, CanWork
<1> DEFINE u == Finished(tasks[t], step, result, red)
<1>2. /\ u \in Task /\ SameBody(u, tasks[t]) /\ SameNeeds(u, tasks[t])
      /\ u.status \in {"done", tasks[t].status} /\ u.red = (tasks[t].red \/ red)
  BY <1>1, FinishedTyped
<1> HIDE DEF u
<1>3. tasks[t].kind = u.kind
  BY <1>2 DEF SameBody
<1>4. tasks[t].red => tasks[t].kind = "behavioral"
  BY <1>1 DEF WellFormed
<1>5. red => tasks[t].kind = "behavioral"
  BY DEF CanRegisterRed
<1>6. WellFormed(u)
  BY <1>2, <1>3, <1>4, <1>5 DEF WellFormed
<1>7. Moves(t, u.status)
  BY <1>1, <1>2 DEF Moves
<1>8. tasks' = [tasks EXCEPT ![t] = u]
  BY DEF u
<1> QED
  BY <1>2, <1>6, <1>7, <1>8, Worked

LEMMA DoneWorks ==
  ASSUME TaskInv, inputs \in Scenarios, StepDone
  PROVE  \E t \in DOMAIN tasks : Works(t)
<1> PICK t \in DOMAIN tasks : \E step \in DOMAIN tasks[t].steps, result \in inputs.results :
        /\ CanWork(tasks, t, step)
        /\ tasks' = [tasks EXCEPT ![t] = Finished(tasks[t], step, result, FALSE)]
        /\ issued' = issued
  BY DEF StepDone, Working
<1>1. PICK step \in DOMAIN tasks[t].steps, result \in inputs.results :
        /\ CanWork(tasks, t, step)
        /\ tasks' = [tasks EXCEPT ![t] = Finished(tasks[t], step, result, FALSE)]
        /\ issued' = issued
  OBVIOUS
<1>2. result \in Results
  BY <1>1, InputShape
<1> QED
  BY <1>1, <1>2, FinishWorks

LEMMA RedWorks ==
  ASSUME TaskInv, RegisterRed
  PROVE  \E t \in DOMAIN tasks : Works(t)
<1>1. PICK t \in DOMAIN tasks :
        /\ CanWork(tasks, t, "red")
        /\ CanRegisterRed(tasks[t], "red", "passed")
        /\ tasks' = [tasks EXCEPT ![t] = Finished(tasks[t], "red", "passed", TRUE)]
        /\ issued' = issued
  BY DEF RegisterRed, Working
<1>2. "red" \in DOMAIN tasks[t].steps /\ "passed" \in Results
  BY <1>1 DEF CanWork, Results
<1> QED
  BY <1>1, <1>2, FinishWorks

LEMMA FixWorks ==
  ASSUME TaskInv, findings \in Seq(Finding), inputs \in Scenarios, RaiseFix
  PROVE  \E t \in DOMAIN tasks : Works(t)
<1>1. PICK input \in inputs.raises :
        /\ findings' = Append(findings, Raised(input))
        /\ ResetAdmitted(findings', Len(findings'), tasks)
        /\ tasks' = [tasks EXCEPT ![input.target.task] =
                       Reopened(tasks[input.target.task], input.target.step)]
        /\ issued' = issued
  BY DEF RaiseFix, RaiseEntry
<1> DEFINE t == input.target.task
           step == input.target.step
           u == Reopened(tasks[t], step)
<1>2. findings'[Len(findings')] = Raised(input)
  BY <1>1
<1>3. /\ Sponsors(findings', Len(findings'), FixActions)
      /\ findings'[Len(findings')].target.task = t
      /\ t \in DOMAIN tasks /\ step \in DOMAIN tasks[t].steps /\ tasks[t].status # "abandoned"
  BY <1>1, <1>2 DEF ResetAdmitted, Raised
<1>4. tasks[t] \in Task /\ WellFormed(tasks[t])
  BY <1>3 DEF TaskInv
<1>5. /\ u \in Task /\ SameBody(u, tasks[t]) /\ SameNeeds(u, tasks[t])
      /\ u.status = "in_progress" /\ u.red = tasks[t].red
  BY <1>3, <1>4, ReopenedTyped
<1> HIDE DEF u
<1>6. WellFormed(u)
  BY <1>4, <1>5 DEF WellFormed, SameBody
<1>7. Moves(t, u.status)
  BY <1>1, <1>3, <1>5 DEF Moves
<1>8. tasks' = [tasks EXCEPT ![t] = u]
  BY <1>1 DEF u
<1> HIDE DEF t
<1> QED
  BY <1>1, <1>3, <1>5, <1>6, <1>7, <1>8, Worked

-----------------------------------------------------------------------------
(* Every step, and type correctness. *)

LEMMA TaskSteps ==
  ASSUME TaskInv, findings \in Seq(Finding), inputs \in Scenarios, [Next]_vars
  PROVE  UNCHANGED <<tasks, issued>> \/ Regraphs \/ \E t \in DOMAIN tasks : Works(t)
<1> USE DEF session, plan, ledger
<1>1. CASE UNCHANGED vars \/ Advance \/ Settle \/ Escalate \/ ApproveSpecLock
             \/ ApproveVerifyAccept \/ GateReject
  BY <1>1 DEF vars, Advance, Settle, MoveTo, Escalate, ApproveSpecLock, ApproveVerifyAccept, GateReject
<1>2. CASE SpecSubmit \/ SpecEdit \/ SpecAdd
  BY <1>2 DEF SpecSubmit, SpecEdit, SpecAdd, Respecified
<1>3. CASE TasksSubmit \/ TasksAdd \/ TasksAddSponsored \/ TasksAmendSponsored \/ TasksAmendPolicy
  BY <1>3, SubmitRegraphs, AddRegraphs, AddSponsoredRegraphs, AmendSponsoredRegraphs,
     AmendPolicyRegraphs
<1>4. CASE Claim \/ AbandonTask \/ StepStart \/ StepDone \/ RegisterRed \/ RaiseFix
  BY <1>4, ClaimWorks, AbandonWorks, StartWorks, DoneWorks, RedWorks, FixWorks
<1>5. CASE EvidenceAdd \/ Waive \/ RaiseLone \/ RaiseAmend \/ FindingClose
  BY <1>5 DEF EvidenceAdd, Waive, RaiseLone, RaiseAmend, FindingClose
<1>6. CASE PendingRaise \/ PendingResolve \/ LessonAdd
  BY <1>6 DEF PendingRaise, PendingResolve, LessonAdd
<1>7. CASE Deliver \/ Archive \/ AbandonSession \/ SpikeConvert
  BY <1>7 DEF Deliver, Archive, AbandonSession, SpikeConvert, EndAt
<1> QED
  BY <1>1, <1>2, <1>3, <1>4, <1>5, <1>6, <1>7 DEF Next

LEMMA TaskInvStep ==
  ASSUME TaskInv, findings \in Seq(Finding), inputs \in Scenarios, [Next]_vars
  PROVE  TaskInv'
<1>1. CASE UNCHANGED <<tasks, issued>>
  BY <1>1 DEF TaskInv
<1>2. CASE Regraphs
  BY <1>2 DEF Regraphs
<1>3. ASSUME NEW t \in DOMAIN tasks, Works(t) PROVE TaskInv'
  <2>1. DOMAIN tasks' = DOMAIN tasks /\ \A x \in DOMAIN tasks \ {t} : tasks'[x] = tasks[x]
    BY <1>3 DEF Works
  <2>2. \A x \in DOMAIN tasks : tasks'[x] \in Task /\ WellFormed(tasks'[x])
    BY <1>3, <2>1 DEF Works, TaskInv
  <2>3. tasks' \in [DOMAIN tasks' -> Task]
    BY <1>3, <2>1, <2>2 DEF Works
  <2> QED
    BY <1>3, <2>1, <2>2, <2>3 DEF Works, TaskInv
<1> QED
  BY <1>1, <1>2, <1>3, TaskSteps

\* What waits, what was found and what was proved.
LedgerInv ==
  /\ inputs \in Scenarios
  /\ ceremony \in CeremonyShape
  /\ {lessons, basedOn} \subseteq Nat
  /\ \A e \in evidence : EvidenceAdmitted(e)
  /\ findings \in Seq(Finding)
  /\ pending \in Seq(PendingKinds)

LEMMA LedgerShape ==
  ASSUME inputs \in Scenarios
  PROVE  /\ inputs.profile \in DOMAIN Presets
         /\ inputs.escalations \subseteq CeremonyShape
         /\ \A e \in inputs.evidence : EvidenceAdmitted(e)
         /\ \A r \in inputs.raises : r.action \in Actions /\ r.target \in Target
         /\ \A w \in inputs.waivers : w.items \subseteq ItemIds /\ w.tasks \subseteq Nat
         /\ inputs.prompts \subseteq PendingKinds
BY ScenariosAssumption DEF IsScenario

LEMMA WaiverAdmitted ==
  ASSUME NEW items \in SUBSET ItemIds, NEW of \in SUBSET Nat
  PROVE  EvidenceAdmitted(Waiver(items, of, "human"))
BY DEF Waiver, EvidenceAdmitted, IsEvidence, Human, EvidenceKinds, EvidenceResults, Checks

LEMMA LedgerSteps ==
  ASSUME inputs \in Scenarios, [Next]_vars
  PROVE  /\ inputs' = inputs
         /\ ceremony' \in {ceremony} \cup inputs.escalations
         /\ lessons' \in {lessons, lessons + 1}
         /\ \/ evidence' = evidence
            \/ \E e : EvidenceAdmitted(e) /\ evidence' = evidence \cup {e}
         /\ \/ findings' = findings
            \/ \E input \in inputs.raises : findings' = Append(findings, Raised(input))
            \/ \E f \in DOMAIN findings : Closable(findings, f) /\ findings' = Closed(findings, f)
         /\ \/ pending' = pending
            \/ pending # <<>> /\ pending' = Tail(pending)
            \/ \E kind \in inputs.prompts : pending' = Append(pending, kind)
<1> USE DEF session, plan, ledger
<1>1. CASE UNCHANGED vars \/ Advance \/ Settle \/ Escalate \/ ApproveSpecLock
             \/ ApproveVerifyAccept \/ GateReject
  BY <1>1 DEF vars, Advance, Settle, MoveTo, Escalate, ApproveSpecLock, ApproveVerifyAccept,
              GateReject, Answered, AfterHead
<1>2. CASE SpecSubmit \/ SpecEdit \/ SpecAdd
  BY <1>2 DEF SpecSubmit, SpecEdit, SpecAdd, Respecified
<1>3. CASE TasksSubmit \/ TasksAdd \/ TasksAddSponsored \/ TasksAmendSponsored \/ TasksAmendPolicy
  BY <1>3 DEF TasksSubmit, TasksAdd, TasksAddSponsored, TasksAmendSponsored, TasksAmendPolicy
<1>4. CASE Claim \/ AbandonTask \/ StepStart \/ RegisterRed
  BY <1>4 DEF Claim, AbandonTask, StepStart, RegisterRed, Working
<1>5. CASE StepDone \/ EvidenceAdd
  BY <1>5, LedgerShape DEF StepDone, Working, EvidenceAdd, Recorded
<1>6. CASE Waive
  <2>1. PICK w \in inputs.waivers :
          evidence' = evidence \cup {Waiver(w.items, w.tasks, "human")}
          /\ UNCHANGED <<session, findings, pending, inputs>>
    BY <1>6 DEF Waive, Recorded
  <2>2. EvidenceAdmitted(Waiver(w.items, w.tasks, "human"))
    BY LedgerShape, WaiverAdmitted
  <2> QED
    BY <2>1, <2>2
<1>7. CASE RaiseLone \/ RaiseAmend \/ RaiseFix
  BY <1>7 DEF RaiseLone, RaiseAmend, RaiseFix, RaiseEntry, GoBack
<1>8. CASE FindingClose
  BY <1>8 DEF FindingClose
<1>9. CASE PendingRaise \/ PendingResolve \/ LessonAdd
  BY <1>9 DEF PendingRaise, PendingResolve, LessonAdd, Answered
<1>10. CASE Deliver \/ Archive \/ AbandonSession \/ SpikeConvert
  BY <1>10 DEF Deliver, Archive, AbandonSession, SpikeConvert, EndAt
<1> QED
  BY <1>1, <1>2, <1>3, <1>4, <1>5, <1>6, <1>7, <1>8, <1>9, <1>10 DEF Next

LEMMA LedgerStep ==
  ASSUME SpecInv, LedgerInv, [Next]_vars
  PROVE  LedgerInv'
<1>1. inputs \in Scenarios /\ spec \in SpecShape
  BY DEF LedgerInv, SpecInv
<1>2. inputs' \in Scenarios /\ ceremony' \in CeremonyShape /\ lessons' \in Nat
  BY <1>1, LedgerSteps, LedgerShape DEF LedgerInv
<1>3. basedOn' \in Nat
  BY <1>1, PlanStep DEF LedgerInv, Replans, SpecShape
<1>4. \A e \in evidence' : EvidenceAdmitted(e)
  BY <1>1, LedgerSteps DEF LedgerInv
<1>5. findings' \in Seq(Finding)
  <2>1. ASSUME NEW input \in inputs.raises PROVE Raised(input) \in Finding
    BY <1>1, LedgerShape DEF Raised, Finding
  <2>2. ASSUME NEW f \in DOMAIN findings PROVE Closed(findings, f) \in Seq(Finding)
    <3>1. findings \in [1..Len(findings) -> Finding] /\ Len(findings) \in Nat
      BY DEF LedgerInv
    <3>2. [findings[f] EXCEPT !.status = "closed"] \in Finding
      BY <3>1 DEF Finding
    <3>3. Closed(findings, f) \in [1..Len(findings) -> Finding]
      BY <3>1, <3>2 DEF Closed
    <3> QED
      BY <3>1, <3>3
  <2>3. CASE findings' = findings
    BY <2>3 DEF LedgerInv
  <2>4. ASSUME NEW input \in inputs.raises, findings' = Append(findings, Raised(input))
        PROVE  findings' \in Seq(Finding)
    BY <2>1, <2>4 DEF LedgerInv
  <2>5. ASSUME NEW f \in DOMAIN findings, findings' = Closed(findings, f)
        PROVE  findings' \in Seq(Finding)
    BY <2>2, <2>5
  <2> QED
    BY <1>1, <2>3, <2>4, <2>5, LedgerSteps
<1>6. pending' \in Seq(PendingKinds)
  <2>1. pending \in Seq(PendingKinds)
    BY DEF LedgerInv
  <2>2. CASE pending # <<>> /\ pending' = Tail(pending)
    BY <2>1, <2>2
  <2>3. ASSUME NEW kind \in inputs.prompts, pending' = Append(pending, kind)
        PROVE  pending' \in Seq(PendingKinds)
    <3>1. kind \in PendingKinds
      BY <1>1, LedgerShape
    <3> QED
      BY <2>1, <2>3, <3>1
  <2> QED
    BY <1>1, <2>1, <2>2, <2>3, LedgerSteps
<1> QED
  BY <1>2, <1>3, <1>4, <1>5, <1>6 DEF LedgerInv

\* The types of a session: what the three parts say together.
SessionInv == SpecInv /\ TaskInv /\ LedgerInv

LEMMA SessionInit == Init => SessionInv
<1> SUFFICES ASSUME Init PROVE SessionInv
  OBVIOUS
<1>1. Presets[inputs.profile] \in CeremonyShape
  <2>1. inputs.profile \in DOMAIN Presets
    BY LedgerShape DEF Init
  <2>2. \A p \in DOMAIN Presets : Presets[p] \in CeremonyShape
    <3>1. Presets.quick \in CeremonyShape /\ Presets.light \in CeremonyShape
          /\ Presets.standard \in CeremonyShape /\ Presets.deep \in CeremonyShape
      BY DEF Presets, Ceremony, CeremonyShape
    <3>2. DOMAIN Presets = {"quick", "light", "standard", "deep"}
      BY DEF Presets
    <3> QED
      BY <3>1, <3>2
  <2> QED
    BY <2>1, <2>2
<1>2. LedgerInv
  BY <1>1 DEF Init, LedgerInv
<1>3. TaskInv
  BY DEF Init, TaskInv
<1> QED
  BY <1>2, <1>3, SpecInit DEF SessionInv

LEMMA SessionInvStep == SessionInv /\ [Next]_vars => SessionInv'
BY SpecStep, TaskInvStep, LedgerStep DEF SessionInv, LedgerInv

THEOREM SessionInvHolds == Spec => []SessionInv
<1> QED
  BY SessionInit, SessionInvStep, PTL DEF Spec

\* Whatever is brought to a session, its snapshot is one that the schemas admit,
\* and no task has an id that was never given out.
THEOREM TypesHold == Spec => []TypeOK
<1>1. SessionInv => TypeOK
  BY DEF SessionInv, SpecInv, TaskInv, LedgerInv, TypeOK
<1> QED
  BY <1>1, SessionInvHolds, PTL

-----------------------------------------------------------------------------
(* What may change of the graph, and when. *)

LEMMA WorkedDomain ==
  ASSUME NEW t \in DOMAIN tasks, Works(t)
  PROVE  DOMAIN tasks' = DOMAIN tasks /\ \A x \in DOMAIN tasks \ {t} : tasks'[x] = tasks[x]
BY DEF Works

LEMMA NewIds ==
  ASSUME SessionInv, [Next]_vars
  PROVE  DOMAIN tasks' \ DOMAIN tasks = (issued + 1)..issued'
<1>1. issued \in Nat /\ (issued + 1)..issued = {}
  BY DEF SessionInv, TaskInv
<1>2. CASE UNCHANGED <<tasks, issued>>
  BY <1>1, <1>2
<1>3. CASE Regraphs
  BY <1>3 DEF Regraphs
<1>4. ASSUME NEW t \in DOMAIN tasks, Works(t)
      PROVE  DOMAIN tasks' \ DOMAIN tasks = (issued + 1)..issued'
  <2>1. issued' = issued
    BY <1>4 DEF Works
  <2> QED
    BY <1>1, <1>4, <2>1, WorkedDomain
<1> QED
  BY <1>2, <1>3, <1>4, TaskSteps DEF SessionInv, LedgerInv

\* No plan, new plan or addition gives a task an id that another one ever had.
THEOREM IdsAreFresh == Spec => IdsNeverReused
<1>1. SessionInv /\ [Next]_vars => [DOMAIN tasks' \ DOMAIN tasks = (issued + 1)..issued']_vars
  BY NewIds
<1> QED
  BY <1>1, SessionInvHolds, PTL DEF Spec, IdsNeverReused

\* A task of both graphs is kept by every command but one step of its own life.
LEMMA Retained ==
  ASSUME SessionInv, [Next]_vars, NEW t \in DOMAIN tasks \cap DOMAIN tasks'
  PROVE  Kept(tasks'[t], tasks[t]) \/ Works(t)
<1>1. Kept(tasks[t], tasks[t])
  BY DEF Kept, SameBody
<1>2. CASE Regraphs
  BY <1>2 DEF Regraphs
<1>3. ASSUME NEW x \in DOMAIN tasks, Works(x) PROVE Kept(tasks'[t], tasks[t]) \/ Works(t)
  BY <1>1, <1>3, WorkedDomain
<1> QED
  BY <1>1, <1>2, <1>3, TaskSteps DEF SessionInv, LedgerInv

LEMMA ReopenStep ==
  ASSUME SessionInv, [Next]_vars, NEW t \in DOMAIN tasks \cap DOMAIN tasks',
         tasks[t].status \in Final, tasks'[t].status # tasks[t].status
  PROVE  /\ tasks[t].status = "done"
         /\ Len(findings') > Len(findings)
         /\ Sponsors(findings', Len(findings'), FixActions)
         /\ findings'[Len(findings')].target.task = t
<1>1. Works(t)
  BY Retained DEF Kept
<1>2. /\ tasks[t].status # "abandoned"
      /\ Sponsors(findings', Len(findings'), FixActions)
      /\ findings'[Len(findings')].target.task = t
      /\ \E input \in inputs.raises : findings' = Append(findings, Raised(input))
  BY <1>1 DEF Works, Moves, Claimable, CanAbandon, Final
<1>3. findings \in Seq(Finding)
  BY DEF SessionInv, LedgerInv
<1>4. Len(findings') > Len(findings)
  BY <1>2, <1>3
<1> QED
  BY <1>2, <1>4 DEF Final

\* Final work comes back only by a fix finding that names it.
THEOREM OnlyFixesReopen == Spec => ReopenedBySponsor
<1>1. SessionInv /\ [Next]_vars =>
        [ \A t \in DOMAIN tasks \cap DOMAIN tasks' :
            tasks[t].status \in Final /\ tasks'[t].status # tasks[t].status =>
              /\ tasks[t].status = "done"
              /\ Len(findings') > Len(findings)
              /\ Sponsors(findings', Len(findings'), FixActions)
              /\ findings'[Len(findings')].target.task = t ]_vars
  BY ReopenStep
<1> QED
  BY <1>1, SessionInvHolds, PTL DEF Spec, ReopenedBySponsor

LEMMA ProgressStep ==
  ASSUME SessionInv, [Next]_vars, NEW t \in DOMAIN tasks \cap DOMAIN tasks',
         tasks[t].kind # tasks'[t].kind \/ tasks[t].deps # tasks'[t].deps
           \/ tasks[t].drives # tasks'[t].drives,
         NEW s \in DOMAIN tasks[t].steps, tasks[t].steps[s].status # "pending"
  PROVE  s \in DOMAIN tasks'[t].steps /\ tasks'[t].steps[s] = tasks[t].steps[s]
<1>1. ~SameBody(tasks'[t], tasks[t])
  BY DEF SameBody
<1>2. Kept(tasks'[t], tasks[t])
  BY <1>1, Retained DEF Works
<1> QED
  BY <1>1, <1>2 DEF Kept

\* Whatever an amendment makes of a task, the steps that have begun stay.
THEOREM ProgressIsKept == Spec => ProgressKept
<1>1. SessionInv /\ [Next]_vars =>
        [ \A t \in DOMAIN tasks \cap DOMAIN tasks' :
            tasks[t].kind # tasks'[t].kind \/ tasks[t].deps # tasks'[t].deps
              \/ tasks[t].drives # tasks'[t].drives =>
                \A s \in DOMAIN tasks[t].steps :
                  tasks[t].steps[s].status # "pending" =>
                    s \in DOMAIN tasks'[t].steps /\ tasks'[t].steps[s] = tasks[t].steps[s] ]_vars
  BY ProgressStep
<1> QED
  BY <1>1, SessionInvHolds, PTL DEF Spec, ProgressKept

LEMMA FrozenStep ==
  ASSUME SessionInv, [Next]_vars, cursor = "EXECUTE.work",
         [t \in DOMAIN tasks |-> Definition(tasks[t])]
           # [t \in DOMAIN tasks' |-> Definition(tasks'[t])]
  PROVE  \E f \in DOMAIN findings :
           findings[f].action = "amend-tasks" /\ findings[f].status = "open"
<1>1. CASE UNCHANGED <<tasks, issued>>
  BY <1>1
<1>2. CASE Regraphs
  BY <1>2 DEF Regraphs, Sponsors
<1>3. ASSUME NEW t \in DOMAIN tasks, Works(t) PROVE FALSE
  <2>1. Definition(tasks'[t]) = Definition(tasks[t])
    BY <1>3 DEF Works, Definition, SameBody, SameNeeds
  <2>2. DOMAIN tasks' = DOMAIN tasks
        /\ \A x \in DOMAIN tasks : Definition(tasks'[x]) = Definition(tasks[x])
    BY <1>3, <2>1, WorkedDomain
  <2> QED
    BY <2>2
<1> QED
  BY <1>1, <1>2, <1>3, TaskSteps DEF SessionInv, LedgerInv

\* While the work goes on the graph changes only under an open finding.
THEOREM WorkOnFrozenGraph == Spec => GraphFrozenInWork
<1>1. SessionInv /\ [Next]_vars =>
        [ cursor = "EXECUTE.work"
          /\ [t \in DOMAIN tasks |-> Definition(tasks[t])]
               # [t \in DOMAIN tasks' |-> Definition(tasks'[t])]
          => \E f \in DOMAIN findings :
               findings[f].action = "amend-tasks" /\ findings[f].status = "open" ]_vars
  BY FrozenStep
<1> QED
  BY <1>1, SessionInvHolds, PTL DEF Spec, GraphFrozenInWork

-----------------------------------------------------------------------------
(* Some order of work always exists.                                       *)

GraphInv == GraphStaysAcyclic /\ AbandonedDepsOnlyUnderReopened

\* A step in the life of a task leaves every dependency where it is.
LEMMA WorksDeps ==
  ASSUME SessionInv, GraphInv, NEW t \in DOMAIN tasks, Works(t)
  PROVE  GraphInv'
<1>1. DOMAIN tasks' = DOMAIN tasks /\ \A x \in DOMAIN tasks \ {t} : tasks'[x] = tasks[x]
  BY WorkedDomain
<1>2. \A x \in DOMAIN tasks : tasks'[x].deps = tasks[x].deps
  BY <1>1 DEF Works, SameBody
<1>3. GraphStaysAcyclic'
  <2>1. DepsExist(tasks')
    BY <1>1, <1>2 DEF GraphInv, GraphStaysAcyclic, DepsExist
  <2>2. ASSUME NEW S \in SUBSET DOMAIN tasks', S # {}
        PROVE  \E x \in S : tasks'[x].deps \cap S = {}
    <3>1. PICK x \in S : tasks[x].deps \cap S = {}
      BY <1>1, <2>2 DEF GraphInv, GraphStaysAcyclic, Acyclic
    <3> QED
      BY <1>1, <1>2, <3>1
  <2> QED
    BY <2>1, <2>2 DEF GraphStaysAcyclic, Acyclic
<1>4. ASSUME NEW x \in DOMAIN tasks', tasks'[x].status \notin Final,
             NEW d \in tasks'[x].deps, tasks'[d].status = "abandoned"
      PROVE  tasks'[x].status = "in_progress"
  <2>1. x \in DOMAIN tasks /\ d \in tasks[x].deps /\ d \in DOMAIN tasks
    BY <1>1, <1>2, <1>4 DEF GraphInv, GraphStaysAcyclic, DepsExist
  <2>2. CASE x = t
    BY <1>4, <2>2 DEF Works, Moves, Final
  <2>3. CASE x # t
    <3>1. tasks'[x].status = tasks[x].status /\ tasks[x].status \notin Final
      BY <1>1, <1>4, <2>1, <2>3
    <3>2. CASE d = t
      <4>1. Moves(t, "abandoned")
        BY <1>4, <3>2 DEF Works
      <4>2. CanAbandon(tasks, t)
        BY <4>1 DEF Moves
      <4> QED
        BY <2>1, <3>1, <3>2, <4>2 DEF CanAbandon
    <3>3. CASE d # t
      <4>1. tasks[d].status = "abandoned"
        BY <1>1, <1>4, <2>1, <3>3
      <4> QED
        BY <2>1, <3>1, <4>1 DEF GraphInv, AbandonedDepsOnlyUnderReopened
    <3> QED
      BY <3>2, <3>3
  <2> QED
    BY <2>2, <2>3
<1> QED
  BY <1>3, <1>4 DEF GraphInv, AbandonedDepsOnlyUnderReopened

LEMMA GraphStep ==
  ASSUME SessionInv, GraphInv, [Next]_vars
  PROVE  GraphInv'
<1>1. CASE UNCHANGED <<tasks, issued>>
  BY <1>1 DEF GraphInv, GraphStaysAcyclic, AbandonedDepsOnlyUnderReopened
<1>2. CASE Regraphs
  BY <1>2 DEF Regraphs, CheckTaskGraph, NoAbandonedDeps, DepsExist, GraphInv, GraphStaysAcyclic,
              AbandonedDepsOnlyUnderReopened
<1> QED
  BY <1>1, <1>2, WorksDeps, TaskSteps DEF SessionInv, LedgerInv

LEMMA GraphInit == Init => GraphInv
BY DEF Init, GraphInv, GraphStaysAcyclic, DepsExist, Acyclic, AbandonedDepsOnlyUnderReopened

LEMMA GraphInvHolds == Spec => []GraphInv
<1>1. SessionInv /\ GraphInv /\ [Next]_vars => GraphInv'
  BY GraphStep
<1> QED
  BY <1>1, GraphInit, SessionInvHolds, PTL DEF Spec

\* No plan, addition or amendment leaves a cycle or a dependency on nothing.
THEOREM GraphIsAcyclic == Spec => []GraphStaysAcyclic
<1>1. GraphInv => GraphStaysAcyclic
  BY DEF GraphInv
<1> QED
  BY <1>1, GraphInvHolds, PTL

\* Only reopened work may wait for an abandoned task.
THEOREM AbandonedDepsAreReopened == Spec => []AbandonedDepsOnlyUnderReopened
<1>1. GraphInv => AbandonedDepsOnlyUnderReopened
  BY DEF GraphInv
<1> QED
  BY <1>1, GraphInvHolds, PTL

\* The unfinished tasks are a set, in which one waits for none of the others. If
\* that one is not being worked on, all it waits for is done.
LEMMA NeverStuck ==
  ASSUME SessionInv, GraphInv
  PROVE  WorkNeverStuck
<1> DEFINE S == {t \in DOMAIN tasks : tasks[t].status \notin Final}
<1>1. SUFFICES ASSUME S # {}, \A t \in DOMAIN tasks : tasks[t].status # "in_progress"
               PROVE  NextReady # {}
  BY DEF WorkNeverStuck
<1>2. PICK t \in S : tasks[t].deps \cap S = {}
  BY <1>1 DEF GraphInv, GraphStaysAcyclic, Acyclic
<1>3. \A d \in tasks[t].deps : d \in DOMAIN tasks /\ tasks[d].status \in Final
  BY <1>2 DEF GraphInv, GraphStaysAcyclic, DepsExist
<1>4. \A d \in tasks[t].deps : tasks[d].status # "abandoned"
  BY <1>1, <1>2 DEF GraphInv, AbandonedDepsOnlyUnderReopened
<1>5. DepsDone(tasks, t)
  BY <1>3, <1>4 DEF DepsDone, Final
<1>6. tasks[t].status \in {"pending", "ready"}
  <2>1. tasks[t] \in Task
    BY <1>2 DEF SessionInv, TaskInv
  <2> QED
    BY <1>1, <1>2, <2>1, TaskElim DEF IsTask, TaskStatus, Final
<1> QED
  BY <1>2, <1>5, <1>6 DEF NextReady

\* For any graph, any amendment and any way back: as long as something is
\* unfinished, something can be worked on.
THEOREM SomethingToDo == Spec => []WorkNeverStuck
<1>1. SessionInv /\ GraphInv => WorkNeverStuck
  BY NeverStuck
<1> QED
  BY <1>1, SessionInvHolds, GraphInvHolds, PTL
=============================================================================

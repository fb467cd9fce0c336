----------------------------- MODULE TaskGraph -----------------------------
(***************************************************************************)
(* The tasks of a feature: what a task is, how inputs become tasks with    *)
(* ids, what a dependency graph must satisfy, what an amendment may change *)
(* and what each step of a task's life requires. Operators only: Workflow  *)
(* holds the tasks. A task id T-007 is the number 7.                       *)
(***************************************************************************)
EXTENDS Naturals, Sequences, FiniteSets

CONSTANT ItemIds  \* ids that requirements, scenarios and visuals may have

TaskKinds == {"behavioral", "structural", "visual-ui", "docs", "spike", "chore"}

Steps == {"red", "implement", "refactor", "mockup", "screenshot-compare", "draft",
          "review", "explore", "prototype", "record", "execute"}

\* KIND_EXECUTION_STEPS
StepsOf(kind) ==
  CASE kind = "behavioral" -> {"red", "implement", "refactor"}
    [] kind = "structural" -> {"implement", "refactor"}
    [] kind = "visual-ui" -> {"mockup", "implement", "screenshot-compare"}
    [] kind = "docs" -> {"draft", "review"}
    [] kind = "spike" -> {"explore", "prototype", "record"}
    [] kind = "chore" -> {"execute"}

TaskStatus == {"pending", "ready", "in_progress", "done", "abandoned"}
Final == {"done", "abandoned"}
StepStatus == {"pending", "running", "passed", "failed", "waived", "na"}
Needs == {"must", "optional", "na"}  \* a step's applicability
Results == {"passed", "failed", "waived", "na"}  \* of a step that is done

Step == [need : Needs, status : StepStatus]

\* What the snapshot keeps of a task, and `shown`: the steps to which the last
\* body of the task in the journal gives a status other than pending.
Task ==
  {t \in [kind : TaskKinds, bug : BOOLEAN, drives : SUBSET ItemIds, acceptance : BOOLEAN,
          visuals : SUBSET ItemIds, deps : SUBSET Nat, status : TaskStatus,
          steps : UNION {[StepsOf(k) -> Step] : k \in TaskKinds}, red : BOOLEAN,
          shown : SUBSET Steps] :
     DOMAIN t.steps = StepsOf(t.kind)}

\* TaskAuthoringInput: dependencies are other inputs of the same call (`local`)
\* or existing tasks (`onto`); `policy` narrows the need of some steps.
IsTaskInput(i) ==
  /\ i.kind \in TaskKinds
  /\ i.bug \in BOOLEAN
  /\ i.drives \subseteq ItemIds
  /\ i.visuals \subseteq ItemIds
  /\ i.acceptance \in BOOLEAN
  /\ i.local \subseteq Nat
  /\ i.onto \subseteq Nat
  /\ DOMAIN i.policy \subseteq StepsOf(i.kind)
  /\ \A s \in DOMAIN i.policy : i.policy[s] \in Needs
  /\ i.kind = "behavioral" => i.drives # {}
  /\ i.acceptance => i.kind = "behavioral"
  /\ i.visuals # {} <=> i.kind = "visual-ui"

\* TaskInput, what `tasks amend --input` takes: a body, without policy or local key.
IsAmendInput(i) == IsTaskInput(i) /\ DOMAIN i.policy = {} /\ i.local = {}

-----------------------------------------------------------------------------
\* materializeTaskInput, with the step policy of the authoring input.
NewTask(input, deps) ==
  [kind |-> input.kind, bug |-> input.bug, drives |-> input.drives,
   acceptance |-> input.acceptance, visuals |-> input.visuals, deps |-> deps,
   status |-> "pending",
   steps |-> [s \in StepsOf(input.kind) |->
                [need |-> IF s \in DOMAIN input.policy THEN input.policy[s] ELSE "must",
                 status |-> "pending"]],
   red |-> FALSE, shown |-> {}]

\* Mutant: ids go on from the number of tasks in the graph.
LastId_OfGraph(tasks, issued) == Cardinality(DOMAIN tasks)

\* collectOccupiedTaskIds and maxTaskSerial: the highest id that any task ever
\* had, whether or not it is still in the graph.
LastId(tasks, issued) == issued

\* Mutant: the first new id is the last one given out.
Allocated_FromLast(inputs, last) ==
  [t \in last..(last + Len(inputs) - 1) |->
     NewTask(inputs[t - last + 1],
             inputs[t - last + 1].onto \cup {last + k - 1 : k \in inputs[t - last + 1].local})]

\* allocateTaskAuthoringInputs: every id first, then the dependencies.
Allocated(inputs, last) ==
  [t \in (last + 1)..(last + Len(inputs)) |->
     NewTask(inputs[t - last],
             inputs[t - last].onto \cup {last + k : k \in inputs[t - last].local})]

Added(tasks, more) ==
  [t \in DOMAIN tasks \cup DOMAIN more |-> IF t \in DOMAIN more THEN more[t] ELSE tasks[t]]

\* extractTaskSteps of a body that is journalled again: its statuses are shown.
Reissued(task) ==
  [task EXCEPT !.shown = {s \in DOMAIN task.steps : task.steps[s].status # "pending"}]

-----------------------------------------------------------------------------
\* areTaskDependenciesSatisfied
DepsDone(tasks, t) ==
  \A d \in tasks[t].deps : d \in DOMAIN tasks /\ tasks[d].status = "done"

DepsExist(tasks) == \A t \in DOMAIN tasks : tasks[t].deps \subseteq DOMAIN tasks

\* No dependency on oneself, no cycle: the depth-first search finds a back edge
\* exactly if there is a set of tasks in which everyone depends on a member.
Acyclic(tasks) ==
  \A S \in SUBSET DOMAIN tasks : S = {} \/ \E t \in S : tasks[t].deps \cap S = {}

NoAbandonedDeps(tasks) ==
  \A t \in DOMAIN tasks :
    tasks[t].status \notin Final =>
      \A d \in tasks[t].deps : d \in DOMAIN tasks => tasks[d].status # "abandoned"

\* Mutant: only a dependency on oneself is looked for.
CheckTaskGraph_SelfOnly(tasks) ==
  DepsExist(tasks) /\ (\A t \in DOMAIN tasks : t \notin tasks[t].deps) /\ NoAbandonedDeps(tasks)

\* Mutant: a new task may wait for an abandoned one.
CheckTaskGraph_AnyStatus(tasks) == DepsExist(tasks) /\ Acyclic(tasks)

CheckTaskGraph(tasks) == DepsExist(tasks) /\ Acyclic(tasks) /\ NoAbandonedDeps(tasks)

-----------------------------------------------------------------------------
\* materializeTaskForAmend with the policy of `tasks amend --policy`.
Narrowed(task, policy) ==
  Reissued([task EXCEPT !.steps =
    [s \in DOMAIN task.steps |->
       IF s \in DOMAIN policy THEN [task.steps[s] EXCEPT !.need = policy[s]] ELSE task.steps[s]]])

\* firstFrozenViolation finds nothing: in EXECUTE.plan only needs may change.
PlanFrozen(current, incoming) ==
  /\ \/ incoming.status = current.status
     \/ current.status = "pending" /\ incoming.status = "ready"
  /\ \A f \in {"kind", "drives", "deps", "bug", "visuals", "red", "acceptance"} :
       incoming[f] = current[f]
  /\ DOMAIN incoming.steps = DOMAIN current.steps
  /\ \A s \in DOMAIN current.steps : incoming.steps[s].status = current.steps[s].status

\* `tasks amend --input`: a fresh body under the old id, over which the live
\* status, the red registration and the retained steps are laid.
Replacement(current, input) ==
  LET fresh == NewTask(input, input.onto)
  IN  Reissued([fresh EXCEPT
        !.status = current.status,
        !.red = current.red,
        !.steps = [s \in DOMAIN fresh.steps |->
                     IF s \in DOMAIN current.steps THEN current.steps[s] ELSE fresh.steps[s]]])

\* Mutant: only the steps that the new kind has as well are compared.
ProgressFrozen_RetainedOnly(current, incoming) ==
  /\ incoming.status = current.status
  /\ \A s \in DOMAIN current.steps \cap DOMAIN incoming.steps :
       incoming.steps[s].status = current.steps[s].status

\* firstSponsoredFrozenViolation finds nothing: progress stays what it is.
ProgressFrozen(current, incoming) ==
  /\ incoming.status = current.status
  /\ \A s \in DOMAIN current.steps :
       IF s \in DOMAIN incoming.steps
       THEN incoming.steps[s].status = current.steps[s].status
       ELSE current.steps[s].status = "pending"
  /\ \A s \in DOMAIN incoming.steps \ DOMAIN current.steps :
       incoming.steps[s].status = "pending"

\* firstAddFreshnessViolation finds nothing.
FreshTask(task) ==
  /\ task.status = "pending"
  /\ ~task.red
  /\ \A s \in DOMAIN task.steps : task.steps[s].status = "pending"

\* The red registration belongs to behavioral tasks: another kind's strict
\* payload has no such field.
WellFormed(task) == task.red => task.kind = "behavioral"

\* What the command checks before the entry is judged: no step that the last
\* journalled body shows as begun is dropped.
KeepsShown(current, incoming) == current.shown \subseteq DOMAIN incoming.steps

-----------------------------------------------------------------------------
\* shouldPromoteToDone
Promotes(steps) ==
  LET musts == {s \in DOMAIN steps : steps[s].need = "must"}
  IN  musts # {} /\ \A s \in musts : steps[s].status \in {"passed", "waived", "na"}

\* Mutant: whatever nobody works on can be claimed.
Claimable_Final(tasks, t) ==
  t \in DOMAIN tasks /\ tasks[t].status # "in_progress" /\ DepsDone(tasks, t)

\* event:task_claimed
Claimable(tasks, t) ==
  /\ t \in DOMAIN tasks
  /\ tasks[t].status \in {"pending", "ready"}
  /\ DepsDone(tasks, t)

\* A bug is not fixed before its red test is registered.
NeedsRed(task, step) ==
  step = "implement" /\ task.kind = "behavioral" /\ task.bug /\ ~task.red

\* event:task_step_started and event:task_step_done
CanWork(tasks, t, step) ==
  /\ t \in DOMAIN tasks
  /\ tasks[t].status = "in_progress"
  /\ step \in DOMAIN tasks[t].steps
  /\ ~NeedsRed(tasks[t], step)

\* A step's result may carry the red registration.
CanRegisterRed(task, step, result) ==
  step = "red" /\ task.kind = "behavioral" /\ task.bug /\ result \in {"passed", "waived"}

\* Mutant: nobody asks who depends on the task.
CanAbandon_Alone(tasks, t) == t \in DOMAIN tasks /\ tasks[t].status \notin Final

\* event:task_abandoned
CanAbandon(tasks, t) ==
  /\ t \in DOMAIN tasks
  /\ tasks[t].status \notin Final
  /\ \A d \in DOMAIN tasks : t \in tasks[d].deps => tasks[d].status \in Final

Claimed(task) == [task EXCEPT !.status = "in_progress"]

Abandoned(task) == [task EXCEPT !.status = "abandoned"]

Started(task, step) == [task EXCEPT !.steps[step].status = "running"]

\* event:task_step_done: the last must step that is settled completes the task.
Finished(task, step, result, red) ==
  LET steps == [task.steps EXCEPT ![step].status = result]
  IN  [task EXCEPT !.steps = steps,
                   !.red = task.red \/ red,
                   !.status = IF Promotes(steps) THEN "done" ELSE task.status]

\* event:task_step_reset reopens a task, whatever its status.
Reopened(task, step) ==
  [task EXCEPT !.steps[step].status = "pending", !.status = "in_progress"]
=============================================================================

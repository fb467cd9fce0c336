------------------------------ MODULE Workflow ------------------------------
(***************************************************************************)
(* One session from `loaf start` to its end: the snapshot that the journal *)
(* replays to, and one action per command that writes to it. An action is  *)
(* the whole batch the command writes, with the admission of each of its   *)
(* entries on the snapshot that the entries before it left.                *)
(*                                                                         *)
(* Texts, timestamps and ids of evidence are left out. Which command comes *)
(* next is the agent's and the user's choice; a Scenario bounds what they  *)
(* may bring. The lease serialises the commands (FeatureLease), and a      *)
(* batch lands whole, behind the snapshot it was judged on (FeatureStore). *)
(***************************************************************************)
EXTENDS Gates

CONSTANT Scenarios  \* what agents and users may bring to a session

VARIABLES
  cursor,     \* sub_state
  ceremony,
  locked,     \* spec_locked
  accepted,   \* verify_accepted
  iteration,
  lessons,    \* lesson_count
  spec,       \* spec_version, requirements, scenarios, visual contracts
  tasks,      \* the tasks by id
  basedOn,    \* tasks_based_on.spec, 0 for null
  issued,     \* how many task ids the journal ever gave out
  evidence,
  findings,
  pending,    \* kinds of the live decisions, in order
  inputs      \* the scenario

session == <<cursor, ceremony, locked, accepted, iteration, lessons>>
plan == <<spec, tasks, basedOn, issued>>
ledger == <<evidence, findings, pending>>
vars == <<session, plan, ledger, inputs>>

-----------------------------------------------------------------------------
(* Bounds and inputs of a scenario. Every limit is named after what it     *)
(* bounds: task ids, findings, waiting decisions, spec versions, lessons.  *)

Content == {c \in [items : SUBSET Item, unclear : BOOLEAN] :
              \A i, j \in c.items : i.id = j.id => i = j}

\* What the snapshot keeps of a finding.
Target == [task : Nat, step : Steps \cup {"none"}]
Finding == [action : Actions, target : Target, status : {"open", "closed"}]

IsPlan(p) ==
  /\ DOMAIN p = 1..Len(p)
  /\ p # <<>>
  /\ \A k \in DOMAIN p : IsTaskInput(p[k]) /\ p[k].local \subseteq DOMAIN p

IsScenario(s) ==
  /\ s.profile \in DOMAIN Presets
  /\ s.escalations \subseteq CeremonyShape
  /\ s.specs \subseteq Content
  /\ s.items \subseteq Item
  /\ \A p \in s.plans \cup s.adds : IsPlan(p) /\ Len(p) \in Nat
  /\ \A i \in s.amends : IsAmendInput(i)
  /\ \A p \in s.policies : DOMAIN p \subseteq Steps /\ \A x \in DOMAIN p : p[x] \in Needs
  /\ s.results \subseteq Results
  /\ \A e \in s.evidence : EvidenceAdmitted(e)
  /\ \A r \in s.raises :
       r.category \in Categories /\ r.action \in Actions /\ r.target \in Target
  /\ \A w \in s.waivers : w.items \subseteq ItemIds /\ w.tasks \subseteq Nat
  /\ s.prompts \subseteq PendingKinds
  /\ {s.tasks, s.findings, s.pending, s.versions, s.lessons} \subseteq Nat

ASSUME ScenariosAssumption == \A s \in Scenarios : IsScenario(s)

\* The state is what a snapshot may hold; no task has an id never given out.
TypeOK ==
  /\ cursor \in SubStates
  /\ ceremony \in CeremonyShape
  /\ {locked, accepted} \subseteq BOOLEAN
  /\ {iteration, lessons, basedOn, issued} \subseteq Nat
  /\ spec \in SpecShape
  /\ DOMAIN tasks \subseteq 1..issued
  /\ tasks \in [DOMAIN tasks -> Task]
  /\ \A t \in DOMAIN tasks : WellFormed(tasks[t])
  /\ \A e \in evidence : EvidenceAdmitted(e)
  /\ findings \in Seq(Finding)
  /\ pending \in Seq(PendingKinds)
  /\ inputs \in Scenarios

\* `loaf start` with one of the presets
Init ==
  /\ inputs \in Scenarios
  /\ cursor = "TRIAGE.score"
  /\ ceremony = Presets[inputs.profile]
  /\ locked = FALSE
  /\ accepted = FALSE
  /\ iteration = 1
  /\ lessons = 0
  /\ spec = Spec0
  /\ tasks = <<>>
  /\ basedOn = 0
  /\ issued = 0
  /\ evidence = {}
  /\ findings = <<>>
  /\ pending = <<>>

-----------------------------------------------------------------------------
(* TRIAGE to SETTLE: where the session stands. *)

\* Mutant: unfinished tasks do not matter.
MoveTo_Unfinished(to) ==
  /\ ~Blocks(pending)
  /\ CanAdvance(cursor, to, ceremony, locked, accepted)
  /\ cursor' = to
  /\ locked' = (locked /\ to # "SPEC.spec")
  /\ UNCHANGED <<ceremony, accepted, iteration, lessons, plan, ledger, inputs>>

\* event:phase_advanced without a back edge, as its admission and its reducer.
MoveTo(to) ==
  /\ ~Blocks(pending)
  /\ CanAdvance(cursor, to, ceremony, locked, accepted)
  /\ cursor = "EXECUTE.work" /\ to = "EXECUTE.done" =>
       \A t \in DOMAIN tasks : tasks[t].status \in Final
  /\ cursor' = to
  /\ locked' = (locked /\ to # "SPEC.spec")
  /\ UNCHANGED <<ceremony, accepted, iteration, lessons, plan, ledger, inputs>>

\* `loaf advance <sub-state>`
Advance == \E to \in SubStates : MoveTo(to)

\* `loaf settle`
Settle == MoveTo("SETTLE.lessons")

\* resolvePending: the head, and no other.
Answered == pending # <<>> /\ pending' = Tail(pending)

\* `loaf profile escalate`: the ceremony is set, then the head is resolved.
\* Any kind of head in TRIAGE.
Escalate ==
  /\ Allowed("event:ceremony_set", cursor)
  /\ EscalationAdmitted(pending, cursor)
  /\ ceremony' \in inputs.escalations
  /\ Answered
  /\ UNCHANGED <<cursor, locked, accepted, iteration, lessons, plan, evidence, findings, inputs>>

\* Mutant: the move is not judged on the queue that the resolution leaves.
ApproveSpecLock_Held ==
  /\ cursor = "SPEC.design"
  /\ GateFree(pending)
  /\ SpecLockCheck(spec, tasks, basedOn)
  /\ pending' = AfterHead(pending)
  /\ locked' = TRUE
  /\ cursor' = "EXECUTE.plan"
  /\ UNCHANGED <<ceremony, accepted, iteration, lessons, plan, evidence, findings, inputs>>

\* gate:decided, approved: here is this gate, and no other question waits.
GateOpen(gate) == GateAt(cursor) = gate /\ GateFree(pending)

\* `loaf gate decide spec-lock --approve`: the gate is judged on the snapshot
\* before the batch, which decides, resolves the head and moves to EXECUTE.plan.
ApproveSpecLock ==
  /\ GateOpen("spec-lock")
  /\ SpecLockCheck(spec, tasks, basedOn)
  /\ pending' = AfterHead(pending)
  /\ ~Blocks(pending')
  /\ locked' = TRUE
  /\ cursor' = "EXECUTE.plan"
  /\ UNCHANGED <<ceremony, accepted, iteration, lessons, plan, evidence, findings, inputs>>

\* `loaf gate decide verify-accept --approve`: the session stays where it is.
ApproveVerifyAccept ==
  /\ GateOpen("verify-accept")
  /\ VerifyAcceptCheck(spec, tasks, basedOn, evidence, findings, ceremony)
  /\ accepted' = TRUE
  /\ pending' = AfterHead(pending)
  /\ UNCHANGED <<cursor, ceremony, locked, iteration, lessons, plan, evidence, findings, inputs>>

\* `loaf gate decide <gate> --reject`, whatever waits: a record, nothing moves.
GateReject == Allowed("gate:decided", cursor) /\ UNCHANGED vars

-----------------------------------------------------------------------------
(* The spec, while it is not locked. *)

\* checkSpecContentPhase, with the authority of the spec entries
SpecOpen == Allowed("event:spec_submitted", cursor) /\ ~locked

\* checkSpecVersion: the first entry of a batch takes the next version.
NextVersion == spec.version + 1

\* event:spec_submitted and the entries its batch may add: nothing is kept of
\* the version before.
Respecified(content) ==
  /\ SpecOpen
  /\ NextVersion <= inputs.versions
  /\ spec' = [version |-> NextVersion, items |-> content.items, unclear |-> content.unclear]
  /\ UNCHANGED <<session, tasks, basedOn, issued, ledger, inputs>>

\* `loaf spec submit`
SpecSubmit == \E content \in inputs.specs : Respecified(content)

\* What spec.md holds: what `loaf spec init` put there counts only once it is edited.
Written == IF spec.version = 0 THEN {} ELSE {[items |-> spec.items, unclear |-> spec.unclear]}

\* `loaf spec edit`: a new body over the same items, or another content from an editor
SpecEdit == \E content \in inputs.specs \cup Written : Respecified(content)

\* checkSpecDuplicateIds
NewItem(item) == \A i \in spec.items : i.id # item.id

\* event:spec_req_added, event:spec_scenario_added and event:spec_visual_added
Extended(item) == spec' = [spec EXCEPT !.version = NextVersion, !.items = @ \cup {item}]

\* `loaf spec add-req`, `add-scenario` and `add-visual`
SpecAdd ==
  \E item \in inputs.items :
    /\ SpecOpen
    /\ spec.version > 0
    /\ NextVersion <= inputs.versions
    /\ NewItem(item)
    /\ Extended(item)
    /\ UNCHANGED <<session, tasks, basedOn, issued, ledger, inputs>>

-----------------------------------------------------------------------------
(* The task graph. *)

\* event:tasks_planned: the graph is replaced, and based on a submitted spec.
Planned(graph, base) ==
  /\ base > 0
  /\ CheckTaskGraph(graph)
  /\ tasks' = graph
  /\ basedOn' = base

\* `loaf tasks submit`: a whole new graph, based on the current spec.
TasksSubmit ==
  \E p \in inputs.plans :
    LET last == LastId(tasks, issued)
        graph == Allocated(p, last)
    IN  /\ Allowed("event:tasks_planned", cursor)
        /\ last + Len(p) <= inputs.tasks
        /\ Planned(graph, spec.version)
        /\ issued' = issued + Len(p)
        /\ UNCHANGED <<session, spec, ledger, inputs>>

\* checkTasksPlanned refuses a body with a registered red test, also where
\* `tasks add` only repeats it.
Plannable(graph) == \A t \in DOMAIN graph : ~graph[t].red

\* `loaf tasks add` in SPEC.design: the graph is planned again, with more tasks
\* and on the spec it was based on.
TasksAdd ==
  \E p \in inputs.adds :
    LET last == LastId(tasks, issued)
        graph == Added([t \in DOMAIN tasks |-> Reissued(tasks[t])], Allocated(p, last))
        base == IF basedOn = 0 THEN spec.version ELSE basedOn
    IN  /\ cursor = "SPEC.design"
        /\ last + Len(p) <= inputs.tasks
        /\ Plannable(graph)
        /\ Planned(graph, base)
        /\ issued' = issued + Len(p)
        /\ UNCHANGED <<session, spec, ledger, inputs>>

\* checkTasksAmended with a sponsor: a graph that comes to the work.
Sponsored(f) == cursor = "EXECUTE.work" /\ Sponsors(findings, f, {"amend-tasks"})

\* mode add: the tasks are fresh.
SponsoredAdd(f, more) == Sponsored(f) /\ \A t \in DOMAIN more : FreshTask(more[t])

\* mode replace: the progress stays.
SponsoredReplace(f, t, incoming) == Sponsored(f) /\ ProgressFrozen(tasks[t], incoming)

\* Without a sponsor a task is only replaced, and only in EXECUTE.plan.
PlanReplace(t, incoming) == cursor = "EXECUTE.plan" /\ PlanFrozen(tasks[t], incoming)

\* `loaf tasks add --finding`: one entry per task, one batch.
TasksAddSponsored ==
  \E p \in inputs.adds, f \in DOMAIN findings :
    LET last == LastId(tasks, issued)
        more == Allocated(p, last)
    IN  /\ SponsoredAdd(f, more)
        /\ last + Len(p) <= inputs.tasks
        /\ CheckTaskGraph(Added(tasks, more))
        /\ tasks' = Added(tasks, more)
        /\ issued' = issued + Len(p)
        /\ UNCHANGED <<session, spec, basedOn, ledger, inputs>>

\* `loaf tasks amend --input --finding`
TasksAmendSponsored ==
  \E t \in DOMAIN tasks, input \in inputs.amends, f \in DOMAIN findings :
    LET incoming == Replacement(tasks[t], input)
        graph == [tasks EXCEPT ![t] = incoming]
    IN  /\ SponsoredReplace(f, t, incoming)
        /\ KeepsShown(tasks[t], incoming)
        /\ WellFormed(incoming)
        /\ CheckTaskGraph(graph)
        /\ tasks' = graph
        /\ UNCHANGED <<session, spec, basedOn, issued, ledger, inputs>>

\* `loaf tasks amend --policy`
TasksAmendPolicy ==
  \E t \in DOMAIN tasks, policy \in inputs.policies :
    LET incoming == Narrowed(tasks[t], policy)
        graph == [tasks EXCEPT ![t] = incoming]
    IN  /\ PlanReplace(t, incoming)
        /\ DOMAIN policy \subseteq DOMAIN tasks[t].steps
        /\ CheckTaskGraph(graph)
        /\ tasks' = graph
        /\ UNCHANGED <<session, spec, basedOn, issued, ledger, inputs>>

-----------------------------------------------------------------------------
(* The work on a task, in EXECUTE.work. *)

\* What the entries of a task's work share: their authority and what they leave.
Working(t, task) ==
  /\ Allowed("event:task_claimed", cursor)
  /\ tasks' = [tasks EXCEPT ![t] = task]
  /\ UNCHANGED <<session, spec, basedOn, issued, findings, pending, inputs>>

\* `loaf tasks claim`
Claim ==
  \E t \in DOMAIN tasks :
    Claimable(tasks, t) /\ Working(t, Claimed(tasks[t])) /\ UNCHANGED evidence

\* `loaf tasks abandon`
AbandonTask ==
  \E t \in DOMAIN tasks :
    CanAbandon(tasks, t) /\ Working(t, Abandoned(tasks[t])) /\ UNCHANGED evidence

\* `loaf tasks step start`, also of a step that is settled
StepStart ==
  \E t \in DOMAIN tasks : \E step \in DOMAIN tasks[t].steps :
    CanWork(tasks, t, step) /\ Working(t, Started(tasks[t], step)) /\ UNCHANGED evidence

\* evidence:added
Recorded(e) == evidence' = evidence \cup {e}

\* `loaf tasks step done`, with or without an evidence in the same batch
StepDone ==
  \E t \in DOMAIN tasks : \E step \in DOMAIN tasks[t].steps, result \in inputs.results :
    /\ CanWork(tasks, t, step)
    /\ Working(t, Finished(tasks[t], step, result, FALSE))
    /\ \/ UNCHANGED evidence
       \/ \E e \in inputs.evidence : Recorded(e)

\* `loaf tasks register-red`
RegisterRed ==
  \E t \in DOMAIN tasks :
    /\ CanWork(tasks, t, "red")
    /\ CanRegisterRed(tasks[t], "red", "passed")
    /\ Working(t, Finished(tasks[t], "red", "passed", TRUE))
    /\ UNCHANGED evidence

-----------------------------------------------------------------------------
(* Evidence, findings, decisions and lessons. *)

\* `loaf evidence add`
EvidenceAdd ==
  \E e \in inputs.evidence :
    /\ Allowed("evidence:added", cursor)
    /\ EvidenceAdmitted(e)
    /\ Recorded(e)
    /\ UNCHANGED <<session, plan, findings, pending, inputs>>

\* `loaf waive <obligation>`
Waive ==
  \E w \in inputs.waivers :
    /\ Allowed("evidence:added", cursor)
    /\ Recorded(Waiver(w.items, w.tasks, "human"))
    /\ UNCHANGED <<session, plan, findings, pending, inputs>>

\* finding:raised
RaiseEntry(input) ==
  /\ Allowed("finding:raised", cursor)
  /\ Len(findings) < inputs.findings
  /\ RaiseAdmitted(input, tasks, locked)
  /\ findings' = Append(findings, Raised(input))

\* Mutant: an amendment may be raised without its way back.
RaiseLone_Amend ==
  \E input \in inputs.raises :
    /\ input.action \notin FixActions
    /\ RaiseEntry(input)
    /\ UNCHANGED <<session, plan, evidence, pending, inputs>>

\* `loaf finding raise` with an action that leaves the session where it is
RaiseLone ==
  \E input \in inputs.raises :
    /\ input.action \notin BackEdgeActions
    /\ RaiseEntry(input)
    /\ UNCHANGED <<session, plan, evidence, pending, inputs>>

\* Mutant: only a return to the spec counts.
GoBack_Respecified(action) ==
  LET to == BackEdgeTarget(action)
  IN  /\ ~Blocks(pending)
      /\ Sponsors(findings', Len(findings'), {action})
      /\ ValidBackEdge(cursor, to, action)
      /\ cursor' = to
      /\ locked' = (locked /\ to # "SPEC.spec")
      /\ iteration' = IF to = "SPEC.spec" THEN iteration + 1 ELSE iteration
      /\ UNCHANGED <<ceremony, accepted, lessons>>

\* The last entry of a raise that goes back: sponsored by the finding before it.
GoBack(action) ==
  LET to == BackEdgeTarget(action)
  IN  /\ ~Blocks(pending)
      /\ Sponsors(findings', Len(findings'), {action})
      /\ ValidBackEdge(cursor, to, action)
      /\ cursor' = to
      /\ locked' = (locked /\ to # "SPEC.spec")
      /\ iteration' = iteration + 1
      /\ UNCHANGED <<ceremony, accepted, lessons>>

\* `loaf finding raise --action amend-spec` or `amend-tasks`
RaiseAmend ==
  \E input \in inputs.raises :
    /\ input.action \in BackEdgeActions \ FixActions
    /\ RaiseEntry(input)
    /\ GoBack(input.action)
    /\ UNCHANGED <<plan, evidence, pending, inputs>>

\* `loaf finding raise --action fix-impl` or `fix-test`: the step is reset, the
\* task reopened, then the session goes back to work.
RaiseFix ==
  \E input \in inputs.raises :
    /\ input.action \in FixActions
    /\ RaiseEntry(input)
    /\ Allowed("event:task_step_reset", cursor)
    /\ ResetAdmitted(findings', Len(findings'), tasks)
    /\ tasks' = [tasks EXCEPT ![input.target.task] = Reopened(@, input.target.step)]
    /\ GoBack(input.action)
    /\ UNCHANGED <<spec, basedOn, issued, evidence, pending, inputs>>

\* `loaf finding close`
FindingClose ==
  \E f \in DOMAIN findings :
    /\ Allowed("finding:closed", cursor)
    /\ Closable(findings, f)
    /\ findings' = Closed(findings, f)
    /\ UNCHANGED <<session, plan, evidence, pending, inputs>>

\* `loaf pending raise`, even when the session is over
PendingRaise ==
  \E kind \in inputs.prompts :
    /\ Allowed("pending:added", cursor)
    /\ Len(pending) < inputs.pending
    /\ pending' = Append(pending, kind)
    /\ UNCHANGED <<session, plan, evidence, findings, inputs>>

\* `loaf pending resolve`: the head, whatever its kind
PendingResolve ==
  /\ Allowed("pending:resolved", cursor)
  /\ Answered
  /\ UNCHANGED <<session, plan, evidence, findings, inputs>>

\* `loaf lessons add`
LessonAdd ==
  /\ Allowed("lesson:recorded", cursor)
  /\ lessons < inputs.lessons
  /\ lessons' = lessons + 1
  /\ UNCHANGED <<cursor, ceremony, locked, accepted, iteration, plan, ledger, inputs>>

-----------------------------------------------------------------------------
(* The end. *)

\* The last entry of a session moves the cursor, and nothing else.
EndAt(to) ==
  /\ cursor' = to
  /\ UNCHANGED <<ceremony, locked, accepted, iteration, lessons, plan, ledger, inputs>>

\* A spike is never delivered: it is converted, or abandoned first.
LiveSpike == \E t \in DOMAIN tasks : tasks[t].kind = "spike" /\ tasks[t].status # "abandoned"

\* Mutant: EXECUTE.done delivers under every ceremony.
Deliverable_Unverified ==
  /\ Allowed("session:delivered", cursor)
  /\ ~LiveSpike
  /\ cursor = "EXECUTE.done" => VerifyMin(tasks, evidence)
  /\ cursor = "VERIFY.accept" => ~ceremony.settle_phase /\ accepted
  /\ cursor = "SETTLE.lessons" => accepted /\ ~LessonOwed(cursor, ceremony, lessons)

\* checkSessionDelivered
Deliverable ==
  /\ Allowed("session:delivered", cursor)
  /\ ~LiveSpike
  /\ cursor = "EXECUTE.done" => ~ceremony.verify_phase /\ VerifyMin(tasks, evidence)
  /\ cursor = "VERIFY.accept" => ~ceremony.settle_phase /\ accepted
  /\ cursor = "SETTLE.lessons" => accepted /\ ~LessonOwed(cursor, ceremony, lessons)

\* `loaf deliver`
Deliver == Deliverable /\ EndAt("DONE.delivered")

\* `loaf archive`
Archive == Allowed("session:archived", cursor) /\ EndAt("DONE.archived")

\* `loaf abandon`
AbandonSession == Allowed("session:abandoned", cursor) /\ EndAt("DONE.abandoned")

\* `loaf spike convert`: a record of the conversion, then the archive
SpikeConvert == Allowed("spike:converted", cursor) /\ LiveSpike /\ EndAt("DONE.archived")

Next ==
  \/ Advance \/ Settle \/ Escalate \/ ApproveSpecLock \/ ApproveVerifyAccept \/ GateReject
  \/ SpecSubmit \/ SpecEdit \/ SpecAdd
  \/ TasksSubmit \/ TasksAdd \/ TasksAddSponsored \/ TasksAmendSponsored \/ TasksAmendPolicy
  \/ Claim \/ AbandonTask \/ StepStart \/ StepDone \/ RegisterRed
  \/ EvidenceAdd \/ Waive \/ RaiseLone \/ RaiseAmend \/ RaiseFix \/ FindingClose
  \/ PendingRaise \/ PendingResolve \/ LessonAdd
  \/ Deliver \/ Archive \/ AbandonSession \/ SpikeConvert

Spec == Init /\ [][Next]_vars

-----------------------------------------------------------------------------
Delivered == cursor = "DONE.delivered"

PastExecute == {"EXECUTE.done", "DONE.delivered"} \cup VERIFY \cup SETTLE

\* EXECUTE.done says that every task is final. No path through the back edges,
\* the resets and the sponsored amendments brings unfinished work past it.
FinalPastExecute ==
  cursor \in PastExecute => \A t \in DOMAIN tasks : tasks[t].status \in Final

\* Work is done, verified and delivered on a locked spec, or without any spec
\* where the ceremony has no SPEC phase: an amended spec is locked again first.
ExecutesLockedSpec ==
  cursor \in EXECUTE \cup VERIFY \cup SETTLE \cup {"DONE.delivered"} =>
    locked \/ spec.version = 0

\* The tasks of a locked spec were planned on this version of it, over any number
\* of amendments of the spec and of the graph.
LockedPlanCurrent == locked => spec.version > 0 /\ basedOn = spec.version

\* The iteration of a session counts its way back: every finding whose action
\* goes back did so once, in the same batch.
IterationCountsBackEdges ==
  iteration = 1 + Cardinality({f \in DOMAIN findings : findings[f].action \in BackEdgeActions})

\* What is delivered has had what its ceremony demands at the end, whatever
\* escalations and ways back it took.
DeliveredMeetsCeremony ==
  Delivered =>
    /\ ~LiveSpike
    /\ ceremony.verify_phase => accepted
    /\ ~accepted => VerifyMin(tasks, evidence)
    /\ ceremony.verify_phase /\ ceremony.settle_phase /\ ceremony.lessons_required = "must" =>
         lessons > 0

\* A task waits for an abandoned one only if a fix finding has reopened it: the
\* check at planning time and the one at abandonment leave no other way.
AbandonedDepsOnlyUnderReopened ==
  \A t \in DOMAIN tasks :
    /\ tasks[t].status \notin Final
    /\ \E d \in tasks[t].deps : tasks[d].status = "abandoned"
    => tasks[t].status = "in_progress"

\* `loaf tasks next`: the ids it may print.
NextReady == {t \in DOMAIN tasks : tasks[t].status \in {"pending", "ready"} /\ DepsDone(tasks, t)}

\* As long as a task is not final somebody works on one, or `loaf tasks next`
\* names one: no abandonment, amendment or reset leaves tasks waiting for each
\* other or for work that will never be done, so that EXECUTE.done stays reachable.
WorkNeverStuck ==
  (\E t \in DOMAIN tasks : tasks[t].status \notin Final) =>
    \/ NextReady # {}
    \/ \E t \in DOMAIN tasks : tasks[t].status = "in_progress"

\* Every amendment and addition leaves a graph in which some order of work exists.
GraphStaysAcyclic == DepsExist(tasks) /\ Acyclic(tasks)

\* nextInputFromSnapshot: the hint printed after a command knows no lanes and
\* takes all four of them.
HintedLanes == Lanes

\* `loaf next` derives the lanes from the spec; without a spec it fails in VERIFY.
QueriedLanes ==
  IF cursor \notin VERIFY THEN {Lanes}
  ELSE IF HasSpec(spec) THEN {ApplicableLanes(spec, tasks)} ELSE {}

Advised(lanes) == NextAction(cursor, ceremony, locked, accepted, lessons, lanes, pending)

\* The command that is advised is admitted here; a gate and a delivery may still
\* find work missing, and an escalation raised after EXECUTE is advised in vain.
Legal(a) ==
  CASE a.verb \in {"advance", "settle"} ->
         ~Blocks(pending) /\ CanAdvance(cursor, a.target, ceremony, locked, accepted)
    [] a.verb = "gate decide" -> Allowed("gate:decided", cursor) /\ GateFree(pending)
    [] a.verb = "deliver" ->
         /\ Allowed("session:delivered", cursor)
         /\ cursor # "EXECUTE.done" => accepted
         /\ ~LessonOwed(cursor, ceremony, lessons)
    [] a.verb = "lessons add" -> Allowed("lesson:recorded", cursor)
    [] a.verb = "tasks next" -> Allowed("event:task_claimed", cursor)
    [] a.verb = "pending resolve" -> HeadIs(pending, {a.target})
    [] a.verb = "profile escalate" ->
         Allowed("event:ceremony_set", cursor) \/ cursor \in VERIFY \cup SETTLE

\* A session that is not over has exactly one advised command, and that command
\* is admitted, whether `loaf next` or the hint of another command gives it.
AdviceIsLegal ==
  cursor \notin DONE => \A lanes \in {HintedLanes} \cup QueriedLanes :
    Cardinality(Advised(lanes)) = 1 /\ \A a \in Advised(lanes) : Legal(a)

\* protocol.md, 5.2, lets a session pass from VERIFY to SETTLE or to its delivery
\* only when no finding is open but the deferred ones.
NothingOpenPastAccept ==
  cursor \in SETTLE \/ (Delivered /\ ceremony.verify_phase) => NoOpenFindings(findings)

-----------------------------------------------------------------------------
Accepted == {"VERIFY.accept", "DONE.delivered"} \cup SETTLE

\* Between the acceptance and the delivery nothing undoes what was accepted:
\* work, coverage and findings stay as the gate saw them.
AcceptanceStands ==
  [][ /\ accepted /\ cursor \in Accepted /\ cursor' \in Accepted
      /\ WorkProved(spec, tasks, basedOn, evidence, findings)
      => WorkProved(spec, tasks, basedOn, evidence, findings)' ]_vars

\* A waiting gate or escalation holds the session: it moves on, or back, only
\* once no such decision is at the head, or it ends.
BlockedByDecision == [][cursor' # cursor /\ cursor' \notin DONE => ~Blocks(pending')]_vars

\* A final task comes back to work only by a fix finding, which is open and
\* names it; an abandoned one never does.
ReopenedBySponsor ==
  [][ \A t \in DOMAIN tasks \cap DOMAIN tasks' :
        tasks[t].status \in Final /\ tasks'[t].status # tasks[t].status =>
          /\ tasks[t].status = "done"
          /\ Len(findings') > Len(findings)
          /\ Sponsors(findings', Len(findings'), FixActions)
          /\ findings'[Len(findings')].target.task = t ]_vars

\* No amendment loses progress: a step that has begun keeps its status while its
\* task stays in the graph and nobody works on that step.
ProgressKept ==
  [][ \A t \in DOMAIN tasks \cap DOMAIN tasks' :
        tasks[t].kind # tasks'[t].kind \/ tasks[t].deps # tasks'[t].deps
          \/ tasks[t].drives # tasks'[t].drives =>
            \A s \in DOMAIN tasks[t].steps :
              tasks[t].steps[s].status # "pending" =>
                s \in DOMAIN tasks'[t].steps /\ tasks'[t].steps[s] = tasks[t].steps[s] ]_vars

\* Every id given out, by a plan, a new plan or an addition, is one that no task
\* ever had: evidence and findings that name a task cannot come to mean another.
IdsNeverReused == [][DOMAIN tasks' \ DOMAIN tasks = (issued + 1)..issued']_vars

\* While the work goes on the graph changes only under an open amend-tasks finding.
Definition(t) == [k |-> t.kind, d |-> t.deps, r |-> t.drives, b |-> t.bug,
                  a |-> t.acceptance, v |-> t.visuals, n |-> [s \in DOMAIN t.steps |-> t.steps[s].need]]

GraphFrozenInWork ==
  [][ cursor = "EXECUTE.work"
      /\ [t \in DOMAIN tasks |-> Definition(tasks[t])] # [t \in DOMAIN tasks' |-> Definition(tasks'[t])]
      => \E f \in DOMAIN findings :
           findings[f].action = "amend-tasks" /\ findings[f].status = "open" ]_vars

-----------------------------------------------------------------------------
\* The phases as the abstract life of a session sees them.
PhaseOf(c) ==
  CASE c \in TRIAGE -> "TRIAGE" [] c \in SPEC -> "SPEC" [] c \in EXECUTE -> "EXECUTE"
    [] c \in VERIFY -> "VERIFY" [] c \in SETTLE -> "SETTLE"
    [] c = "DONE.delivered" -> "DELIVERED" [] OTHER -> "CLOSED"

Life == INSTANCE Lifecycle WITH phase <- PhaseOf(cursor)

\* Every command is a step of that life, or leaves it alone.
ImplementsLifecycle == Life!Spec

=============================================================================

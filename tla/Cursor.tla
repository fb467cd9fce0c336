------------------------------- MODULE Cursor -------------------------------
(***************************************************************************)
(* The state machine a session moves through: its sub-states, the edges of *)
(* `loaf advance` with their guards, the back edges a finding opens, which *)
(* journal entry may be written where, and the next command the program    *)
(* advises. Operators only: Workflow holds the state.                      *)
(***************************************************************************)
EXTENDS Naturals, FiniteSets

TRIAGE == {"TRIAGE.score", "TRIAGE.confirm"}
SPEC == {"SPEC.proposal", "SPEC.spec", "SPEC.plan", "SPEC.design"}
EXECUTE == {"EXECUTE.plan", "EXECUTE.work", "EXECUTE.done"}
Lanes == {"run", "review", "acceptance", "visual"}
VERIFY == {"VERIFY.plan", "VERIFY.run", "VERIFY.review", "VERIFY.acceptance",
           "VERIFY.visual", "VERIFY.accept"}
SETTLE == {"SETTLE.lessons"}
DONE == {"DONE.delivered", "DONE.archived", "DONE.abandoned"}

SubStates == TRIAGE \cup SPEC \cup EXECUTE \cup VERIFY \cup SETTLE \cup DONE

CeremonyShape ==
  [spec_phase : BOOLEAN, verify_phase : BOOLEAN, settle_phase : BOOLEAN,
   strict_spec_review : BOOLEAN, lessons_required : {"must", "may", "skip"}]

Ceremony(spec, verify, settle, strict, lessons) ==
  [spec_phase |-> spec, verify_phase |-> verify, settle_phase |-> settle,
   strict_spec_review |-> strict, lessons_required |-> lessons]

\* PRESETS: what `loaf start` knows. `profile escalate` admits any shape.
Presets ==
  [quick |-> Ceremony(FALSE, FALSE, FALSE, FALSE, "skip"),
   light |-> Ceremony(TRUE, FALSE, FALSE, FALSE, "skip"),
   standard |-> Ceremony(TRUE, TRUE, FALSE, FALSE, "skip"),
   deep |-> Ceremony(TRUE, TRUE, TRUE, TRUE, "must")]

PendingKinds == {"ask_user_question", "gate_decision", "spec_clarification",
                 "finding_decision", "profile_escalation"}

-----------------------------------------------------------------------------
(* The edges that event:phase_advanced owns. Delivery, archive and abandon *)
(* move the cursor by entries of their own; what the table calls           *)
(* contract:next is a hint for agents and no transition.                   *)

Edge(from, to, guards) == [from |-> from, to |-> to, guards |-> guards]

TriageEdges ==
  {Edge("TRIAGE.score", "TRIAGE.confirm", {}),
   Edge("TRIAGE.confirm", "SPEC.proposal", {"spec_phase_required"}),
   Edge("TRIAGE.confirm", "EXECUTE.plan", {"spec_phase_forbidden"})}

SpecEdges ==
  {Edge("SPEC.proposal", "SPEC.spec", {}),
   Edge("SPEC.spec", "SPEC.plan", {}),
   Edge("SPEC.plan", "SPEC.design", {}),
   Edge("SPEC.design", "EXECUTE.plan", {"spec_locked_required"})}

ExecuteEdges ==
  {Edge("EXECUTE.plan", "EXECUTE.work", {}),
   Edge("EXECUTE.work", "EXECUTE.done", {}),
   Edge("EXECUTE.done", "VERIFY.plan", {"verify_phase_required"})}

VerifyEdges ==
  {Edge("VERIFY.plan", "VERIFY.run", {}),
   Edge("VERIFY.run", "VERIFY.review", {}),
   Edge("VERIFY.run", "VERIFY.acceptance", {}),
   Edge("VERIFY.run", "VERIFY.visual", {}),
   Edge("VERIFY.run", "VERIFY.accept", {}),
   Edge("VERIFY.review", "VERIFY.acceptance", {}),
   Edge("VERIFY.review", "VERIFY.visual", {}),
   Edge("VERIFY.review", "VERIFY.accept", {}),
   Edge("VERIFY.acceptance", "VERIFY.visual", {}),
   Edge("VERIFY.acceptance", "VERIFY.accept", {}),
   Edge("VERIFY.visual", "VERIFY.accept", {}),
   Edge("VERIFY.accept", "SETTLE.lessons", {"settle_phase_required", "verify_accepted_required"})}

LegalTransitions == TriageEdges \cup SpecEdges \cup ExecuteEdges \cup VerifyEdges

\* Mutant: SPEC is left without a lock.
Passes_Unlocked(guard, ceremony, locked, accepted) ==
  CASE guard = "spec_phase_required" -> ceremony.spec_phase
    [] guard = "spec_phase_forbidden" -> ~ceremony.spec_phase
    [] guard = "verify_phase_required" -> ceremony.verify_phase
    [] guard = "settle_phase_required" -> ceremony.settle_phase
    [] guard = "verify_accepted_required" -> accepted
    [] OTHER -> TRUE

\* Mutant: a session is settled that nobody accepted.
Passes_Unaccepted(guard, ceremony, locked, accepted) ==
  CASE guard = "spec_phase_required" -> ceremony.spec_phase
    [] guard = "spec_phase_forbidden" -> ~ceremony.spec_phase
    [] guard = "verify_phase_required" -> ceremony.verify_phase
    [] guard = "spec_locked_required" -> locked
    [] guard = "settle_phase_required" -> ceremony.settle_phase
    [] OTHER -> TRUE

Passes(guard, ceremony, locked, accepted) ==
  CASE guard = "spec_phase_required" -> ceremony.spec_phase
    [] guard = "spec_phase_forbidden" -> ~ceremony.spec_phase
    [] guard = "verify_phase_required" -> ceremony.verify_phase
    [] guard = "spec_locked_required" -> locked
    [] guard = "settle_phase_required" -> ceremony.settle_phase
    [] guard = "verify_accepted_required" -> accepted

\* validateTransition without a back edge.
CanAdvance(from, to, ceremony, locked, accepted) ==
  \E e \in LegalTransitions :
    /\ e.from = from
    /\ e.to = to
    /\ \A g \in e.guards : Passes(g, ceremony, locked, accepted)

NextLegalTargets(from, ceremony, locked, accepted) ==
  {to \in SubStates : CanAdvance(from, to, ceremony, locked, accepted)}

BackEdgeActions == {"amend-spec", "amend-tasks", "fix-impl", "fix-test"}

BackEdgeTarget(action) == IF action = "amend-spec" THEN "SPEC.spec" ELSE "EXECUTE.work"

\* backEdgeSourceStates: only an amended spec can still go back from the plan.
BackEdgeFrom(action) ==
  IF action = "amend-spec" THEN EXECUTE \cup VERIFY ELSE (EXECUTE \cup VERIFY) \ {"EXECUTE.plan"}

ValidBackEdge(from, to, action) ==
  action \in BackEdgeActions /\ to = BackEdgeTarget(action) /\ from \in BackEdgeFrom(action)

-----------------------------------------------------------------------------
\* KIND_REGISTRY: the sub-states in which an entry of each kind is admitted.
KindSubStates(kind) ==
  CASE kind \in {"event:phase_advanced", "pending:added", "pending:resolved",
                 "session:resumed"} -> SubStates
    [] kind = "event:ceremony_set" -> TRIAGE \cup SPEC \cup EXECUTE
    [] kind = "event:tasks_planned" -> {"SPEC.design", "EXECUTE.plan"}
    [] kind \in {"event:tasks_amended", "evidence:added", "finding:raised",
                 "finding:closed"} -> EXECUTE \cup VERIFY
    [] kind \in {"event:task_claimed", "event:task_step_started", "event:task_step_done",
                 "event:task_abandoned", "scope:recorded"} -> {"EXECUTE.work"}
    [] kind = "event:task_step_reset" -> BackEdgeFrom("fix-impl")
    [] kind \in {"event:spec_submitted", "event:spec_req_added",
                 "event:spec_scenario_added", "event:spec_visual_added"} -> SPEC
    [] kind \in {"lesson:recorded", "session:archived", "session:abandoned",
                 "spike:converted"} -> SubStates \ DONE
    [] kind = "gate:decided" -> {"SPEC.design", "VERIFY.accept"}
    [] kind = "session:delivered" -> {"EXECUTE.done", "VERIFY.accept", "SETTLE.lessons"}

\* isSubStateAllowed
Allowed(kind, cursor) == cursor \in KindSubStates(kind)

\* gateNameForCursor
GateAt(cursor) ==
  CASE cursor = "SPEC.design" -> "spec-lock"
    [] cursor = "VERIFY.accept" -> "verify-accept"
    [] OTHER -> "none"

\* requiresLessonBeforeDelivery
LessonOwed(cursor, ceremony, lessons) ==
  cursor = "SETTLE.lessons" /\ ceremony.lessons_required = "must" /\ lessons = 0

-----------------------------------------------------------------------------
(* What `loaf next` advises: the verb that owns the next step and its      *)
(* target. `next` is an answer for the agent; it changes nothing.          *)

Advice(verb, target) == [verb |-> verb, target |-> target]

VerifyOrder == <<"VERIFY.run", "VERIFY.review", "VERIFY.acceptance", "VERIFY.visual">>

LaneOf == <<"run", "review", "acceptance", "visual">>

VerifyRank(cursor) ==
  IF \E i \in 1..4 : VerifyOrder[i] = cursor
  THEN CHOOSE i \in 1..4 : VerifyOrder[i] = cursor
  ELSE 0

\* Mutant: the check that was just made is looked for again.
VerifyNextTarget_Again(cursor, lanes) ==
  LET after == {i \in 1..4 : i >= VerifyRank(cursor) /\ LaneOf[i] \in lanes}
  IN  IF after = {} THEN "VERIFY.accept"
      ELSE VerifyOrder[CHOOSE i \in after : \A j \in after : i <= j]

\* verifyNextTarget: the next check of the order whose lane applies.
VerifyNextTarget(cursor, lanes) ==
  LET after == {i \in 1..4 : i > VerifyRank(cursor) /\ LaneOf[i] \in lanes}
  IN  IF after = {} THEN "VERIFY.accept"
      ELSE VerifyOrder[CHOOSE i \in after : \A j \in after : i <= j]

\* transitionOwnerFor has no answer when no target is legal: it throws.
TransitionOwner(cursor, ceremony, locked, accepted, lessons, lanes) ==
  LET targets == NextLegalTargets(cursor, ceremony, locked, accepted)
      check == VerifyNextTarget(cursor, lanes)
  IN  CASE cursor = "SPEC.design" /\ ~locked -> {Advice("gate decide", "spec-lock")}
        [] cursor = "VERIFY.accept" /\ ~accepted -> {Advice("gate decide", "verify-accept")}
        [] cursor = "VERIFY.accept" /\ accepted ->
             IF ceremony.settle_phase
             THEN {Advice("settle", "SETTLE.lessons")}
             ELSE {Advice("deliver", "DONE.delivered")}
        [] cursor = "EXECUTE.work" -> {Advice("tasks next", "task-level")}
        [] cursor = "EXECUTE.done" /\ ~ceremony.verify_phase -> {Advice("deliver", "DONE.delivered")}
        [] cursor = "SETTLE.lessons" ->
             IF LessonOwed(cursor, ceremony, lessons)
             THEN {Advice("lessons add", "SETTLE.lessons")}
             ELSE {Advice("deliver", "DONE.delivered")}
        [] cursor \in DONE -> {}
        [] OTHER -> {Advice("advance", to) :
                       to \in IF cursor \in VERIFY /\ check \in targets THEN {check} ELSE targets}

\* pendingResolutionOwner
DecisionOwner(kind, gate) ==
  CASE kind = "gate_decision" /\ gate # "none" -> Advice("gate decide", gate)
    [] kind = "profile_escalation" -> Advice("profile escalate", "profile_escalation")
    [] OTHER -> Advice("pending resolve", kind)

\* chooseNextAction: a waiting decision comes first, whatever its kind.
NextAction(cursor, ceremony, locked, accepted, lessons, lanes, pending) ==
  IF pending = <<>>
  THEN TransitionOwner(cursor, ceremony, locked, accepted, lessons, lanes)
  ELSE {DecisionOwner(pending[1], GateAt(cursor))}
=============================================================================

--------------------------- MODULE Interventions ---------------------------
(***************************************************************************)
(* What may interrupt a session: findings, whose action decides which way  *)
(* the session goes back and which task is reopened, and the queue of      *)
(* pending decisions, whose head may hold the session where it is.         *)
(* Operators only: Workflow holds the findings and the queue.              *)
(*                                                                         *)
(* FND-003 is the third of a sequence: ids are given in order and findings *)
(* are closed, never removed. The queue holds the live decisions only, so  *)
(* that its first element is the head.                                     *)
(***************************************************************************)
EXTENDS Naturals, Sequences, Cursor

Categories == {"spec-gap", "spec-defect", "impl-defect", "test-defect", "new-scope",
               "risk-escalation"}

Actions == {"amend-spec", "amend-tasks", "fix-impl", "fix-test", "defer", "backlog"}

\* cellRisk of the category and action grid.
Incoherent(category, action) ==
  category \in {"spec-gap", "new-scope"} /\ action \in {"fix-impl", "fix-test"}

Unusual(category, action) ==
  CASE category = "spec-gap" -> action = "amend-tasks"
    [] category = "spec-defect" -> action \in {"amend-tasks", "fix-impl", "fix-test"}
    [] category = "impl-defect" -> action \in {"amend-spec", "fix-test"}
    [] category = "test-defect" -> action \in {"amend-spec", "fix-impl"}
    [] category = "risk-escalation" -> action \in {"amend-spec", "fix-impl", "fix-test"}
    [] OTHER -> FALSE

FixActions == {"fix-impl", "fix-test"}

\* FIX_ACTION_STEP
FixStep(action) == IF action = "fix-impl" THEN "implement" ELSE "red"

NoTarget == [task |-> 0, step |-> "none"]

\* FINDING_ACTION_TARGET_MODE: a fix names its step, an amendment of the tasks may.
TargetFits(input, tasks) ==
  LET target == input.target
  IN  /\ input.action \in FixActions =>
           target # NoTarget /\ target.step = FixStep(input.action)
      /\ target # NoTarget =>
           /\ input.action \in FixActions \cup {"amend-tasks"}
           /\ target.task \in DOMAIN tasks
           /\ target.step \in DOMAIN tasks[target.task].steps

\* checkFindingRaise. `reasoned`: a reason of at least 20 characters is given.
RaiseAdmitted(input, tasks, locked) ==
  /\ ~Incoherent(input.category, input.action)
  /\ Unusual(input.category, input.action) => input.reasoned
  /\ TargetFits(input, tasks)
  /\ input.action = "amend-spec" => locked

\* applyFindingRaise: what the snapshot keeps of a finding.
Raised(input) == [action |-> input.action, target |-> input.target, status |-> "open"]

\* Mutant: a finding that is closed still sponsors.
Sponsors_EvenClosed(findings, f, actions) == f \in DOMAIN findings /\ findings[f].action \in actions

\* requireFindingSponsor
Sponsors(findings, f, actions) ==
  f \in DOMAIN findings /\ findings[f].status = "open" /\ findings[f].action \in actions

\* checkFindingReset
ResetAdmitted(findings, f, tasks) ==
  /\ Sponsors(findings, f, FixActions)
  /\ LET target == findings[f].target
     IN  /\ target.step = FixStep(findings[f].action)
         /\ target.task \in DOMAIN tasks
         /\ target.step \in DOMAIN tasks[target.task].steps
         /\ tasks[target.task].status # "abandoned"

\* findingForClosure
Closable(findings, f) == f \in DOMAIN findings /\ findings[f].status = "open"

\* applyFindingClose
Closed(findings, f) == [findings EXCEPT ![f].status = "closed"]

\* isFindingDeferralAction: a deferred finding stays open and blocks nothing.
Actionable(findings) ==
  {f \in DOMAIN findings : findings[f].status = "open"
                           /\ findings[f].action \notin {"defer", "backlog"}}

-----------------------------------------------------------------------------
\* pendingHead
HeadIs(pending, kinds) == pending # <<>> /\ Head(pending) \in kinds

\* checkPendingAdvance refuses to move on.
Blocks(pending) == HeadIs(pending, {"gate_decision", "profile_escalation"})

\* planGatePending: an approval answers a waiting gate decision, or none waits.
GateFree(pending) == pending = <<>> \/ HeadIs(pending, {"gate_decision"})

\* The queue after the approval, whose batch resolves the head it answers.
AfterHead(pending) == IF pending = <<>> THEN <<>> ELSE Tail(pending)

\* checkPendingEscalation
EscalationAdmitted(pending, cursor) ==
  cursor \in TRIAGE \/ HeadIs(pending, {"profile_escalation"})
=============================================================================

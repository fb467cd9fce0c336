--------------------------- MODULE WorkflowProofs ---------------------------
(***************************************************************************)
(* Theorems about the life of a session, for any scenario: whatever        *)
(* specs, plans, amendments, evidence, findings and decisions are brought, *)
(* in any number and any order.                                            *)
(***************************************************************************)
EXTENDS Workflow, TLAPS

-----------------------------------------------------------------------------
(* The edges of the state machine. *)

\* Where an edge leads, and what it demanded of a session that left its phase.
LEMMA EdgeShape ==
  ASSUME NEW from, NEW to, NEW c, NEW l, NEW a, CanAdvance(from, to, c, l, a)
  PROVE  \/ from \in TRIAGE /\ to \in {"TRIAGE.confirm", "SPEC.proposal", "EXECUTE.plan"}
         \/ from \in SPEC /\ to \in SPEC
         \/ from = "SPEC.design" /\ to = "EXECUTE.plan" /\ l
         \/ from = "EXECUTE.plan" /\ to = "EXECUTE.work"
         \/ from = "EXECUTE.work" /\ to = "EXECUTE.done"
         \/ from = "EXECUTE.done" /\ to = "VERIFY.plan"
         \/ from \in VERIFY /\ to \in VERIFY
         \/ from = "VERIFY.accept" /\ to = "SETTLE.lessons" /\ a
<1> USE DEF TRIAGE, SPEC, EXECUTE, VERIFY, SETTLE
<1>1. PICK e \in LegalTransitions :
        e.from = from /\ e.to = to /\ \A g \in e.guards : Passes(g, c, l, a)
  BY DEF CanAdvance
<1>2. CASE e \in TriageEdges
  BY <1>1, <1>2 DEF TriageEdges, Edge
<1>3. CASE e \in SpecEdges
  <2>1. CASE e = Edge("SPEC.design", "EXECUTE.plan", {"spec_locked_required"})
    <3>1. Passes("spec_locked_required", c, l, a)
      BY <1>1, <2>1 DEF Edge
    <3> QED
      BY <1>1, <2>1, <3>1 DEF Edge, Passes
  <2> QED
    BY <1>1, <1>3, <2>1 DEF SpecEdges, Edge
<1>4. CASE e \in ExecuteEdges
  BY <1>1, <1>4 DEF ExecuteEdges, Edge
<1>5. CASE e \in VerifyEdges
  <2>1. CASE e = Edge("VERIFY.accept", "SETTLE.lessons",
                      {"settle_phase_required", "verify_accepted_required"})
    <3>1. Passes("verify_accepted_required", c, l, a)
      BY <1>1, <2>1 DEF Edge
    <3> QED
      BY <1>1, <2>1, <3>1 DEF Edge, Passes
  <2> QED
    BY <1>1, <1>5, <2>1 DEF VerifyEdges, Edge
<1> QED
  BY <1>1, <1>2, <1>3, <1>4, <1>5 DEF LegalTransitions

-----------------------------------------------------------------------------
(* What a step can do to the session and to the plan. Every command that is *)
(* not named leaves them alone.                                             *)

Stays == UNCHANGED <<cursor, locked, accepted, iteration, inputs>>

Ends == \E to \in DONE : EndAt(to) /\ cursor \in SubStates \ DONE /\ (to = "DONE.delivered" => Deliverable)

Returns ==
  \E action \in BackEdgeActions :
    GoBack(action) /\ (action = "amend-spec" => locked) /\ UNCHANGED <<pending, inputs>>

LEMMA SessionStep ==
  ASSUME [Next]_vars
  PROVE  \/ Stays \/ Ends \/ Returns
         \/ \E to \in SubStates : MoveTo(to)
         \/ ApproveSpecLock \/ ApproveVerifyAccept
<1> USE DEF Stays, session, plan, ledger
<1>1. CASE UNCHANGED vars
  BY <1>1 DEF vars
<1>2. CASE Advance \/ Settle
  BY <1>2 DEF Advance, Settle, SubStates, SETTLE
<1>3. CASE Escalate \/ ApproveSpecLock \/ ApproveVerifyAccept \/ GateReject
  BY <1>3 DEF Escalate, GateReject, vars
<1>4. CASE SpecSubmit \/ SpecEdit \/ SpecAdd
  BY <1>4 DEF SpecSubmit, SpecEdit, SpecAdd, Respecified
<1>5. CASE TasksSubmit \/ TasksAdd \/ TasksAddSponsored \/ TasksAmendSponsored \/ TasksAmendPolicy
  BY <1>5 DEF TasksSubmit, TasksAdd, TasksAddSponsored, TasksAmendSponsored, TasksAmendPolicy
<1>6. CASE Claim \/ AbandonTask \/ StepStart \/ StepDone \/ RegisterRed
  BY <1>6 DEF Claim, AbandonTask, StepStart, StepDone, RegisterRed, Working
<1>7. CASE EvidenceAdd \/ Waive \/ RaiseLone \/ FindingClose
  BY <1>7 DEF EvidenceAdd, Waive, RaiseLone, FindingClose
<1>8. CASE RaiseAmend \/ RaiseFix
  <2>1. PICK input \in inputs.raises :
          /\ input.action \in BackEdgeActions
          /\ RaiseEntry(input)
          /\ GoBack(input.action)
          /\ UNCHANGED <<pending, inputs>>
    BY <1>8 DEF RaiseAmend, RaiseFix, BackEdgeActions, FixActions
  <2> QED
    BY <2>1 DEF Returns, RaiseEntry, RaiseAdmitted
<1>9. CASE PendingRaise \/ PendingResolve \/ LessonAdd
  BY <1>9 DEF PendingRaise, PendingResolve, LessonAdd
<1>10. CASE Deliver \/ Archive \/ AbandonSession \/ SpikeConvert
  <2>1. CASE Deliver
    BY <2>1 DEF Deliver, Ends, Deliverable, Allowed, KindSubStates, DONE, SubStates, EXECUTE, VERIFY, SETTLE
  <2>2. CASE Archive
    BY <2>2 DEF Archive, Ends, Allowed, KindSubStates, DONE
  <2>3. CASE AbandonSession
    BY <2>3 DEF AbandonSession, Ends, Allowed, KindSubStates, DONE
  <2>4. CASE SpikeConvert
    BY <2>4 DEF SpikeConvert, Ends, Allowed, KindSubStates, DONE
  <2> QED
    BY <1>10, <2>1, <2>2, <2>3, <2>4
<1> QED
  BY <1>1, <1>2, <1>3, <1>4, <1>5, <1>6, <1>7, <1>8, <1>9, <1>10 DEF Next

\* A new version of the spec, in SPEC and unlocked.
Respecifies ==
  /\ cursor \in SPEC /\ ~locked
  /\ spec'.version = spec.version + 1
  /\ spec \in SpecShape => spec' \in SpecShape

\* The graph is planned on a version of the spec: the current one, unless tasks
\* are added to a graph in SPEC.design.
Replans ==
  /\ cursor \in {"SPEC.design", "EXECUTE.plan"}
  /\ cursor = "EXECUTE.plan" => basedOn' = spec.version
  /\ basedOn' \in {basedOn, spec.version}
  /\ basedOn' > 0
  /\ UNCHANGED spec

LEMMA ScenarioShape ==
  ASSUME inputs \in Scenarios
  PROVE  /\ inputs.specs \subseteq Content
         /\ inputs.items \subseteq Item
         /\ \A p \in inputs.plans \cup inputs.adds : IsPlan(p) /\ Len(p) \in Nat
BY ScenariosAssumption DEF IsScenario

LEMMA PlanStep ==
  ASSUME [Next]_vars, inputs \in Scenarios, spec \in SpecShape
  PROVE  \/ UNCHANGED <<spec, basedOn>>
         \/ Respecifies /\ Stays /\ UNCHANGED basedOn
         \/ Replans /\ Stays
<1> USE DEF session, plan, ledger, Stays
<1>1. CASE UNCHANGED vars \/ Advance \/ Settle \/ Escalate \/ ApproveSpecLock
             \/ ApproveVerifyAccept \/ GateReject
  BY <1>1 DEF vars, Advance, Settle, MoveTo, Escalate, ApproveSpecLock, ApproveVerifyAccept, GateReject
<1>2. CASE SpecSubmit \/ SpecEdit
  <2>1. PICK content \in inputs.specs \cup Written : Respecified(content)
    BY <1>2 DEF SpecSubmit, SpecEdit
  <2>2. content.items \subseteq Item /\ content.unclear \in BOOLEAN
    BY <2>1, ScenarioShape DEF Content, Written, SpecShape
  <2>3. spec' = [version |-> spec.version + 1, items |-> content.items, unclear |-> content.unclear]
    BY <2>1 DEF Respecified, NextVersion
  <2>4. spec' \in SpecShape /\ spec'.version = spec.version + 1
    BY <2>2, <2>3 DEF SpecShape
  <2> QED
    BY <2>1, <2>4 DEF Respecified, Respecifies, SpecOpen, Allowed, KindSubStates
<1>3. CASE SpecAdd
  <2>1. PICK item \in inputs.items : SpecOpen /\ Extended(item)
    BY <1>3 DEF SpecAdd
  <2>2. item \in Item
    BY <2>1, ScenarioShape
  <2>3. spec' = [version |-> spec.version + 1, items |-> spec.items \cup {item},
                 unclear |-> spec.unclear]
    BY <2>1 DEF Extended, NextVersion, SpecShape
  <2>4. spec.items \cup {item} \subseteq Item /\ spec.version \in Nat /\ spec.unclear \in BOOLEAN
    BY <2>2 DEF SpecShape
  <2>5. spec' \in SpecShape /\ spec'.version = spec.version + 1
    BY <2>3, <2>4 DEF SpecShape
  <2> QED
    BY <1>3, <2>1, <2>5 DEF SpecAdd, Respecifies, SpecOpen, Allowed, KindSubStates
<1>4. CASE TasksSubmit
  <2>1. Allowed("event:tasks_planned", cursor) /\ basedOn' = spec.version /\ basedOn' > 0
    BY <1>4 DEF TasksSubmit, Planned
  <2> QED
    BY <1>4, <2>1 DEF TasksSubmit, Replans, Allowed, KindSubStates
<1>5. CASE TasksAdd
  <2>1. /\ cursor = "SPEC.design"
        /\ basedOn' = IF basedOn = 0 THEN spec.version ELSE basedOn
        /\ basedOn' > 0
        /\ Stays /\ UNCHANGED spec
    BY <1>5 DEF TasksAdd, Planned
  <2> QED
    BY <2>1 DEF Replans
<1>6. CASE TasksAddSponsored \/ TasksAmendSponsored \/ TasksAmendPolicy
  BY <1>6 DEF TasksAddSponsored, TasksAmendSponsored, TasksAmendPolicy
<1>7. CASE Claim \/ AbandonTask \/ StepStart \/ StepDone \/ RegisterRed
  BY <1>7 DEF Claim, AbandonTask, StepStart, StepDone, RegisterRed, Working
<1>8. CASE EvidenceAdd \/ Waive \/ RaiseLone \/ RaiseAmend \/ RaiseFix \/ FindingClose
  BY <1>8 DEF EvidenceAdd, Waive, RaiseLone, RaiseAmend, RaiseFix, FindingClose
<1>9. CASE PendingRaise \/ PendingResolve \/ LessonAdd
  BY <1>9 DEF PendingRaise, PendingResolve, LessonAdd
<1>10. CASE Deliver \/ Archive \/ AbandonSession \/ SpikeConvert
  BY <1>10 DEF Deliver, Archive, AbandonSession, SpikeConvert, EndAt
<1> QED
  BY <1>1, <1>2, <1>3, <1>4, <1>5, <1>6, <1>7, <1>8, <1>9, <1>10 DEF Next

-----------------------------------------------------------------------------
(* Work is done on the spec that is locked. The two properties are not      *)
(* inductive: what saves them is that nothing is specified in TRIAGE, that   *)
(* no state of SPEC is locked, so that the edge from SPEC.design is taken by *)
(* the gate alone, and that the gate saw the plan on the current version.    *)

SpecInv ==
  /\ inputs \in Scenarios
  /\ cursor \in SubStates
  /\ {locked, accepted} \subseteq BOOLEAN
  /\ iteration \in Nat
  /\ spec \in SpecShape
  /\ cursor \in TRIAGE => spec.version = 0
  /\ cursor \in TRIAGE \cup SPEC => ~locked
  /\ ExecutesLockedSpec
  /\ LockedPlanCurrent

LEMMA SpecInit == Init => SpecInv
<1> SUFFICES ASSUME Init PROVE SpecInv
  OBVIOUS
<1>1. spec \in SpecShape /\ spec.version = 0
  BY DEF Init, Spec0, SpecShape
<1> QED
  BY <1>1 DEF Init, SpecInv, SubStates, TRIAGE, SPEC, ExecutesLockedSpec, LockedPlanCurrent

\* The moves of a session under an unchanged plan.
LEMMA SpecMove ==
  ASSUME SpecInv, UNCHANGED <<spec, basedOn>>, inputs' = inputs,
         Ends \/ Returns \/ (\E to \in SubStates : MoveTo(to)) \/ ApproveSpecLock
  PROVE  SpecInv'
<1> USE DEF SpecInv, ExecutesLockedSpec, LockedPlanCurrent
<1>1. CASE Ends
  BY <1>1 DEF Ends, EndAt, Deliverable, Allowed, KindSubStates, TRIAGE, SPEC, EXECUTE, VERIFY,
              SETTLE, DONE, SubStates
<1>2. CASE Returns
  <2>1. PICK action \in BackEdgeActions : GoBack(action) /\ (action = "amend-spec" => locked)
    BY <1>2 DEF Returns
  <2>2. cursor \in EXECUTE \cup VERIFY /\ cursor' = BackEdgeTarget(action)
    BY <2>1 DEF GoBack, ValidBackEdge, BackEdgeFrom, EXECUTE, VERIFY
  <2>3. CASE action = "amend-spec"
    <3>1. cursor' = "SPEC.spec" /\ accepted' = accepted /\ iteration' = iteration + 1
          /\ (locked' <=> locked /\ cursor' # "SPEC.spec") /\ locked' \in BOOLEAN
      BY <2>1, <2>3 DEF GoBack, BackEdgeTarget
    <3>2. locked' = FALSE
      BY <3>1
    <3> QED
      BY <3>1, <3>2 DEF SubStates, TRIAGE, SPEC, EXECUTE, VERIFY, SETTLE, DONE
  <2>4. CASE action # "amend-spec"
    BY <2>1, <2>2, <2>4 DEF GoBack, BackEdgeTarget, SubStates, TRIAGE, SPEC, EXECUTE, VERIFY, SETTLE, DONE
  <2> QED
    BY <2>3, <2>4
<1>3. ASSUME NEW to \in SubStates, MoveTo(to) PROVE SpecInv'
  <2>1. CanAdvance(cursor, to, ceremony, locked, accepted) /\ cursor' = to
        /\ locked' = (locked /\ to # "SPEC.spec") /\ UNCHANGED <<accepted, iteration>>
    BY <1>3 DEF MoveTo
  <2>2. locked' \in BOOLEAN /\ accepted' \in BOOLEAN
    BY <2>1
  <2> QED
    BY <2>1, <2>2, EdgeShape DEF TRIAGE, SPEC, EXECUTE, VERIFY, SETTLE, SubStates, DONE
<1>4. CASE ApproveSpecLock
  BY <1>4 DEF ApproveSpecLock, SpecLockCheck, HasSpec, SubStates, TRIAGE, SPEC, EXECUTE, VERIFY,
              SETTLE, DONE
<1> QED
  BY <1>1, <1>2, <1>3, <1>4

LEMMA SpecStep == SpecInv /\ [Next]_vars => SpecInv'
<1> SUFFICES ASSUME SpecInv, [Next]_vars PROVE SpecInv'
  OBVIOUS
<1> USE DEF SpecInv, ExecutesLockedSpec, LockedPlanCurrent
<1>1. CASE UNCHANGED <<spec, basedOn>>
  <2>1. CASE Stays
    BY <1>1, <2>1 DEF Stays
  <2>2. CASE ApproveVerifyAccept
    BY <1>1, <2>2 DEF ApproveVerifyAccept
  <2>3. CASE Ends \/ Returns \/ (\E to \in SubStates : MoveTo(to)) \/ ApproveSpecLock
    <3>1. inputs' = inputs
      BY <2>3 DEF Ends, EndAt, Returns, MoveTo, ApproveSpecLock
    <3> QED
      BY <1>1, <2>3, <3>1, SpecMove
  <2> QED
    BY <2>1, <2>2, <2>3, SessionStep
<1>2. CASE Respecifies /\ Stays /\ UNCHANGED basedOn
  BY <1>2 DEF Respecifies, Stays, TRIAGE, SPEC, EXECUTE, VERIFY, SETTLE, SpecShape
<1>3. CASE Replans /\ Stays
  BY <1>3 DEF Replans, Stays, TRIAGE, SPEC, EXECUTE, VERIFY, SETTLE
<1> QED
  BY <1>1, <1>2, <1>3, PlanStep

\* Whatever is worked on, verified and delivered rests on a locked spec, or on no
\* spec at all, and the tasks of a locked spec were planned on its version.
THEOREM SpecInvHolds == Spec => []SpecInv
<1> QED
  BY SpecInit, SpecStep, PTL DEF Spec

THEOREM WorkOnLockedSpec == Spec => []ExecutesLockedSpec
<1>1. SpecInv => ExecutesLockedSpec
  BY DEF SpecInv
<1> QED
  BY <1>1, SpecInvHolds, PTL

THEOREM PlanOfLockedSpec == Spec => []LockedPlanCurrent
<1>1. SpecInv => LockedPlanCurrent
  BY DEF SpecInv
<1> QED
  BY <1>1, SpecInvHolds, PTL

-----------------------------------------------------------------------------
(* A waiting decision holds the session. *)

LEMMA Held ==
  ASSUME [Next]_vars, cursor' # cursor, cursor' \notin DONE
  PROVE  ~Blocks(pending')
<1>1. CASE Stays \/ Ends \/ ApproveVerifyAccept
  BY <1>1 DEF Stays, Ends, EndAt, ApproveVerifyAccept
<1>2. CASE Returns
  BY <1>2 DEF Returns, GoBack
<1>3. CASE \E to \in SubStates : MoveTo(to)
  BY <1>3 DEF MoveTo, ledger
<1>4. CASE ApproveSpecLock
  BY <1>4 DEF ApproveSpecLock
<1> QED
  BY <1>1, <1>2, <1>3, <1>4, SessionStep

\* No command moves a session, on or back, past a gate or an escalation that is
\* at the head of its decisions.
THEOREM DecisionsHold == Spec => BlockedByDecision
<1>1. [Next]_vars => [cursor' # cursor /\ cursor' \notin DONE => ~Blocks(pending')]_vars
  BY Held
<1> QED
  BY <1>1, PTL DEF Spec, BlockedByDecision

-----------------------------------------------------------------------------
(* Past EXECUTE all work is final: tasks change only before the work is     *)
(* declared done, or on a way back to it.                                    *)

LEMMA TaskStep ==
  ASSUME [Next]_vars
  PROVE  \/ UNCHANGED tasks
         \/ cursor \in {"SPEC.design", "EXECUTE.plan", "EXECUTE.work"} /\ UNCHANGED cursor
         \/ cursor' = "EXECUTE.work"
<1> USE DEF session, plan, ledger
<1>1. CASE UNCHANGED vars \/ Advance \/ Settle \/ Escalate \/ ApproveSpecLock
             \/ ApproveVerifyAccept \/ GateReject
  BY <1>1 DEF vars, Advance, Settle, MoveTo, Escalate, ApproveSpecLock, ApproveVerifyAccept, GateReject
<1>2. CASE SpecSubmit \/ SpecEdit \/ SpecAdd
  BY <1>2 DEF SpecSubmit, SpecEdit, SpecAdd, Respecified
<1>3. CASE TasksSubmit
  BY <1>3 DEF TasksSubmit, Allowed, KindSubStates
<1>4. CASE TasksAdd
  BY <1>4 DEF TasksAdd
<1>5. CASE TasksAddSponsored \/ TasksAmendSponsored \/ TasksAmendPolicy
  BY <1>5 DEF TasksAddSponsored, TasksAmendSponsored, TasksAmendPolicy, SponsoredAdd,
              SponsoredReplace, Sponsored, PlanReplace
<1>6. CASE Claim \/ AbandonTask \/ StepStart \/ StepDone \/ RegisterRed
  BY <1>6 DEF Claim, AbandonTask, StepStart, StepDone, RegisterRed, Working, Allowed, KindSubStates
<1>7. CASE EvidenceAdd \/ Waive \/ RaiseLone \/ RaiseAmend \/ FindingClose
  BY <1>7 DEF EvidenceAdd, Waive, RaiseLone, RaiseAmend, FindingClose
<1>8. CASE RaiseFix
  BY <1>8 DEF RaiseFix, GoBack, BackEdgeTarget, FixActions
<1>9. CASE PendingRaise \/ PendingResolve \/ LessonAdd
  BY <1>9 DEF PendingRaise, PendingResolve, LessonAdd
<1>10. CASE Deliver \/ Archive \/ AbandonSession \/ SpikeConvert
  BY <1>10 DEF Deliver, Archive, AbandonSession, SpikeConvert, EndAt
<1> QED
  BY <1>1, <1>2, <1>3, <1>4, <1>5, <1>6, <1>7, <1>8, <1>9, <1>10 DEF Next

LEMMA FinalStep == FinalPastExecute /\ [Next]_vars => FinalPastExecute'
<1> SUFFICES ASSUME FinalPastExecute, [Next]_vars, cursor' \in PastExecute
             PROVE  \A t \in DOMAIN tasks' : tasks'[t].status \in Final
  BY DEF FinalPastExecute, PastExecute
<1> USE DEF PastExecute, VERIFY, SETTLE
<1>1. tasks' = tasks
  BY TaskStep
<1>2. CASE cursor \in PastExecute
  BY <1>1, <1>2 DEF FinalPastExecute
<1>3. CASE cursor \notin PastExecute
  <2>1. CASE Stays \/ ApproveVerifyAccept \/ ApproveSpecLock
    BY <1>3, <2>1 DEF Stays, ApproveVerifyAccept, ApproveSpecLock
  <2>2. CASE Ends
    BY <1>3, <2>2 DEF Ends, EndAt, Deliverable, Allowed, KindSubStates, DONE
  <2>3. CASE Returns
    BY <1>3, <2>3 DEF Returns, GoBack, BackEdgeTarget
  <2>4. ASSUME NEW to \in SubStates, MoveTo(to)
        PROVE  \A t \in DOMAIN tasks : tasks[t].status \in Final
    <3>1. CanAdvance(cursor, to, ceremony, locked, accepted) /\ cursor' = to
      BY <2>4 DEF MoveTo
    <3>2. cursor = "EXECUTE.work" /\ to = "EXECUTE.done"
      BY <1>3, <3>1, EdgeShape DEF SPEC, TRIAGE
    <3> QED
      BY <2>4, <3>2 DEF MoveTo
  <2> QED
    BY <1>1, <2>1, <2>2, <2>3, <2>4, SessionStep
<1> QED
  BY <1>2, <1>3

\* Whatever a session goes through, nothing unfinished is verified, settled or
\* delivered.
THEOREM WorkIsFinal == Spec => []FinalPastExecute
<1>1. Init => FinalPastExecute
  BY DEF Init, FinalPastExecute, PastExecute, VERIFY, SETTLE
<1> QED
  BY <1>1, FinalStep, PTL DEF Spec

-----------------------------------------------------------------------------
(* The session implements its abstract life. *)

\* The phases are a partition of the sub-states.
LEMMA Phases ==
  ASSUME NEW c
  PROVE  /\ c \in TRIAGE => PhaseOf(c) = "TRIAGE"
         /\ c \in SPEC => PhaseOf(c) = "SPEC"
         /\ c \in EXECUTE => PhaseOf(c) = "EXECUTE"
         /\ c \in VERIFY => PhaseOf(c) = "VERIFY"
         /\ c \in SETTLE => PhaseOf(c) = "SETTLE"
         /\ c = "DONE.delivered" => PhaseOf(c) = "DELIVERED"
         /\ c \in DONE \ {"DONE.delivered"} => PhaseOf(c) = "CLOSED"
<1> USE DEF PhaseOf, TRIAGE, SPEC, EXECUTE, VERIFY, SETTLE, DONE
<1>1. c \in TRIAGE => PhaseOf(c) = "TRIAGE"
  OBVIOUS
<1>2. c \in SPEC => PhaseOf(c) = "SPEC"
  OBVIOUS
<1>3. c \in EXECUTE => PhaseOf(c) = "EXECUTE"
  OBVIOUS
<1>4. c \in VERIFY => PhaseOf(c) = "VERIFY"
  OBVIOUS
<1>5. c \in SETTLE => PhaseOf(c) = "SETTLE"
  OBVIOUS
<1>6. c = "DONE.delivered" => PhaseOf(c) = "DELIVERED"
  OBVIOUS
<1>7. c \in DONE \ {"DONE.delivered"} => PhaseOf(c) = "CLOSED"
  OBVIOUS
<1> QED
  BY <1>1, <1>2, <1>3, <1>4, <1>5, <1>6, <1>7

LEMMA LifeInit == Init => Life!Init
BY Phases DEF Init, Life!Init, TRIAGE

LEMMA LifeMove ==
  ASSUME SpecInv, SpecInv', NEW to \in SubStates, MoveTo(to)
  PROVE  [Life!Next]_(Life!lifecycle)
<1>1. /\ CanAdvance(cursor, to, ceremony, locked, accepted) /\ cursor' = to
      /\ locked' = (locked /\ to # "SPEC.spec")
      /\ UNCHANGED <<accepted, iteration>>
  BY DEF MoveTo
<1>2. locked \in BOOLEAN /\ accepted \in BOOLEAN /\ cursor \in SubStates
      /\ (cursor \in SPEC => ~locked)
  BY DEF SpecInv
<1>3. locked' = locked
  BY <1>1, <1>2, EdgeShape DEF TRIAGE, SPEC, EXECUTE, VERIFY, SETTLE
<1>4. CASE PhaseOf(cursor') = PhaseOf(cursor)
  BY <1>1, <1>3, <1>4 DEF Life!lifecycle
<1>5. CASE cursor \in TRIAGE
  <2>1. cursor' \in TRIAGE \cup {"SPEC.proposal", "EXECUTE.plan"}
    BY <1>1, <1>5, EdgeShape DEF TRIAGE, SPEC, EXECUTE, VERIFY
  <2>2. PhaseOf(cursor) = "TRIAGE" /\ PhaseOf(cursor') \in {"TRIAGE", "SPEC", "EXECUTE"}
    BY <1>5, <2>1, Phases DEF SPEC, EXECUTE
  <2> QED
    BY <1>1, <1>3, <1>4, <2>2 DEF Life!Next, Life!Specify, Life!Start, Life!Goes
<1>6. CASE cursor \in SPEC
  <2>1. cursor' \in SPEC \/ (cursor' = "EXECUTE.plan" /\ locked)
    BY <1>1, <1>6, EdgeShape DEF TRIAGE, SPEC, EXECUTE, VERIFY
  <2>2. PhaseOf(cursor) = "SPEC" /\ PhaseOf(cursor') = "SPEC"
    BY <1>2, <1>6, <2>1, Phases
  <2> QED
    BY <1>4, <2>2
<1>7. CASE cursor \in EXECUTE
  <2>1. cursor' \in EXECUTE \/ cursor' = "VERIFY.plan"
    BY <1>1, <1>7, EdgeShape DEF TRIAGE, SPEC, EXECUTE, VERIFY
  <2>2. PhaseOf(cursor) = "EXECUTE" /\ PhaseOf(cursor') \in {"EXECUTE", "VERIFY"}
    BY <1>7, <2>1, Phases DEF VERIFY
  <2> QED
    BY <1>1, <1>3, <1>4, <2>2 DEF Life!Next, Life!Verify, Life!Goes
<1>8. CASE cursor \in VERIFY
  <2>1. cursor' \in VERIFY \/ (cursor' = "SETTLE.lessons" /\ accepted)
    BY <1>1, <1>8, EdgeShape DEF TRIAGE, SPEC, EXECUTE, VERIFY
  <2>2. PhaseOf(cursor) = "VERIFY" /\ PhaseOf(cursor') \in {"VERIFY", "SETTLE"}
        /\ (PhaseOf(cursor') = "SETTLE" => accepted)
    BY <1>8, <2>1, Phases DEF SETTLE
  <2> QED
    BY <1>1, <1>3, <1>4, <2>2 DEF Life!Next, Life!Settle, Life!Goes
<1> QED
  BY <1>1, <1>5, <1>6, <1>7, <1>8, EdgeShape DEF TRIAGE, SPEC, EXECUTE, VERIFY

LEMMA LifeReturn ==
  ASSUME SpecInv, SpecInv', Returns
  PROVE  Life!Next
<1>1. PICK action \in BackEdgeActions : GoBack(action) /\ (action = "amend-spec" => locked)
  BY DEF Returns
<1>2. /\ cursor \in EXECUTE \cup VERIFY
      /\ cursor' = BackEdgeTarget(action)
      /\ locked' = (locked /\ cursor' # "SPEC.spec")
      /\ iteration' = iteration + 1
      /\ accepted' = accepted
  BY <1>1 DEF GoBack, ValidBackEdge, BackEdgeFrom
<1>3. PhaseOf(cursor) \in {"EXECUTE", "VERIFY"}
  BY <1>2, Phases
<1>4. CASE action = "amend-spec"
  <2>1. PhaseOf(cursor') = "SPEC" /\ locked
    BY <1>1, <1>2, <1>4, Phases DEF BackEdgeTarget, SPEC
  <2>2. ~locked'
    BY <1>2, <1>4 DEF BackEdgeTarget
  <2> QED
    BY <1>2, <1>3, <2>1, <2>2 DEF Life!Next, Life!Respecify, Life!Goes
<1>5. CASE action # "amend-spec"
  <2>1. PhaseOf(cursor') = "EXECUTE"
    BY <1>2, <1>5, Phases DEF BackEdgeTarget, EXECUTE
  <2>2. locked' = locked
    BY <1>2, <1>5 DEF BackEdgeTarget, SpecInv
  <2> QED
    BY <1>2, <1>3, <2>1, <2>2 DEF Life!Next, Life!Rework, Life!Goes
<1> QED
  BY <1>4, <1>5

LEMMA LifeEnd ==
  ASSUME SpecInv, Ends
  PROVE  Life!Next
<1>1. PICK to \in DONE : /\ EndAt(to) /\ cursor \in SubStates \ DONE
                         /\ to = "DONE.delivered" => Deliverable
  BY DEF Ends
<1>2. cursor' = to /\ UNCHANGED <<locked, accepted, iteration>>
  BY <1>1 DEF EndAt
<1>3. CASE to = "DONE.delivered"
  <2>1. cursor \in {"EXECUTE.done", "VERIFY.accept", "SETTLE.lessons"}
        /\ (cursor # "EXECUTE.done" => accepted)
    BY <1>1, <1>3 DEF Deliverable, Allowed, KindSubStates
  <2>2. /\ PhaseOf(cursor) \in {"EXECUTE", "VERIFY", "SETTLE"}
        /\ PhaseOf(cursor) # "EXECUTE" => accepted
        /\ PhaseOf(cursor') = "DELIVERED"
    BY <1>2, <1>3, <2>1, Phases DEF EXECUTE, VERIFY, SETTLE
  <2> QED
    BY <1>2, <2>2 DEF Life!Next, Life!Deliver, Life!Goes
<1>4. CASE to # "DONE.delivered"
  <2>1. PhaseOf(cursor) \in Life!Open
    BY <1>1, Phases DEF Life!Open, SubStates
  <2>2. PhaseOf(cursor') = "CLOSED"
    BY <1>1, <1>2, <1>4, Phases
  <2> QED
    BY <1>2, <2>1, <2>2 DEF Life!Next, Life!Close, Life!Goes
<1> QED
  BY <1>3, <1>4

LEMMA LifeStep ==
  ASSUME SpecInv, SpecInv', [Next]_vars
  PROVE  [Life!Next]_(Life!lifecycle)
<1>1. CASE Stays
  BY <1>1 DEF Stays, Life!lifecycle
<1>2. CASE ApproveSpecLock
  <2>1. cursor = "SPEC.design" /\ cursor' = "EXECUTE.plan" /\ locked' = TRUE
        /\ UNCHANGED <<accepted, iteration>>
    BY <1>2 DEF ApproveSpecLock, GateOpen, GateAt
  <2>2. PhaseOf(cursor) = "SPEC" /\ PhaseOf(cursor') = "EXECUTE"
    BY <2>1, Phases DEF SPEC, EXECUTE
  <2> QED
    BY <2>1, <2>2 DEF Life!Next, Life!Lock, Life!Goes
<1>3. CASE ApproveVerifyAccept
  <2>1. cursor = "VERIFY.accept" /\ accepted' = TRUE /\ UNCHANGED <<cursor, locked, iteration>>
    BY <1>3 DEF ApproveVerifyAccept, GateOpen, GateAt
  <2>2. PhaseOf(cursor) = "VERIFY" /\ PhaseOf(cursor') = "VERIFY"
    BY <2>1, Phases DEF VERIFY
  <2> QED
    BY <2>1, <2>2 DEF Life!Next, Life!Accept, Life!Goes
<1> QED
  BY <1>1, <1>2, <1>3, LifeMove, LifeReturn, LifeEnd, SessionStep

\* Every command of a session is a step of the abstract life, or none: the phases
\* cannot be left in any other way, for any ceremony and any escalation.
THEOREM SessionImplementsLifecycle == Spec => ImplementsLifecycle
<1>1. SpecInv /\ SpecInv' /\ [Next]_vars => [Life!Next]_(Life!lifecycle)
  BY LifeStep
<1> QED
  BY <1>1, LifeInit, SpecInvHolds, PTL DEF Spec, Life!Spec, ImplementsLifecycle
=============================================================================

-------------------------- MODULE WorkflowEndProofs --------------------------
(***************************************************************************)
(* Theorems about the ways back of a session, its acceptance, its delivery *)
(* and the advice it gives, for any scenario.                              *)
(***************************************************************************)
EXTENDS WorkflowTaskProofs, FiniteSetTheorems

-----------------------------------------------------------------------------
(* The iteration counts the findings that went back.                       *)

LEMMA BackSteps ==
  ASSUME [Next]_vars
  PROVE  \/ /\ iteration' = iteration
            /\ \/ findings' = findings
               \/ \E input \in inputs.raises :
                    findings' = Append(findings, Raised(input)) /\ input.action \notin BackEdgeActions
               \/ \E f \in DOMAIN findings : Closable(findings, f) /\ findings' = Closed(findings, f)
         \/ /\ iteration' = iteration + 1
            /\ \E input \in inputs.raises :
                 findings' = Append(findings, Raised(input)) /\ input.action \in BackEdgeActions
<1> USE DEF session, plan, ledger
<1>1. CASE UNCHANGED vars \/ Advance \/ Settle \/ Escalate \/ ApproveSpecLock
             \/ ApproveVerifyAccept \/ GateReject
  BY <1>1 DEF vars, Advance, Settle, MoveTo, Escalate, ApproveSpecLock, ApproveVerifyAccept, GateReject
<1>2. CASE SpecSubmit \/ SpecEdit \/ SpecAdd
  BY <1>2 DEF SpecSubmit, SpecEdit, SpecAdd, Respecified
<1>3. CASE TasksSubmit \/ TasksAdd \/ TasksAddSponsored \/ TasksAmendSponsored \/ TasksAmendPolicy
  BY <1>3 DEF TasksSubmit, TasksAdd, TasksAddSponsored, TasksAmendSponsored, TasksAmendPolicy
<1>4. CASE Claim \/ AbandonTask \/ StepStart \/ StepDone \/ RegisterRed
  BY <1>4 DEF Claim, AbandonTask, StepStart, StepDone, RegisterRed, Working
<1>5. CASE EvidenceAdd \/ Waive \/ RaiseLone \/ FindingClose
  BY <1>5 DEF EvidenceAdd, Waive, RaiseLone, RaiseEntry, FindingClose
<1>6. CASE RaiseAmend \/ RaiseFix
  BY <1>6 DEF RaiseAmend, RaiseFix, RaiseEntry, GoBack, BackEdgeActions, FixActions
<1>7. CASE PendingRaise \/ PendingResolve \/ LessonAdd
  BY <1>7 DEF PendingRaise, PendingResolve, LessonAdd
<1>8. CASE Deliver \/ Archive \/ AbandonSession \/ SpikeConvert
  BY <1>8 DEF Deliver, Archive, AbandonSession, SpikeConvert, EndAt
<1> QED
  BY <1>1, <1>2, <1>3, <1>4, <1>5, <1>6, <1>7, <1>8 DEF Next

WentBack(fs) == {f \in DOMAIN fs : fs[f].action \in BackEdgeActions}

LEMMA WentBackFinite ==
  ASSUME NEW fs \in Seq(Finding)
  PROVE  IsFiniteSet(WentBack(fs)) /\ Cardinality(WentBack(fs)) \in Nat
<1>1. WentBack(fs) \subseteq 1..Len(fs) /\ Len(fs) \in Nat
  BY DEF WentBack
<1>2. IsFiniteSet(1..Len(fs))
  BY <1>1, FS_Interval
<1> QED
  BY <1>1, <1>2, FS_Subset, FS_CardinalityType

LEMMA WentBackAppend ==
  ASSUME NEW fs \in Seq(Finding), NEW f
  PROVE  Cardinality(WentBack(Append(fs, f)))
           = Cardinality(WentBack(fs)) + (IF f.action \in BackEdgeActions THEN 1 ELSE 0)
<1> DEFINE n == Len(fs) + 1
<1>1. /\ Len(fs) \in Nat /\ DOMAIN fs = 1..Len(fs) /\ DOMAIN Append(fs, f) = 1..n
      /\ Append(fs, f)[n] = f /\ \A k \in 1..Len(fs) : Append(fs, f)[k] = fs[k]
  OBVIOUS
<1>2. n \notin WentBack(fs)
  BY <1>1 DEF WentBack
<1>3. CASE f.action \in BackEdgeActions
  <2>1. WentBack(Append(fs, f)) = WentBack(fs) \cup {n}
    BY <1>1, <1>3 DEF WentBack
  <2> QED
    BY <1>2, <1>3, <2>1, WentBackFinite, FS_AddElement
<1>4. CASE f.action \notin BackEdgeActions
  <2>1. WentBack(Append(fs, f)) = WentBack(fs)
    BY <1>1, <1>4 DEF WentBack
  <2> QED
    BY <1>4, <2>1, WentBackFinite
<1> QED
  BY <1>3, <1>4

LEMMA CountStep ==
  ASSUME SessionInv, IterationCountsBackEdges, [Next]_vars
  PROVE  IterationCountsBackEdges'
<1> USE DEF IterationCountsBackEdges
<1>1. findings \in Seq(Finding) /\ iteration = 1 + Cardinality(WentBack(findings))
      /\ Cardinality(WentBack(findings)) \in Nat
  BY WentBackFinite DEF SessionInv, LedgerInv, WentBack
<1>2. SUFFICES iteration' = 1 + Cardinality(WentBack(findings'))
  BY DEF WentBack
<1>3. CASE iteration' = iteration /\ findings' = findings
  BY <1>1, <1>3
<1>4. ASSUME iteration' = iteration, NEW f \in DOMAIN findings, findings' = Closed(findings, f)
      PROVE  iteration' = 1 + Cardinality(WentBack(findings'))
  <2>1. findings \in [1..Len(findings) -> Finding] /\ Len(findings) \in Nat
    BY <1>1
  <2>2. DOMAIN findings' = DOMAIN findings
        /\ \A k \in DOMAIN findings : findings'[k].action = findings[k].action
    BY <1>4, <2>1 DEF Closed, Finding
  <2>3. WentBack(findings') = WentBack(findings)
    BY <2>2 DEF WentBack
  <2> QED
    BY <1>1, <1>4, <2>3
<1>5. ASSUME NEW input \in inputs.raises, findings' = Append(findings, Raised(input)),
             iteration' = iteration + (IF input.action \in BackEdgeActions THEN 1 ELSE 0)
      PROVE  iteration' = 1 + Cardinality(WentBack(findings'))
  <2>1. Raised(input).action = input.action
    BY DEF Raised
  <2>2. Cardinality(WentBack(findings')) = Cardinality(WentBack(findings))
          + (IF input.action \in BackEdgeActions THEN 1 ELSE 0)
    BY <1>1, <1>5, <2>1, WentBackAppend
  <2> QED
    BY <1>1, <1>5, <2>2
<1>6. iteration \in Nat
  BY DEF SessionInv, SpecInv
<1> QED
  BY <1>3, <1>4, <1>5, <1>6, BackSteps

\* Every way back is one finding, and every such finding was a way back.
THEOREM BackEdgesCounted == Spec => []IterationCountsBackEdges
<1>1. Init => IterationCountsBackEdges
  <2>1. ASSUME Init PROVE {f \in DOMAIN findings : findings[f].action \in BackEdgeActions} = {}
    BY <2>1 DEF Init
  <2> QED
    BY <2>1, FS_EmptySet DEF Init, IterationCountsBackEdges
<1>2. SessionInv /\ IterationCountsBackEdges /\ [Next]_vars => IterationCountsBackEdges'
  BY CountStep
<1> QED
  BY <1>1, <1>2, SessionInvHolds, PTL DEF Spec

-----------------------------------------------------------------------------
(* What is delivered has had what its ceremony demands.                    *)

\* A session that is over changes in its decisions only.
LEMMA OverStep ==
  ASSUME [Next]_vars, cursor \in DONE
  PROVE  UNCHANGED <<session, plan, evidence, findings, inputs>>
<1> USE DEF session, plan, ledger, DONE
<1>1. CASE UNCHANGED vars \/ GateReject
  BY <1>1 DEF vars, GateReject
<1>2. CASE Advance \/ Settle
  <2>1. PICK to \in SubStates : CanAdvance(cursor, to, ceremony, locked, accepted)
    BY <1>2 DEF Advance, Settle, MoveTo, SubStates, SETTLE
  <2> QED
    BY <2>1, EdgeShape DEF TRIAGE, SPEC, EXECUTE, VERIFY
<1>3. CASE Escalate \/ ApproveSpecLock \/ ApproveVerifyAccept
  BY <1>3 DEF Escalate, ApproveSpecLock, ApproveVerifyAccept, GateOpen, GateAt, Allowed,
              KindSubStates, TRIAGE, SPEC, EXECUTE
<1>4. CASE SpecSubmit \/ SpecEdit \/ SpecAdd
  BY <1>4 DEF SpecSubmit, SpecEdit, SpecAdd, Respecified, SpecOpen, Allowed, KindSubStates, SPEC
<1>5. CASE TasksSubmit \/ TasksAdd \/ TasksAddSponsored \/ TasksAmendSponsored \/ TasksAmendPolicy
  BY <1>5 DEF TasksSubmit, TasksAdd, TasksAddSponsored, TasksAmendSponsored, TasksAmendPolicy,
              Allowed, KindSubStates, SponsoredAdd, SponsoredReplace, Sponsored, PlanReplace
<1>6. CASE Claim \/ AbandonTask \/ StepStart \/ StepDone \/ RegisterRed
  BY <1>6 DEF Claim, AbandonTask, StepStart, StepDone, RegisterRed, Working, Allowed, KindSubStates
<1>7. CASE EvidenceAdd \/ Waive
  BY <1>7 DEF EvidenceAdd, Waive, Allowed, KindSubStates, EXECUTE, VERIFY
<1>8. CASE RaiseAmend \/ RaiseFix
  BY <1>8 DEF RaiseAmend, RaiseFix, RaiseEntry, Allowed, KindSubStates, EXECUTE, VERIFY
<1>9. CASE RaiseLone \/ FindingClose \/ PendingRaise \/ PendingResolve
  BY <1>9 DEF RaiseLone, RaiseEntry, FindingClose, PendingRaise, PendingResolve, Answered, Allowed,
              KindSubStates, EXECUTE, VERIFY
<1>10. CASE LessonAdd \/ Archive \/ AbandonSession \/ SpikeConvert \/ Deliver
  BY <1>10 DEF LessonAdd, Archive, AbandonSession, SpikeConvert, Deliver, Deliverable, Allowed,
               KindSubStates
<1> QED
  BY <1>1, <1>2, <1>3, <1>4, <1>5, <1>6, <1>7, <1>8, <1>9, <1>10 DEF Next

\* Only a delivery delivers.
LEMMA DeliveryStep ==
  ASSUME [Next]_vars, cursor \notin DONE, cursor' = "DONE.delivered"
  PROVE  Deliverable /\ EndAt("DONE.delivered")
<1>1. CASE Stays \/ ApproveVerifyAccept \/ ApproveSpecLock
  BY <1>1 DEF Stays, ApproveVerifyAccept, ApproveSpecLock, DONE
<1>2. CASE Ends
  BY <1>2 DEF Ends, EndAt
<1>3. CASE Returns
  BY <1>3 DEF Returns, GoBack, BackEdgeTarget
<1>4. ASSUME NEW to \in SubStates, MoveTo(to) PROVE FALSE
  <2>1. CanAdvance(cursor, to, ceremony, locked, accepted) /\ to = "DONE.delivered"
    BY <1>4 DEF MoveTo
  <2> QED
    BY <2>1, EdgeShape DEF TRIAGE, SPEC, EXECUTE, VERIFY
<1> QED
  BY <1>1, <1>2, <1>3, <1>4, SessionStep

LEMMA DeliveredStep ==
  ASSUME SessionInv, DeliveredMeetsCeremony, [Next]_vars
  PROVE  DeliveredMeetsCeremony'
<1> SUFFICES ASSUME cursor' = "DONE.delivered" PROVE DeliveredMeetsCeremony'
  BY DEF DeliveredMeetsCeremony, Delivered
<1>1. CASE cursor \in DONE
  <2>1. UNCHANGED <<cursor, ceremony, accepted, lessons, tasks, evidence>>
    BY <1>1, OverStep DEF session, plan
  <2> QED
    BY <2>1 DEF DeliveredMeetsCeremony, Delivered, LiveSpike, VerifyMin, DoneTasks, ProofGap
<1>2. CASE cursor \notin DONE
  <2>1. Deliverable /\ EndAt("DONE.delivered")
    BY <1>2, DeliveryStep
  <2>2. UNCHANGED <<ceremony, accepted, lessons, tasks, evidence>>
    BY <2>1 DEF EndAt, plan, ledger
  <2>3. /\ ~LiveSpike
        /\ ceremony.verify_phase => accepted
        /\ ~accepted => VerifyMin(tasks, evidence)
        /\ ceremony.verify_phase /\ ceremony.settle_phase /\ ceremony.lessons_required = "must" =>
             lessons > 0
    <3>1. lessons \in Nat
      BY DEF SessionInv, LedgerInv
    <3> QED
      BY <2>1, <3>1 DEF Deliverable, Allowed, KindSubStates, LessonOwed
  <2> QED
    BY <2>2, <2>3 DEF DeliveredMeetsCeremony, LiveSpike, VerifyMin, DoneTasks, ProofGap
<1> QED
  BY <1>1, <1>2

\* Under every ceremony and every escalation.
THEOREM DeliveriesMeetCeremony == Spec => []DeliveredMeetsCeremony
<1>1. Init => DeliveredMeetsCeremony
  BY DEF Init, DeliveredMeetsCeremony, Delivered
<1>2. SessionInv /\ DeliveredMeetsCeremony /\ [Next]_vars => DeliveredMeetsCeremony'
  BY DeliveredStep
<1> QED
  BY <1>1, <1>2, SessionInvHolds, PTL DEF Spec

-----------------------------------------------------------------------------
(* What was accepted stays.                                                *)

\* Proof of work grows with the evidence.
LEMMA ProofGrows ==
  ASSUME NEW s, NEW ts, NEW b, NEW ev, NEW more, ev \subseteq more, NEW fs, NEW gs,
         Actionable(gs) \subseteq Actionable(fs), WorkProved(s, ts, b, ev, fs)
  PROVE  WorkProved(s, ts, b, more, gs)
<1>1. LanesPassed(s, ts, more)
  BY DEF WorkProved, LanesPassed
<1>2. NoOpenFindings(gs)
  BY DEF WorkProved, NoOpenFindings
<1>3. Covered(s, more)
  BY DEF WorkProved, Covered
<1>4. TasksProved(s, ts, b, more)
  BY DEF WorkProved, TasksProved, ProofGap
<1> QED
  BY <1>1, <1>2, <1>3, <1>4 DEF WorkProved

\* No command between the acceptance and the delivery touches spec or tasks.
LEMMA AcceptedPlan ==
  ASSUME SessionInv, [Next]_vars, cursor \in Accepted, cursor' \in Accepted
  PROVE  UNCHANGED <<spec, tasks, basedOn>>
<1>1. inputs \in Scenarios /\ spec \in SpecShape
  BY DEF SessionInv, SpecInv
<1>2. cursor \notin SPEC /\ cursor \notin {"EXECUTE.plan", "EXECUTE.work"}
  BY DEF Accepted, SPEC, SETTLE
<1>3. cursor' # "EXECUTE.work"
  BY DEF Accepted, SETTLE
<1>4. UNCHANGED <<spec, basedOn>>
  BY <1>1, <1>2, PlanStep DEF Respecifies, Replans, SPEC
<1>5. UNCHANGED tasks
  BY <1>2, <1>3, TaskStep DEF SPEC
<1> QED
  BY <1>4, <1>5

\* ... and a finding that is raised there is deferred.
LEMMA AcceptedFindings ==
  ASSUME SessionInv, [Next]_vars, cursor \in Accepted, cursor' \in Accepted
  PROVE  Actionable(findings') \subseteq Actionable(findings)
<1>1. findings \in Seq(Finding) /\ inputs \in Scenarios
  BY DEF SessionInv, LedgerInv
<1>2. CASE findings' = findings
  BY <1>2
<1>3. ASSUME NEW f \in DOMAIN findings, findings' = Closed(findings, f)
      PROVE  Actionable(findings') \subseteq Actionable(findings)
  BY <1>1, <1>3 DEF Closed, Actionable, Finding
<1>4. ASSUME NEW input \in inputs.raises, findings' = Append(findings, Raised(input)),
             input.action \notin BackEdgeActions
      PROVE  Actionable(findings') \subseteq Actionable(findings)
  <2>1. input.action \in {"defer", "backlog"}
    BY <1>1, <1>4, LedgerShape DEF Actions, BackEdgeActions
  <2>2. \A k \in DOMAIN findings' : findings'[k] = Raised(input) \/ (k \in DOMAIN findings /\ findings'[k] = findings[k])
    BY <1>1, <1>4
  <2> QED
    BY <2>1, <2>2 DEF Actionable, Raised
<1>5. ASSUME NEW input \in inputs.raises, input.action \in BackEdgeActions,
             iteration' = iteration + 1
      PROVE  FALSE
  <2>1. iteration \in Nat /\ iteration' # iteration
    BY <1>5 DEF SessionInv, SpecInv
  <2>2. Returns
    BY <2>1, SessionStep DEF Stays, Ends, EndAt, MoveTo, ApproveSpecLock, ApproveVerifyAccept
  <2> QED
    BY <2>2 DEF Returns, GoBack, BackEdgeTarget, Accepted, SETTLE
<1> QED
  BY <1>2, <1>3, <1>4, <1>5, BackSteps

LEMMA AcceptedStep ==
  ASSUME SessionInv, [Next]_vars, cursor \in Accepted, cursor' \in Accepted,
         WorkProved(spec, tasks, basedOn, evidence, findings)
  PROVE  WorkProved(spec, tasks, basedOn, evidence, findings)'
<1>1. inputs \in Scenarios
  BY DEF SessionInv, SpecInv
<1>2. evidence \subseteq evidence'
  BY <1>1, LedgerSteps
<1>3. WorkProved(spec, tasks, basedOn, evidence', findings')
  BY <1>2, AcceptedFindings, ProofGrows
<1> QED
  BY <1>3, AcceptedPlan

\* Between the acceptance and the delivery nothing undoes what was accepted.
THEOREM AcceptedWorkStands == Spec => AcceptanceStands
<1>1. SessionInv /\ [Next]_vars =>
        [ /\ accepted /\ cursor \in Accepted /\ cursor' \in Accepted
          /\ WorkProved(spec, tasks, basedOn, evidence, findings)
          => WorkProved(spec, tasks, basedOn, evidence, findings)' ]_vars
  BY AcceptedStep
<1> QED
  BY <1>1, SessionInvHolds, PTL DEF Spec, AcceptanceStands

-----------------------------------------------------------------------------
(* What `loaf next` advises.                                               *)

\* The sub-states with one edge of event:phase_advanced and no command of their own.
Onward(c, cer) ==
  \/ c \in {"TRIAGE.score", "TRIAGE.confirm", "SPEC.proposal", "SPEC.spec", "SPEC.plan",
            "EXECUTE.plan", "VERIFY.plan"}
  \/ c = "EXECUTE.done" /\ cer.verify_phase

OnwardTo(c, cer) ==
  CASE c = "TRIAGE.score" -> "TRIAGE.confirm"
    [] c = "TRIAGE.confirm" -> IF cer.spec_phase THEN "SPEC.proposal" ELSE "EXECUTE.plan"
    [] c = "SPEC.proposal" -> "SPEC.spec"
    [] c = "SPEC.spec" -> "SPEC.plan"
    [] c = "SPEC.plan" -> "SPEC.design"
    [] c = "EXECUTE.plan" -> "EXECUTE.work"
    [] c = "EXECUTE.done" -> "VERIFY.plan"
    [] c = "VERIFY.plan" -> "VERIFY.run"

LEMMA OneTarget ==
  ASSUME NEW c, NEW cer, NEW l, NEW a, Onward(c, cer)
  PROVE  NextLegalTargets(c, cer, l, a) = {OnwardTo(c, cer)}
<1> USE DEF NextLegalTargets, CanAdvance, LegalTransitions, TriageEdges, SpecEdges, ExecuteEdges,
            VerifyEdges, Edge, SubStates, TRIAGE, SPEC, EXECUTE, VERIFY
<1>a. /\ Passes("spec_phase_required", cer, l, a) <=> cer.spec_phase
      /\ Passes("spec_phase_forbidden", cer, l, a) <=> ~cer.spec_phase
      /\ Passes("verify_phase_required", cer, l, a) <=> cer.verify_phase
  BY DEF Passes
<1>1. c = "TRIAGE.score" => NextLegalTargets(c, cer, l, a) = {"TRIAGE.confirm"}
  OBVIOUS
<1>2. c = "TRIAGE.confirm" /\ cer.spec_phase => NextLegalTargets(c, cer, l, a) = {"SPEC.proposal"}
  BY <1>a
<1>3. c = "TRIAGE.confirm" /\ ~cer.spec_phase => NextLegalTargets(c, cer, l, a) = {"EXECUTE.plan"}
  BY <1>a
<1>4. c = "SPEC.proposal" => NextLegalTargets(c, cer, l, a) = {"SPEC.spec"}
  OBVIOUS
<1>5. c = "SPEC.spec" => NextLegalTargets(c, cer, l, a) = {"SPEC.plan"}
  OBVIOUS
<1>6. c = "SPEC.plan" => NextLegalTargets(c, cer, l, a) = {"SPEC.design"}
  OBVIOUS
<1>7. c = "EXECUTE.plan" => NextLegalTargets(c, cer, l, a) = {"EXECUTE.work"}
  OBVIOUS
<1>8. c = "EXECUTE.done" /\ cer.verify_phase => NextLegalTargets(c, cer, l, a) = {"VERIFY.plan"}
  BY <1>a
<1>9. c = "VERIFY.plan" => NextLegalTargets(c, cer, l, a) = {"VERIFY.run"}
  OBVIOUS
<1> QED
  BY <1>1, <1>2, <1>3, <1>4, <1>5, <1>6, <1>7, <1>8, <1>9 DEF Onward, OnwardTo

\* From a check of VERIFY every later one, and the acceptance, can be reached.
LEMMA NextCheck ==
  ASSUME NEW c \in {"VERIFY.run", "VERIFY.review", "VERIFY.acceptance", "VERIFY.visual"},
         NEW lanes, NEW cer, NEW l, NEW a
  PROVE  VerifyNextTarget(c, lanes) \in NextLegalTargets(c, cer, l, a)
<1> DEFINE after == {i \in 1..4 : i > VerifyRank(c) /\ LaneOf[i] \in lanes}
           first == CHOOSE i \in after : \A j \in after : i <= j
<1>1. VerifyRank(c) = CASE c = "VERIFY.run" -> 1 [] c = "VERIFY.review" -> 2
                        [] c = "VERIFY.acceptance" -> 3 [] c = "VERIFY.visual" -> 4
  BY DEF VerifyRank, VerifyOrder
<1>2. after # {} => first \in after
  <2>1. ASSUME after # {} PROVE \E i \in after : \A j \in after : i <= j
    <3>1. CASE 1 \in after
      BY <3>1
    <3>2. CASE 1 \notin after /\ 2 \in after
      BY <3>2
    <3>3. CASE 1 \notin after /\ 2 \notin after /\ 3 \in after
      BY <3>3
    <3>4. CASE 1 \notin after /\ 2 \notin after /\ 3 \notin after
      BY <2>1, <3>4
    <3> QED
      BY <3>1, <3>2, <3>3, <3>4
  <2> QED
    BY <2>1
<1>3. VerifyNextTarget(c, lanes) = IF after = {} THEN "VERIFY.accept" ELSE VerifyOrder[first]
  BY DEF VerifyNextTarget
<1>4. after # {} => first \in 1..4 /\ first > VerifyRank(c)
  BY <1>2
<1> HIDE DEF after, first
<1>5. VerifyNextTarget(c, lanes) \in
        CASE c = "VERIFY.run" -> {"VERIFY.review", "VERIFY.acceptance", "VERIFY.visual", "VERIFY.accept"}
          [] c = "VERIFY.review" -> {"VERIFY.acceptance", "VERIFY.visual", "VERIFY.accept"}
          [] c = "VERIFY.acceptance" -> {"VERIFY.visual", "VERIFY.accept"}
          [] c = "VERIFY.visual" -> {"VERIFY.accept"}
  BY <1>1, <1>3, <1>4 DEF VerifyOrder
<1>6. ASSUME NEW to \in VERIFY, Edge(c, to, {}) \in VerifyEdges
      PROVE  to \in NextLegalTargets(c, cer, l, a)
  BY <1>6 DEF NextLegalTargets, CanAdvance, LegalTransitions, Edge, SubStates
<1>7. CASE c = "VERIFY.run"
  <2>1. \A to \in {"VERIFY.review", "VERIFY.acceptance", "VERIFY.visual", "VERIFY.accept"} :
          to \in VERIFY /\ Edge(c, to, {}) \in VerifyEdges
    BY <1>7 DEF VerifyEdges, VERIFY
  <2> QED
    BY <1>5, <1>6, <1>7, <2>1
<1>8. CASE c = "VERIFY.review"
  <2>1. \A to \in {"VERIFY.acceptance", "VERIFY.visual", "VERIFY.accept"} :
          to \in VERIFY /\ Edge(c, to, {}) \in VerifyEdges
    BY <1>8 DEF VerifyEdges, VERIFY
  <2> QED
    BY <1>5, <1>6, <1>8, <2>1
<1>9. CASE c = "VERIFY.acceptance"
  <2>1. \A to \in {"VERIFY.visual", "VERIFY.accept"} :
          to \in VERIFY /\ Edge(c, to, {}) \in VerifyEdges
    BY <1>9 DEF VerifyEdges, VERIFY
  <2> QED
    BY <1>5, <1>6, <1>9, <2>1
<1>10. CASE c = "VERIFY.visual"
  <2>1. "VERIFY.accept" \in VERIFY /\ Edge(c, "VERIFY.accept", {}) \in VerifyEdges
    BY <1>10 DEF VerifyEdges, VERIFY
  <2> QED
    BY <1>5, <1>6, <1>10, <2>1
<1> QED
  BY <1>7, <1>8, <1>9, <1>10

\* Only what was accepted is settled, and no acceptance is ever taken back.
SettledAccepted == cursor \in SETTLE => accepted

LEMMA SettledStep ==
  ASSUME SessionInv, SettledAccepted, [Next]_vars
  PROVE  SettledAccepted'
<1> USE DEF SettledAccepted, SETTLE
<1>1. CASE Stays
  BY <1>1 DEF Stays
<1>2. CASE ApproveVerifyAccept \/ ApproveSpecLock
  BY <1>2 DEF ApproveVerifyAccept, ApproveSpecLock
<1>3. CASE Ends
  BY <1>3 DEF Ends, EndAt, DONE
<1>4. CASE Returns
  BY <1>4 DEF Returns, GoBack, BackEdgeTarget
<1>5. ASSUME NEW to \in SubStates, MoveTo(to) PROVE SettledAccepted'
  <2>1. CanAdvance(cursor, to, ceremony, locked, accepted) /\ cursor' = to /\ accepted' = accepted
    BY <1>5 DEF MoveTo
  <2> QED
    BY <2>1, EdgeShape DEF TRIAGE, SPEC, EXECUTE, VERIFY
<1> QED
  BY <1>1, <1>2, <1>3, <1>4, <1>5, SessionStep

\* Without a waiting decision the sub-state has one way on.
LEMMA OwnedTransition ==
  ASSUME SessionInv, SettledAccepted, cursor \notin DONE, pending = <<>>, NEW lanes
  PROVE  \E a : Advised(lanes) = {a} /\ Legal(a)
<1> DEFINE targets == NextLegalTargets(cursor, ceremony, locked, accepted)
           owner == TransitionOwner(cursor, ceremony, locked, accepted, lessons, lanes)
           check == VerifyNextTarget(cursor, lanes)
<1>1. /\ cursor \in TRIAGE \cup SPEC \cup EXECUTE \cup VERIFY \cup SETTLE
      /\ cursor \in SPEC => ~locked
      /\ locked \in BOOLEAN /\ accepted \in BOOLEAN /\ ceremony \in CeremonyShape
  BY DEF SessionInv, SpecInv, LedgerInv, SubStates
<1>2. Advised(lanes) = owner
  BY DEF Advised, NextAction
<1>3. ~Blocks(pending) /\ GateFree(pending)
  BY DEF Blocks, HeadIs, GateFree
\* Where the command is `loaf advance`, to one target.
<1>4. ASSUME NEW to \in targets, owner = {Advice("advance", to)}
      PROVE  \E a : Advised(lanes) = {a} /\ Legal(a)
  <2>1. CanAdvance(cursor, to, ceremony, locked, accepted)
    BY DEF NextLegalTargets
  <2>2. Legal(Advice("advance", to))
    BY <1>3, <2>1 DEF Legal, Advice
  <2> QED
    BY <1>2, <1>4, <2>2
<1>5. CASE Onward(cursor, ceremony)
  <2> DEFINE to == OnwardTo(cursor, ceremony)
  <2>1. targets = {to}
    BY <1>5, OneTarget
  <2> HIDE DEF to
  <2>2. owner = {Advice("advance", x) :
                   x \in IF cursor \in VERIFY /\ check \in targets THEN {check} ELSE targets}
    BY <1>5 DEF TransitionOwner, Onward, DONE
  <2>3. owner = {Advice("advance", to)}
    BY <2>1, <2>2
  <2> QED
    BY <1>4, <2>1, <2>3
<1>6. CASE cursor \in {"VERIFY.run", "VERIFY.review", "VERIFY.acceptance", "VERIFY.visual"}
  <2>1. check \in targets
    BY <1>6, NextCheck
  <2>2. owner = {Advice("advance", x) :
                   x \in IF cursor \in VERIFY /\ check \in targets THEN {check} ELSE targets}
    BY <1>6 DEF TransitionOwner, DONE
  <2>3. owner = {Advice("advance", check)}
    BY <1>6, <2>1, <2>2 DEF VERIFY
  <2> QED
    BY <1>4, <2>1, <2>3
<1>7. CASE cursor = "SPEC.design"
  <2>1. owner = {Advice("gate decide", "spec-lock")}
    BY <1>1, <1>7 DEF TransitionOwner, SPEC
  <2>2. Legal(Advice("gate decide", "spec-lock"))
    BY <1>3, <1>7 DEF Legal, Advice, Allowed, KindSubStates
  <2> QED
    BY <1>2, <2>1, <2>2
<1>8. CASE cursor = "VERIFY.accept" /\ ~accepted
  <2>1. owner = {Advice("gate decide", "verify-accept")}
    BY <1>8 DEF TransitionOwner
  <2>2. Legal(Advice("gate decide", "verify-accept"))
    BY <1>3, <1>8 DEF Legal, Advice, Allowed, KindSubStates
  <2> QED
    BY <1>2, <2>1, <2>2
<1>9. CASE cursor = "VERIFY.accept" /\ accepted /\ ceremony.settle_phase
  <2>1. owner = {Advice("settle", "SETTLE.lessons")}
    BY <1>9 DEF TransitionOwner
  <2>2. CanAdvance(cursor, "SETTLE.lessons", ceremony, locked, accepted)
    <3>1. Edge("VERIFY.accept", "SETTLE.lessons",
               {"settle_phase_required", "verify_accepted_required"}) \in LegalTransitions
      BY DEF LegalTransitions, VerifyEdges
    <3>2. Passes("settle_phase_required", ceremony, locked, accepted)
          /\ Passes("verify_accepted_required", ceremony, locked, accepted)
      BY <1>9 DEF Passes
    <3> QED
      BY <1>9, <3>1, <3>2 DEF CanAdvance, Edge
  <2>3. Legal(Advice("settle", "SETTLE.lessons"))
    BY <1>3, <2>2 DEF Legal, Advice
  <2> QED
    BY <1>2, <2>1, <2>3
<1>10. ASSUME owner = {Advice("deliver", "DONE.delivered")},
              cursor \in {"EXECUTE.done", "VERIFY.accept", "SETTLE.lessons"},
              cursor # "EXECUTE.done" => accepted, ~LessonOwed(cursor, ceremony, lessons)
       PROVE  \E a : Advised(lanes) = {a} /\ Legal(a)
  <2>1. Legal(Advice("deliver", "DONE.delivered"))
    BY <1>10 DEF Legal, Advice, Allowed, KindSubStates
  <2> QED
    BY <1>2, <1>10, <2>1
<1>11. CASE cursor = "EXECUTE.work"
  <2>1. owner = {Advice("tasks next", "task-level")}
    BY <1>11 DEF TransitionOwner
  <2>2. Legal(Advice("tasks next", "task-level"))
    BY <1>11 DEF Legal, Advice, Allowed, KindSubStates
  <2> QED
    BY <1>2, <2>1, <2>2
<1>12. CASE cursor = "EXECUTE.done" /\ ~ceremony.verify_phase
  BY <1>10, <1>12 DEF TransitionOwner, LessonOwed
<1>13. CASE cursor = "VERIFY.accept" /\ accepted /\ ~ceremony.settle_phase
  BY <1>10, <1>13 DEF TransitionOwner, LessonOwed
<1>14. CASE cursor = "SETTLE.lessons"
  <2>1. CASE LessonOwed(cursor, ceremony, lessons)
    <3>1. owner = {Advice("lessons add", "SETTLE.lessons")}
      BY <1>14, <2>1 DEF TransitionOwner
    <3>2. Legal(Advice("lessons add", "SETTLE.lessons"))
      BY <1>14 DEF Legal, Advice, Allowed, KindSubStates, SubStates, SETTLE, DONE
    <3> QED
      BY <1>2, <3>1, <3>2
  <2>2. CASE ~LessonOwed(cursor, ceremony, lessons)
    <3>1. owner = {Advice("deliver", "DONE.delivered")}
      BY <1>14, <2>2 DEF TransitionOwner
    <3>2. accepted
      BY <1>14 DEF SettledAccepted, SETTLE
    <3> QED
      BY <1>10, <1>14, <2>2, <3>1, <3>2
  <2> QED
    BY <2>1, <2>2
<1> HIDE DEF owner, targets, check
<1> QED
  BY <1>1, <1>5, <1>6, <1>7, <1>8, <1>9, <1>11, <1>12, <1>13, <1>14
     DEF Onward, TRIAGE, SPEC, EXECUTE, VERIFY, SETTLE

\* A waiting decision comes first, and can be answered.
LEMMA OwnedDecision ==
  ASSUME SessionInv, cursor \notin DONE, pending # <<>>, NEW lanes
  PROVE  \E a : Advised(lanes) = {a} /\ Legal(a)
<1> DEFINE kind == pending[1]
           a == DecisionOwner(kind, GateAt(cursor))
<1>1. Advised(lanes) = {a}
  BY DEF Advised, NextAction
<1>2. kind = Head(pending)
  BY DEF SessionInv, LedgerInv
<1> HIDE DEF kind, a
<1>3. CASE kind = "gate_decision" /\ GateAt(cursor) # "none"
  <2>1. a = Advice("gate decide", GateAt(cursor))
    BY <1>3 DEF DecisionOwner, a
  <2>2. Allowed("gate:decided", cursor)
    BY <1>3 DEF GateAt, Allowed, KindSubStates
  <2>3. GateFree(pending)
    BY <1>2, <1>3 DEF GateFree, HeadIs
  <2>4. Legal(Advice("gate decide", GateAt(cursor)))
    BY <2>2, <2>3 DEF Legal, Advice
  <2> QED
    BY <1>1, <2>1, <2>4
<1>4. CASE kind = "profile_escalation"
  <2>1. a = Advice("profile escalate", "profile_escalation")
    BY <1>4 DEF DecisionOwner, a
  <2>2. Allowed("event:ceremony_set", cursor) \/ cursor \in VERIFY \cup SETTLE
    BY DEF SessionInv, SpecInv, SubStates, Allowed, KindSubStates
  <2>3. Legal(Advice("profile escalate", "profile_escalation"))
    BY <2>2 DEF Legal, Advice
  <2> QED
    BY <1>1, <2>1, <2>3
<1>5. CASE kind # "profile_escalation" /\ ~(kind = "gate_decision" /\ GateAt(cursor) # "none")
  <2>1. a = Advice("pending resolve", kind)
    BY <1>5 DEF DecisionOwner, a
  <2>2. HeadIs(pending, {kind})
    BY <1>2 DEF HeadIs
  <2>3. Legal(Advice("pending resolve", kind))
    BY <2>2 DEF Legal, Advice
  <2> QED
    BY <1>1, <2>1, <2>3
<1> QED
  BY <1>3, <1>4, <1>5

\* Under every ceremony, for every queue of decisions and every set of lanes, a
\* session that is not over has one next command, which is admitted.
THEOREM AdviceHolds == Spec => []AdviceIsLegal
<1>1. SessionInv /\ SettledAccepted => AdviceIsLegal
  <2> SUFFICES ASSUME SessionInv, SettledAccepted, cursor \notin DONE, NEW lanes
               PROVE  Cardinality(Advised(lanes)) = 1 /\ \A x \in Advised(lanes) : Legal(x)
    BY DEF AdviceIsLegal
  <2>1. PICK a : Advised(lanes) = {a} /\ Legal(a)
    BY OwnedTransition, OwnedDecision
  <2> QED
    BY <2>1, FS_Singleton
<1>2. Init => SettledAccepted
  BY DEF Init, SettledAccepted, SETTLE
<1>3. SessionInv /\ SettledAccepted /\ [Next]_vars => SettledAccepted'
  BY SettledStep
<1> QED
  BY <1>1, <1>2, <1>3, SessionInvHolds, PTL DEF Spec

-----------------------------------------------------------------------------
(* What an acceptance is worth. Nothing takes it back, so a session that   *)
(* returns with it settles work the gate has not seen. That is the only way: *)
(* as long as nothing returns once it is accepted, what is settled is proved. *)

LEMMA AcceptEdge ==
  ASSUME NEW to, NEW c, NEW l, NEW a, CanAdvance("VERIFY.accept", to, c, l, a)
  PROVE  to = "SETTLE.lessons"
<1>1. PICK e \in LegalTransitions : e.from = "VERIFY.accept" /\ e.to = to
  BY DEF CanAdvance
<1> QED
  BY <1>1 DEF LegalTransitions, TriageEdges, SpecEdges, ExecuteEdges, VerifyEdges, Edge

AcceptedProved ==
  /\ accepted => cursor \in {"VERIFY.accept"} \cup SETTLE \cup DONE
  /\ accepted /\ cursor \in Accepted => WorkProved(spec, tasks, basedOn, evidence, findings)

\* No command returns to SPEC or EXECUTE once the session is accepted.
KeepsAcceptance == accepted => iteration' = iteration

LEMMA AcceptedProvedStep ==
  ASSUME SessionInv, AcceptedProved, [Next]_vars, [KeepsAcceptance]_vars
  PROVE  AcceptedProved'
<1> USE DEF AcceptedProved
<1>1. {accepted, accepted'} \subseteq BOOLEAN /\ iteration \in Nat
  BY SessionInvStep DEF SessionInv, SpecInv
<1>2. ASSUME accepted, accepted' = accepted, cursor' \in {"VERIFY.accept"} \cup SETTLE \cup DONE,
             cursor' = cursor \/ cursor \notin DONE
      PROVE  AcceptedProved'
  <2> SUFFICES ASSUME cursor' \in Accepted
               PROVE  WorkProved(spec, tasks, basedOn, evidence, findings)'
    BY <1>2
  <2>1. cursor \in Accepted
    BY <1>2 DEF Accepted, DONE
  <2> QED
    BY <1>2, <2>1, AcceptedStep
<1>3. CASE Stays
  BY <1>1, <1>2, <1>3 DEF Stays
<1>4. CASE ApproveVerifyAccept
  <2>1. cursor = "VERIFY.accept" /\ cursor' = cursor
    BY <1>4 DEF ApproveVerifyAccept, GateOpen, GateAt
  <2>2. WorkProved(spec, tasks, basedOn, evidence, findings)
    BY <1>4 DEF ApproveVerifyAccept, VerifyAcceptCheck
  <2>3. UNCHANGED <<spec, tasks, basedOn, evidence, findings>>
    BY <1>4 DEF ApproveVerifyAccept, plan
  <2> QED
    BY <2>1, <2>2, <2>3
<1>5. CASE ApproveSpecLock
  BY <1>1, <1>5 DEF ApproveSpecLock, GateOpen, GateAt, SETTLE, DONE
<1>6. CASE Ends
  BY <1>1, <1>2, <1>6 DEF Ends, EndAt
<1>7. CASE Returns
  <2>1. iteration' # iteration /\ accepted' = accepted
    BY <1>1, <1>7 DEF Returns, GoBack
  <2> QED
    BY <1>1, <2>1 DEF KeepsAcceptance, vars, session
<1>8. ASSUME NEW to \in SubStates, MoveTo(to) PROVE AcceptedProved'
  <2>1. CanAdvance(cursor, to, ceremony, locked, accepted) /\ cursor' = to /\ accepted' = accepted
    BY <1>8 DEF MoveTo
  <2>2. ASSUME accepted PROVE cursor = "VERIFY.accept"
    BY <2>1, <2>2, EdgeShape DEF TRIAGE, SPEC, EXECUTE, VERIFY, SETTLE, DONE
  <2>3. ASSUME accepted PROVE cursor' \in SETTLE /\ cursor \notin DONE
    BY <2>1, <2>2, <2>3, AcceptEdge DEF SETTLE, DONE
  <2> QED
    BY <1>1, <1>2, <2>1, <2>3
<1> QED
  BY <1>3, <1>4, <1>5, <1>6, <1>7, <1>8, SessionStep

LEMMA AcceptedProvedHolds == Spec /\ [][KeepsAcceptance]_vars => []AcceptedProved
<1>1. Init => AcceptedProved
  BY DEF Init, AcceptedProved
<1>2. SessionInv /\ AcceptedProved /\ [Next]_vars /\ [KeepsAcceptance]_vars => AcceptedProved'
  BY AcceptedProvedStep
<1> QED
  BY <1>1, <1>2, SessionInvHolds, PTL DEF Spec

\* What the run WorkflowStaleAccept shows takes a return after the acceptance:
\* without one, a session that is settled, or delivered under a ceremony that
\* verifies, has its lanes, coverage and tasks proved and no finding open.
THEOREM SettledIsProved ==
  Spec /\ [][KeepsAcceptance]_vars =>
    /\ []NothingOpenPastAccept
    /\ [](cursor \in SETTLE \/ (Delivered /\ ceremony.verify_phase) =>
            WorkProved(spec, tasks, basedOn, evidence, findings))
<1>1. Init => SettledAccepted
  BY DEF Init, SettledAccepted, SETTLE
<1>2. SessionInv /\ SettledAccepted /\ [Next]_vars => SettledAccepted'
  BY SettledStep
<1>3. AcceptedProved /\ SettledAccepted /\ DeliveredMeetsCeremony =>
        (cursor \in SETTLE \/ (Delivered /\ ceremony.verify_phase) =>
           WorkProved(spec, tasks, basedOn, evidence, findings))
  BY DEF AcceptedProved, SettledAccepted, DeliveredMeetsCeremony, Delivered, Accepted
<1>4. (cursor \in SETTLE \/ (Delivered /\ ceremony.verify_phase) =>
         WorkProved(spec, tasks, basedOn, evidence, findings)) => NothingOpenPastAccept
  BY DEF NothingOpenPastAccept, WorkProved
<1> QED
  BY <1>1, <1>2, <1>3, <1>4, SessionInvHolds, AcceptedProvedHolds, DeliveriesMeetCeremony, PTL DEF Spec

-----------------------------------------------------------------------------
(* The end of a session, and its record.                                   *)

OverStays == cursor \in DONE => UNCHANGED <<session, plan, evidence, findings>>

\* A session that is over stays as it ended: of everything the snapshot holds,
\* only the queue of decisions can still change.
THEOREM OverIsOver == Spec => [][OverStays]_vars
<1>1. [Next]_vars => [OverStays]_vars
  BY OverStep DEF OverStays
<1> QED
  BY <1>1, PTL DEF Spec

\* What a later session may rely on of an earlier one.
RecordKept ==
  /\ evidence \subseteq evidence'
  /\ \A f \in DOMAIN findings :
       /\ f \in DOMAIN findings'
       /\ findings'[f].action = findings[f].action
       /\ findings'[f].target = findings[f].target
       /\ findings[f].status = "closed" => findings'[f].status = "closed"
  /\ accepted => accepted'
  /\ iteration <= iteration' /\ spec.version <= spec'.version /\ issued <= issued'
  /\ lessons <= lessons'

LEMMA FindingsKept ==
  ASSUME SessionInv, [Next]_vars, NEW f \in DOMAIN findings
  PROVE  /\ f \in DOMAIN findings'
         /\ findings'[f].action = findings[f].action
         /\ findings'[f].target = findings[f].target
         /\ findings[f].status = "closed" => findings'[f].status = "closed"
<1>1. findings \in [1..Len(findings) -> Finding] /\ Len(findings) \in Nat /\ inputs \in Scenarios
  BY DEF SessionInv, LedgerInv
<1>2. CASE findings' = findings
  BY <1>2
<1>3. ASSUME NEW input \in inputs.raises, findings' = Append(findings, Raised(input))
      PROVE  f \in DOMAIN findings' /\ findings'[f] = findings[f]
  <2>1. findings \in Seq(Finding) /\ DOMAIN findings = 1..Len(findings)
    BY <1>1 DEF SessionInv, LedgerInv
  <2>2. DOMAIN findings' = 1..(Len(findings) + 1)
        /\ \A k \in 1..Len(findings) : findings'[k] = findings[k]
    BY <1>3, <2>1
  <2> QED
    BY <1>1, <2>1, <2>2
<1>4. ASSUME NEW g \in DOMAIN findings, Closable(findings, g), findings' = Closed(findings, g)
      PROVE  /\ f \in DOMAIN findings'
             /\ findings'[f].action = findings[f].action
             /\ findings'[f].target = findings[f].target
             /\ findings[f].status = "closed" => findings'[f].status = "closed"
  BY <1>1, <1>4 DEF Closed, Closable, Finding
<1> QED
  BY <1>1, <1>2, <1>3, <1>4, LedgerSteps

LEMMA CountersGrow ==
  ASSUME SessionInv, [Next]_vars
  PROVE  /\ accepted => accepted'
         /\ iteration <= iteration' /\ spec.version <= spec'.version /\ lessons <= lessons'
<1>1. /\ iteration \in Nat /\ spec.version \in Nat /\ lessons \in Nat /\ spec \in SpecShape
      /\ inputs \in Scenarios
  BY DEF SessionInv, SpecInv, LedgerInv, SpecShape
<1>2. iteration <= iteration'
  BY <1>1, BackSteps
<1>3. spec.version <= spec'.version
  BY <1>1, PlanStep DEF Respecifies, Replans
<1>4. lessons <= lessons'
  BY <1>1, LedgerSteps
<1>5. accepted => accepted'
  BY SessionStep DEF Stays, Ends, EndAt, Returns, GoBack, MoveTo, ApproveSpecLock, ApproveVerifyAccept
<1> QED
  BY <1>2, <1>3, <1>4, <1>5

LEMMA IssuedGrows ==
  ASSUME SessionInv, [Next]_vars
  PROVE  issued <= issued'
<1> USE DEF session, plan, ledger
<1>1. issued \in Nat /\ inputs \in Scenarios
  BY DEF SessionInv, TaskInv, SpecInv
<1>2. SUFFICES issued' = issued \/ \E p \in inputs.plans \cup inputs.adds : issued' = issued + Len(p)
  <2>1. ASSUME NEW p \in inputs.plans \cup inputs.adds, issued' = issued + Len(p)
        PROVE  issued <= issued'
    <3>1. Len(p) \in Nat
      BY <1>1, InputShape
    <3> QED
      BY <1>1, <2>1, <3>1
  <2> QED
    BY <1>1, <2>1
<1>3. CASE UNCHANGED vars \/ Advance \/ Settle \/ Escalate \/ ApproveSpecLock
             \/ ApproveVerifyAccept \/ GateReject
  BY <1>3 DEF vars, Advance, Settle, MoveTo, Escalate, ApproveSpecLock, ApproveVerifyAccept, GateReject
<1>4. CASE SpecSubmit \/ SpecEdit \/ SpecAdd
  BY <1>4 DEF SpecSubmit, SpecEdit, SpecAdd, Respecified
<1>5. CASE TasksSubmit \/ TasksAdd \/ TasksAddSponsored \/ TasksAmendSponsored \/ TasksAmendPolicy
  BY <1>5 DEF TasksSubmit, TasksAdd, TasksAddSponsored, SponsoredAdd, TasksAmendSponsored,
              TasksAmendPolicy, Planned, LastId
<1>6. CASE Claim \/ AbandonTask \/ StepStart \/ StepDone \/ RegisterRed \/ RaiseFix
  BY <1>6 DEF Claim, AbandonTask, StepStart, StepDone, RegisterRed, Working, RaiseFix
<1>7. CASE EvidenceAdd \/ Waive \/ RaiseLone \/ RaiseAmend \/ FindingClose
  BY <1>7 DEF EvidenceAdd, Waive, RaiseLone, RaiseAmend, FindingClose
<1>8. CASE PendingRaise \/ PendingResolve \/ LessonAdd
  BY <1>8 DEF PendingRaise, PendingResolve, LessonAdd
<1>9. CASE Deliver \/ Archive \/ AbandonSession \/ SpikeConvert
  BY <1>9 DEF Deliver, Archive, AbandonSession, SpikeConvert, EndAt
<1> QED
  BY <1>3, <1>4, <1>5, <1>6, <1>7, <1>8, <1>9 DEF Next

\* No command rewrites what was found or proved: findings keep their place, their
\* action and their target, a closed one is not reopened, evidence is never
\* withdrawn, and iteration, spec version, task ids and lessons never go back.
THEOREM RecordIsKept == Spec => [][RecordKept]_vars
<1>1. ASSUME SessionInv, [Next]_vars PROVE RecordKept
  <2>1. inputs \in Scenarios
    BY <1>1 DEF SessionInv, SpecInv
  <2>2. evidence \subseteq evidence'
    BY <1>1, <2>1, LedgerSteps
  <2>3. issued <= issued'
    BY <1>1, IssuedGrows
  <2> QED
    BY <1>1, <2>2, <2>3, FindingsKept, CountersGrow DEF RecordKept
<1>2. SessionInv /\ [Next]_vars => [RecordKept]_vars
  BY <1>1
<1> QED
  BY <1>2, SessionInvHolds, PTL DEF Spec
=============================================================================

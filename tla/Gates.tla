------------------------------- MODULE Gates -------------------------------
(***************************************************************************)
(* What evidence proves and what the two gates and a delivery without a    *)
(* VERIFY phase demand: pure functions of the spec, the tasks, the         *)
(* evidence and the findings.                                              *)
(***************************************************************************)
EXTENDS TaskGraph, Interventions

ItemTypes == {"REQ", "SCEN", "VIS"}

\* A requirement, a scenario or a visual contract: `na` if it is marked as not
\* to be accepted, `e2e` the tag of a scenario.
Item == [id : ItemIds, type : ItemTypes, na : BOOLEAN, e2e : BOOLEAN]

\* The spec of the snapshot. Version 0: nothing was submitted.
Spec0 == [version |-> 0, items |-> {}, unclear |-> FALSE]
SpecShape == [version : Nat, items : SUBSET Item, unclear : BOOLEAN]

\* buildSpecFrontmatterFromSnapshot: there is a spec that a gate can judge.
HasSpec(spec) == spec.version > 0

\* What of the spec has to be proved.
Obligations(spec) ==
  {i \in spec.items : ~i.na /\ (i.type = "SCEN" => i.e2e)}

-----------------------------------------------------------------------------
EvidenceKinds == {"task-summary", "verify-review", "spec-review", "acceptance", "visual-review",
                  "gate-decision", "local-check", "manual", "waiver", "spike-finding"}

EvidenceResults == {"passed", "failed", "approved", "rejected", "waived"}

Checks == Lanes \cup {"none"}

\* `covers` names items and tasks. An actor is a person or the program itself;
\* `reasoned`: a reason of at least 10 characters, `attached`: an attachment.
IsEvidence(e) ==
  /\ e.kind \in EvidenceKinds
  /\ e.result \in EvidenceResults
  /\ e.check \in Checks
  /\ e.items \subseteq ItemIds
  /\ e.tasks \subseteq Nat
  /\ {e.reasoned, e.attached} \subseteq BOOLEAN

Human(e) == e.actor # "cli"

\* EvidenceFullPayload with its refinements.
EvidenceAdmitted(e) ==
  /\ IsEvidence(e)
  /\ e.kind \in {"manual", "waiver"} => Human(e) /\ e.reasoned
  /\ ~(e.kind = "manual" /\ e.result = "waived")
  /\ e.kind = "visual-review" => e.attached

\* buildWaiveEvidencePayload: a human waives one item or one task.
Waiver(items, tasks, actor) ==
  [kind |-> "waiver", result |-> "waived", check |-> "none", items |-> items, tasks |-> tasks,
   actor |-> actor, reasoned |-> TRUE, attached |-> FALSE]

\* isPassingResult
Passing(e) == e.result \in {"passed", "approved", "waived"}

\* EVIDENCE_COMPAT: which kinds may prove an obligation of a type.
Compat(type) ==
  CASE type = "REQ" -> {"task-summary", "verify-review", "spec-review", "manual", "waiver"}
    [] type = "SCEN" -> {"acceptance", "manual", "waiver"}
    [] type = "VIS" -> {"visual-review", "manual", "waiver"}

\* canSatisfy
CanSatisfy(e, type) ==
  /\ e.kind \in Compat(type)
  /\ e.kind \in {"manual", "waiver"} => Human(e) /\ e.reasoned
  /\ type = "VIS" /\ e.kind = "visual-review" => e.attached

-----------------------------------------------------------------------------
\* Mutant: the plan may be older than the spec.
SpecLockCheck_AnyPlan(spec, tasks, basedOn) ==
  /\ HasSpec(spec)
  /\ ~spec.unclear
  /\ \A i \in spec.items : i.type = "REQ" => \E t \in DOMAIN tasks : i.id \in tasks[t].drives

\* hasVerifiability and the obligations of each task kind (checks 5 and 8) hold
\* of every spec and every task that can be submitted.
SpecLockCheck(spec, tasks, basedOn) ==
  /\ HasSpec(spec)
  /\ ~spec.unclear
  /\ basedOn = spec.version
  /\ \A i \in spec.items :
       CASE i.type = "REQ" -> \E t \in DOMAIN tasks : i.id \in tasks[t].drives
         [] i.type = "SCEN" ->
              i.e2e /\ ~i.na =>
                \E t \in DOMAIN tasks : tasks[t].acceptance /\ i.id \in tasks[t].drives
         [] i.type = "VIS" ->
              ~i.na => \E t \in DOMAIN tasks :
                         tasks[t].kind = "visual-ui" /\ i.id \in tasks[t].visuals

DoneTasks(tasks) == {t \in DOMAIN tasks : tasks[t].status = "done"}

\* deriveVerifyLaneApplicability
ApplicableLanes(spec, tasks) ==
  LET owed == {i.type : i \in Obligations(spec)}
  IN  {lane \in Lanes :
         CASE lane = "run" -> DoneTasks(tasks) # {}
           [] lane = "review" -> DoneTasks(tasks) # {} \/ "REQ" \in owed
           [] lane = "acceptance" -> "SCEN" \in owed
           [] lane = "visual" -> "VIS" \in owed}

\* evidenceLane: the lane it names, or the one of its kind.
EvidenceLane(e) ==
  CASE e.check # "none" -> e.check
    [] e.check = "none" /\ e.kind \in {"local-check", "task-summary"} -> "run"
    [] e.check = "none" /\ e.kind \in {"verify-review", "spec-review"} -> "review"
    [] e.check = "none" /\ e.kind = "acceptance" -> "acceptance"
    [] e.check = "none" /\ e.kind = "visual-review" -> "visual"
    [] OTHER -> "none"

\* evalLaneStatus
LanesPassed(spec, tasks, evidence) ==
  \A lane \in ApplicableLanes(spec, tasks) :
    \E e \in evidence : EvidenceLane(e) = lane /\ Passing(e)

\* evalOpenFindings
NoOpenFindings(findings) == Actionable(findings) = {}

\* evalCoverage
Covered(spec, evidence) ==
  \A i \in Obligations(spec) :
    \E e \in evidence : Passing(e) /\ i.id \in e.items /\ CanSatisfy(e, i.type)

-----------------------------------------------------------------------------
\* evaluateTaskProof under a policy: the kinds it accepts, or a waiver.
ProofGap(tasks, t, kinds, evidence) ==
  \/ ~\E e \in evidence : Passing(e) /\ t \in e.tasks /\ e.kind \in kinds \cup {"waiver"}
  \/ tasks[t].kind = "behavioral" /\ tasks[t].bug /\ ~tasks[t].red

\* verifyMinPolicy
VerifyMinKinds(kind) ==
  CASE kind \in {"behavioral", "structural"} -> {"local-check"}
    [] kind = "visual-ui" -> {"visual-review", "manual"}
    [] kind = "docs" -> {"task-summary", "manual"}
    [] kind = "chore" -> {"local-check", "manual", "task-summary"}
    [] kind = "spike" -> {}

\* What `loaf deliver` demands where there is no VERIFY phase.
VerifyMin(tasks, evidence) ==
  \A t \in DoneTasks(tasks) : ~ProofGap(tasks, t, VerifyMinKinds(tasks[t].kind), evidence)

\* evalTaskEvidence under verifyAcceptPolicy; not applicable to a planned graph
\* of which nothing is done.
TasksProved(spec, tasks, basedOn, evidence) ==
  /\ basedOn # 0
  /\ DoneTasks(tasks) # {} => basedOn = spec.version
  /\ \A t \in DoneTasks(tasks) :
       ~ProofGap(tasks, t, {"task-summary", "local-check", "manual"}, evidence)

\* deriveImplementers
Implementers(tasks, evidence) ==
  {e.actor : e \in {x \in evidence : x.kind \in {"task-summary", "local-check"}
                                     /\ x.tasks \cap DoneTasks(tasks) # {} /\ Human(x)}}

\* evalSpecReview: somebody who did not implement has reviewed.
SpecReviewed(tasks, evidence) ==
  LET reviews == {e \in evidence : e.kind = "spec-review" /\ e.result \in {"passed", "approved"}}
      implementers == Implementers(tasks, evidence)
  IN  implementers # {} /\ \E e \in reviews : e.actor \notin implementers

\* The first four checks, which later evidence cannot undo.
WorkProved(spec, tasks, basedOn, evidence, findings) ==
  /\ LanesPassed(spec, tasks, evidence)
  /\ NoOpenFindings(findings)
  /\ Covered(spec, evidence)
  /\ TasksProved(spec, tasks, basedOn, evidence)

\* verifyAcceptCheck on the frontmatter that the snapshot yields.
VerifyAcceptCheck(spec, tasks, basedOn, evidence, findings, ceremony) ==
  /\ HasSpec(spec)
  /\ WorkProved(spec, tasks, basedOn, evidence, findings)
  /\ ceremony.strict_spec_review => SpecReviewed(tasks, evidence)
=============================================================================

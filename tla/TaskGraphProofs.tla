-------------------------- MODULE TaskGraphProofs --------------------------
(***************************************************************************)
(* Lemmas about tasks and their graph: every operator that makes a task    *)
(* makes one of the right shape, which definition of a task each of them   *)
(* leaves alone, and what a checked graph guarantees.                      *)
(***************************************************************************)
EXTENDS TaskGraph, TLAPS

-----------------------------------------------------------------------------
(* Shapes. *)

LEMMA StepsOfKind ==
  ASSUME NEW k \in TaskKinds
  PROVE  StepsOf(k) \subseteq Steps
BY DEF TaskKinds, StepsOf, Steps

\* A record with the fields of a task is a task.
IsTask(u) ==
  /\ u = [kind |-> u.kind, bug |-> u.bug, drives |-> u.drives, acceptance |-> u.acceptance,
          visuals |-> u.visuals, deps |-> u.deps, status |-> u.status, steps |-> u.steps,
          red |-> u.red, shown |-> u.shown]
  /\ u.kind \in TaskKinds /\ u.bug \in BOOLEAN /\ u.drives \in SUBSET ItemIds
  /\ u.acceptance \in BOOLEAN /\ u.visuals \in SUBSET ItemIds /\ u.deps \in SUBSET Nat
  /\ u.status \in TaskStatus /\ u.red \in BOOLEAN /\ u.shown \in SUBSET Steps
  /\ u.steps \in [StepsOf(u.kind) -> Step]

LEMMA TaskIntro ==
  ASSUME NEW u, IsTask(u)
  PROVE  u \in Task
<1>1. u.steps \in UNION {[StepsOf(x) -> Step] : x \in TaskKinds} /\ DOMAIN u.steps = StepsOf(u.kind)
  BY DEF IsTask
<1> QED
  BY <1>1 DEF Task, IsTask

LEMMA TaskElim ==
  ASSUME NEW u \in Task
  PROVE  IsTask(u)
<1>1. u.steps \in UNION {[StepsOf(x) -> Step] : x \in TaskKinds} /\ DOMAIN u.steps = StepsOf(u.kind)
  BY DEF Task
<1>2. u.steps \in [StepsOf(u.kind) -> Step]
  BY <1>1
<1> QED
  BY <1>2 DEF Task, IsTask

-----------------------------------------------------------------------------
(* What the steps of a task's life change. *)

\* Everything of a task that a plan gives it, but the needs of its steps.
SameBody(u, t) ==
  /\ u.kind = t.kind /\ u.bug = t.bug /\ u.drives = t.drives
  /\ u.acceptance = t.acceptance /\ u.visuals = t.visuals /\ u.deps = t.deps

SameNeeds(u, t) ==
  /\ DOMAIN u.steps = DOMAIN t.steps
  /\ \A s \in DOMAIN t.steps : u.steps[s].need = t.steps[s].need

Relaid(t, st, sp, rd, sh) ==
  [kind |-> t.kind, bug |-> t.bug, drives |-> t.drives, acceptance |-> t.acceptance,
   visuals |-> t.visuals, deps |-> t.deps, status |-> st, steps |-> sp, red |-> rd, shown |-> sh]

LEMMA RelaidTyped ==
  ASSUME NEW t \in Task, NEW st \in TaskStatus, NEW sp \in [StepsOf(t.kind) -> Step],
         NEW rd \in BOOLEAN, NEW sh \in SUBSET Steps
  PROVE  Relaid(t, st, sp, rd, sh) \in Task /\ SameBody(Relaid(t, st, sp, rd, sh), t)
<1> DEFINE u == Relaid(t, st, sp, rd, sh)
<1>1. IsTask(t)
  BY TaskElim
<1>2. /\ u.kind = t.kind /\ u.bug = t.bug /\ u.drives = t.drives /\ u.acceptance = t.acceptance
      /\ u.visuals = t.visuals /\ u.deps = t.deps /\ u.status = st /\ u.steps = sp
      /\ u.red = rd /\ u.shown = sh /\ u = Relaid(u, u.status, u.steps, u.red, u.shown)
  BY DEF Relaid
<1> HIDE DEF u
<1>3. IsTask(u)
  BY <1>1, <1>2 DEF IsTask, Relaid
<1> QED
  BY <1>2, <1>3, TaskIntro DEF SameBody, u

\* Another status, nothing else.
LEMMA ClaimedTyped ==
  ASSUME NEW t \in Task
  PROVE  /\ Claimed(t) \in Task /\ SameBody(Claimed(t), t)
         /\ Claimed(t).status = "in_progress" /\ Claimed(t).steps = t.steps /\ Claimed(t).red = t.red
<1>1. IsTask(t)
  BY TaskElim
<1>2. Claimed(t) = Relaid(t, "in_progress", t.steps, t.red, t.shown)
  BY <1>1 DEF IsTask, Claimed, Relaid
<1>3. Relaid(t, "in_progress", t.steps, t.red, t.shown) \in Task
      /\ SameBody(Relaid(t, "in_progress", t.steps, t.red, t.shown), t)
  BY <1>1, RelaidTyped DEF IsTask, TaskStatus
<1> QED
  BY <1>2, <1>3 DEF Relaid

LEMMA AbandonedTyped ==
  ASSUME NEW t \in Task
  PROVE  /\ Abandoned(t) \in Task /\ SameBody(Abandoned(t), t)
         /\ Abandoned(t).status = "abandoned" /\ Abandoned(t).steps = t.steps /\ Abandoned(t).red = t.red
<1>1. IsTask(t)
  BY TaskElim
<1>2. Abandoned(t) = Relaid(t, "abandoned", t.steps, t.red, t.shown)
  BY <1>1 DEF IsTask, Abandoned, Relaid
<1>3. Relaid(t, "abandoned", t.steps, t.red, t.shown) \in Task
      /\ SameBody(Relaid(t, "abandoned", t.steps, t.red, t.shown), t)
  BY <1>1, RelaidTyped DEF IsTask, TaskStatus
<1> QED
  BY <1>2, <1>3 DEF Relaid

\* A step with another status keeps its need.
LEMMA StepChange ==
  ASSUME NEW t \in Task, NEW step \in DOMAIN t.steps, NEW r \in StepStatus
  PROVE  LET steps == [t.steps EXCEPT ![step].status = r]
         IN  /\ steps \in [StepsOf(t.kind) -> Step]
             /\ \A s \in DOMAIN t.steps : steps[s].need = t.steps[s].need
<1> DEFINE steps == [t.steps EXCEPT ![step].status = r]
<1>1. t.steps \in [StepsOf(t.kind) -> Step]
  BY TaskElim DEF IsTask
<1>2. t.steps[step] \in Step
  BY <1>1
<1>3. [t.steps[step] EXCEPT !.status = r] \in Step
      /\ [t.steps[step] EXCEPT !.status = r].need = t.steps[step].need
  BY <1>2 DEF Step
<1>4. steps = [t.steps EXCEPT ![step] = [t.steps[step] EXCEPT !.status = r]]
  OBVIOUS
<1> QED
  BY <1>1, <1>3, <1>4

LEMMA StartedTyped ==
  ASSUME NEW t \in Task, NEW step \in DOMAIN t.steps
  PROVE  /\ Started(t, step) \in Task /\ SameBody(Started(t, step), t)
         /\ SameNeeds(Started(t, step), t)
         /\ Started(t, step).status = t.status /\ Started(t, step).red = t.red
<1> DEFINE steps == [t.steps EXCEPT ![step].status = "running"]
<1>1. IsTask(t)
  BY TaskElim
<1>2. steps \in [StepsOf(t.kind) -> Step] /\ \A s \in DOMAIN t.steps : steps[s].need = t.steps[s].need
  BY StepChange DEF StepStatus
<1>3. Started(t, step) = Relaid(t, t.status, steps, t.red, t.shown)
  BY <1>1 DEF IsTask, Started, Relaid
<1> HIDE DEF steps
<1>4. Relaid(t, t.status, steps, t.red, t.shown) \in Task
      /\ SameBody(Relaid(t, t.status, steps, t.red, t.shown), t)
  BY <1>1, <1>2, RelaidTyped DEF IsTask
<1> QED
  BY <1>1, <1>2, <1>3, <1>4 DEF Relaid, SameNeeds, IsTask

LEMMA FinishedTyped ==
  ASSUME NEW t \in Task, NEW step \in DOMAIN t.steps, NEW r \in Results, NEW red \in BOOLEAN
  PROVE  /\ Finished(t, step, r, red) \in Task /\ SameBody(Finished(t, step, r, red), t)
         /\ SameNeeds(Finished(t, step, r, red), t)
         /\ Finished(t, step, r, red).status \in {"done", t.status}
         /\ Finished(t, step, r, red).red = (t.red \/ red)
<1> DEFINE steps == [t.steps EXCEPT ![step].status = r]
           st == IF Promotes(steps) THEN "done" ELSE t.status
           rd == t.red \/ red
<1>1. IsTask(t)
  BY TaskElim
<1>2. r \in StepStatus
  BY DEF StepStatus, Results
<1>3. steps \in [StepsOf(t.kind) -> Step] /\ \A s \in DOMAIN t.steps : steps[s].need = t.steps[s].need
  BY <1>2, StepChange
<1>4. st \in TaskStatus /\ st \in {"done", t.status} /\ rd \in BOOLEAN
  BY <1>1 DEF IsTask, TaskStatus
<1>5. Finished(t, step, r, red) = [t EXCEPT !.steps = steps, !.red = rd, !.status = st]
  BY DEF Finished
<1> HIDE DEF steps, st, rd
<1>6. Finished(t, step, r, red) = Relaid(t, st, steps, rd, t.shown)
  BY <1>1, <1>5 DEF IsTask, Relaid
<1>7. Relaid(t, st, steps, rd, t.shown) \in Task /\ SameBody(Relaid(t, st, steps, rd, t.shown), t)
  BY <1>1, <1>3, <1>4, RelaidTyped DEF IsTask
<1>8. SameNeeds(Finished(t, step, r, red), t)
  BY <1>1, <1>3, <1>6 DEF Relaid, SameNeeds, IsTask
<1>9. Finished(t, step, r, red).red = rd /\ Finished(t, step, r, red).status = st
  BY <1>6 DEF Relaid
<1> QED
  BY <1>4, <1>6, <1>7, <1>8, <1>9 DEF rd

LEMMA ReopenedTyped ==
  ASSUME NEW t \in Task, NEW step \in DOMAIN t.steps
  PROVE  /\ Reopened(t, step) \in Task /\ SameBody(Reopened(t, step), t)
         /\ SameNeeds(Reopened(t, step), t)
         /\ Reopened(t, step).status = "in_progress" /\ Reopened(t, step).red = t.red
<1> DEFINE steps == [t.steps EXCEPT ![step].status = "pending"]
<1>1. IsTask(t)
  BY TaskElim
<1>2. steps \in [StepsOf(t.kind) -> Step] /\ \A s \in DOMAIN t.steps : steps[s].need = t.steps[s].need
  BY StepChange DEF StepStatus
<1>3. Reopened(t, step) = [t EXCEPT !.steps = steps, !.status = "in_progress"]
  BY DEF Reopened
<1> HIDE DEF steps
<1>4. Reopened(t, step) = Relaid(t, "in_progress", steps, t.red, t.shown)
  BY <1>1, <1>3 DEF IsTask, Relaid
<1>5. Relaid(t, "in_progress", steps, t.red, t.shown) \in Task
      /\ SameBody(Relaid(t, "in_progress", steps, t.red, t.shown), t)
  BY <1>1, <1>2, RelaidTyped DEF IsTask, TaskStatus
<1> QED
  BY <1>1, <1>2, <1>4, <1>5 DEF Relaid, SameNeeds, IsTask

-----------------------------------------------------------------------------
(* What planning and amending make. *)

LEMMA NewTaskTyped ==
  ASSUME NEW i, IsTaskInput(i), NEW deps \in SUBSET Nat
  PROVE  /\ NewTask(i, deps) \in Task /\ FreshTask(NewTask(i, deps))
         /\ NewTask(i, deps).deps = deps /\ NewTask(i, deps).kind = i.kind
<1> DEFINE u == NewTask(i, deps)
           sp == [s \in StepsOf(i.kind) |->
                    [need |-> IF s \in DOMAIN i.policy THEN i.policy[s] ELSE "must",
                     status |-> "pending"]]
<1>1. \A s \in StepsOf(i.kind) : sp[s] \in Step /\ sp[s].status = "pending"
  BY DEF IsTaskInput, Step, Needs, StepStatus
<1>2. sp \in [StepsOf(i.kind) -> Step]
  BY <1>1
<1>3. /\ u.kind = i.kind /\ u.bug = i.bug /\ u.drives = i.drives /\ u.acceptance = i.acceptance
      /\ u.visuals = i.visuals /\ u.deps = deps /\ u.status = "pending" /\ u.steps = sp
      /\ u.red = FALSE /\ u.shown = {} /\ u = Relaid(u, u.status, u.steps, u.red, u.shown)
  BY DEF NewTask, Relaid
<1> HIDE DEF u, sp
<1>4. IsTask(u)
  BY <1>2, <1>3 DEF IsTask, Relaid, IsTaskInput, TaskStatus
<1>5. FreshTask(u)
  BY <1>1, <1>2, <1>3 DEF FreshTask
<1> QED
  BY <1>3, <1>4, <1>5, TaskIntro DEF u

LEMMA ReissuedTyped ==
  ASSUME NEW t \in Task
  PROVE  /\ Reissued(t) \in Task /\ SameBody(Reissued(t), t)
         /\ Reissued(t).steps = t.steps /\ Reissued(t).status = t.status /\ Reissued(t).red = t.red
<1> DEFINE sh == {s \in DOMAIN t.steps : t.steps[s].status # "pending"}
<1>1. IsTask(t)
  BY TaskElim
<1>2. sh \in SUBSET Steps
  BY <1>1, StepsOfKind DEF IsTask
<1>3. Reissued(t) = [t EXCEPT !.shown = sh]
  BY DEF Reissued
<1> HIDE DEF sh
<1>4. Reissued(t) = Relaid(t, t.status, t.steps, t.red, sh)
  BY <1>1, <1>3 DEF IsTask, Relaid
<1>5. Relaid(t, t.status, t.steps, t.red, sh) \in Task /\ SameBody(Relaid(t, t.status, t.steps, t.red, sh), t)
  BY <1>1, <1>2, RelaidTyped DEF IsTask
<1> QED
  BY <1>4, <1>5 DEF Relaid

LEMMA NarrowedTyped ==
  ASSUME NEW t \in Task, NEW policy, \A s \in DOMAIN policy : policy[s] \in Needs
  PROVE  /\ Narrowed(t, policy) \in Task /\ SameBody(Narrowed(t, policy), t)
         /\ Narrowed(t, policy).status = t.status /\ Narrowed(t, policy).red = t.red
<1> DEFINE sp == [s \in DOMAIN t.steps |->
                    IF s \in DOMAIN policy THEN [t.steps[s] EXCEPT !.need = policy[s]] ELSE t.steps[s]]
           u == [t EXCEPT !.steps = sp]
<1>1. IsTask(t)
  BY TaskElim
<1>2. sp \in [StepsOf(t.kind) -> Step]
  <2>1. \A s \in DOMAIN t.steps : sp[s] \in Step
    BY <1>1 DEF IsTask, Step
  <2> QED
    BY <1>1, <2>1 DEF IsTask
<1>3. Narrowed(t, policy) = Reissued(u)
  BY DEF Narrowed
<1> HIDE DEF sp
<1>4. u = Relaid(t, t.status, sp, t.red, t.shown)
  BY <1>1 DEF IsTask, Relaid
<1>5. u \in Task /\ SameBody(u, t) /\ u.status = t.status /\ u.red = t.red
  <2>1. Relaid(t, t.status, sp, t.red, t.shown) \in Task
        /\ SameBody(Relaid(t, t.status, sp, t.red, t.shown), t)
    BY <1>1, <1>2, RelaidTyped DEF IsTask
  <2> QED
    BY <1>4, <2>1 DEF Relaid
<1> HIDE DEF u
<1> QED
  BY <1>3, <1>5, ReissuedTyped DEF SameBody

LEMMA ReplacementTyped ==
  ASSUME NEW t \in Task, NEW i, IsTaskInput(i)
  PROVE  /\ Replacement(t, i) \in Task
         /\ Replacement(t, i).status = t.status /\ Replacement(t, i).red = t.red
         /\ \A s \in DOMAIN t.steps \cap DOMAIN Replacement(t, i).steps :
              Replacement(t, i).steps[s] = t.steps[s]
<1> DEFINE fresh == NewTask(i, i.onto)
           sp == [s \in DOMAIN fresh.steps |->
                    IF s \in DOMAIN t.steps THEN t.steps[s] ELSE fresh.steps[s]]
           u == [fresh EXCEPT !.status = t.status, !.red = t.red, !.steps = sp]
<1>1. IsTask(t)
  BY TaskElim
<1>2. fresh \in Task /\ IsTask(fresh)
  BY NewTaskTyped, TaskElim DEF IsTaskInput
<1>3. Replacement(t, i) = Reissued(u)
  BY DEF Replacement
<1> HIDE DEF fresh
<1>4. sp \in [StepsOf(fresh.kind) -> Step]
  BY <1>1, <1>2 DEF IsTask
<1>5. \A s \in DOMAIN t.steps \cap DOMAIN sp : sp[s] = t.steps[s]
  OBVIOUS
<1> HIDE DEF sp
<1>6. u = Relaid(fresh, t.status, sp, t.red, fresh.shown)
  <2>1. fresh = Relaid(fresh, fresh.status, fresh.steps, fresh.red, fresh.shown)
    BY <1>2 DEF IsTask, Relaid
  <2>2. [fresh EXCEPT !.status = t.status]
          = Relaid(fresh, t.status, fresh.steps, fresh.red, fresh.shown)
    BY <2>1 DEF Relaid
  <2>3. [Relaid(fresh, t.status, fresh.steps, fresh.red, fresh.shown) EXCEPT !.red = t.red]
          = Relaid(fresh, t.status, fresh.steps, t.red, fresh.shown)
    BY DEF Relaid
  <2>4. [Relaid(fresh, t.status, fresh.steps, t.red, fresh.shown) EXCEPT !.steps = sp]
          = Relaid(fresh, t.status, sp, t.red, fresh.shown)
    BY DEF Relaid
  <2> QED
    BY <2>2, <2>3, <2>4
<1>7. u \in Task /\ u.status = t.status /\ u.red = t.red /\ u.steps = sp
  <2>1. Relaid(fresh, t.status, sp, t.red, fresh.shown) \in Task
    BY <1>1, <1>2, <1>4, RelaidTyped DEF IsTask
  <2> QED
    BY <1>6, <2>1 DEF Relaid
<1> HIDE DEF u
<1> QED
  BY <1>3, <1>5, <1>7, ReissuedTyped
=============================================================================

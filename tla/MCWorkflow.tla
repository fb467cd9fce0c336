----------------------------- MODULE MCWorkflow -----------------------------
(* Instances of Workflow for TLC: six kinds of session, one run. *)
EXTENDS Workflow, TLC

Req(id) == [id |-> id, type |-> "REQ", na |-> FALSE, e2e |-> FALSE]
Scen(id) == [id |-> id, type |-> "SCEN", na |-> FALSE, e2e |-> TRUE]

Of(items) == [items |-> items, unclear |-> FALSE]

Todo(kind, drives) ==
  [kind |-> kind, bug |-> FALSE, drives |-> drives, acceptance |-> FALSE, visuals |-> {},
   local |-> {}, onto |-> {}, policy |-> <<>>]

Bug(drives) == [Todo("behavioral", drives) EXCEPT !.bug = TRUE]

After(input, local) == [input EXCEPT !.local = local]
Onto(input, onto) == [input EXCEPT !.onto = onto]
OnlyMust(input, step) ==
  [input EXCEPT !.policy = [s \in StepsOf(input.kind) \ {step} |-> "optional"]]

Ev(kind, items, of, actor) ==
  [kind |-> kind, result |-> "passed", check |-> "none", items |-> items, tasks |-> of,
   actor |-> actor, reasoned |-> FALSE, attached |-> FALSE]

Raise(category, action, task, step) ==
  [category |-> category, action |-> action, reasoned |-> TRUE,
   target |-> [task |-> task, step |-> step]]

Untargeted(category, action) == Raise(category, action, 0, "none")

\* Nothing is brought but what a scenario names.
Bare ==
  [profile |-> "quick", escalations |-> {}, specs |-> {}, items |-> {}, plans |-> {}, adds |-> {},
   amends |-> {}, policies |-> {}, results |-> {}, evidence |-> {}, raises |-> {}, waivers |-> {},
   prompts |-> {}, tasks |-> 0, findings |-> 0, pending |-> 0, versions |-> 0, lessons |-> 0]

\* A bug under the full ceremony, with one way back, to the code or to the spec.
DeepBug ==
  [Bare EXCEPT !.profile = "deep", !.specs = {Of({Req("r1")})}, !.tasks = 2, !.versions = 2,
   !.plans = {<<OnlyMust(Bug({"r1"}), "implement")>>}, !.results = {"passed"},
   !.evidence = {Ev("task-summary", {"r1"}, {1}, "bob"), Ev("spec-review", {}, {}, "ann")},
   !.raises = {Raise("impl-defect", "fix-impl", 1, "implement"),
               Untargeted("spec-defect", "amend-spec"), Untargeted("impl-defect", "backlog")},
   !.findings = 1, !.lessons = 1]

\* Two dependent tasks, delivered without a VERIFY phase, and two ways back.
LightPair ==
  [Bare EXCEPT !.profile = "light", !.specs = {Of({Req("r1")})}, !.tasks = 2, !.versions = 1,
   !.plans = {<<OnlyMust(Todo("structural", {"r1"}), "implement"),
                After(OnlyMust(Todo("structural", {}), "implement"), {1})>>},
   !.results = {"passed"}, !.evidence = {Ev("local-check", {}, {1, 2}, "cli")},
   !.raises = {Raise("impl-defect", "fix-impl", 1, "implement"),
               Raise("impl-defect", "fix-impl", 2, "implement")},
   !.findings = 2]

\* A graph that is planned, extended, replaced and amended.
Grown ==
  [Bare EXCEPT !.profile = "light", !.specs = {Of({Req("r1")})}, !.tasks = 2, !.versions = 1,
   !.plans = {<<Todo("chore", {"r1"})>>}, !.adds = {<<Onto(Todo("chore", {}), {1})>>},
   !.amends = {Onto(Todo("chore", {"r1"}), {2}), Todo("docs", {"r1"})},
   !.results = {"passed"}, !.raises = {Untargeted("impl-defect", "amend-tasks")}, !.findings = 1,
   !.waivers = {[items |-> {}, tasks |-> {1}]}]

\* Decisions that wait, escalations, no task.
Escalated ==
  [Bare EXCEPT !.profile = "quick",
   !.escalations = {Presets.standard, Ceremony(FALSE, TRUE, TRUE, FALSE, "must")},
   !.specs = {Of({Scen("s1")})}, !.items = {Req("r1")}, !.versions = 2,
   !.plans = {<<[Todo("behavioral", {"s1", "r1"}) EXCEPT !.acceptance = TRUE]>>}, !.tasks = 1,
   !.waivers = {[items |-> {i}, tasks |-> {}] : i \in ItemIds}, !.pending = 2,
   !.prompts = {"gate_decision", "profile_escalation", "ask_user_question"}, !.lessons = 1]

\* A spike among the tasks.
Spiked ==
  [Bare EXCEPT !.profile = "standard", !.specs = {Of({})}, !.versions = 1, !.tasks = 1,
   !.plans = {<<OnlyMust(Todo("spike", {}), "record")>>}, !.results = {"passed", "failed"},
   !.policies = {[explore |-> "na"]}]

\* A task whose kind a finding changes, and back.
Amended ==
  [Bare EXCEPT !.profile = "standard", !.specs = {Of({Req("r1")})}, !.versions = 1, !.tasks = 1,
   !.plans = {<<Bug({"r1"})>>}, !.amends = {Todo("structural", {"r1"}), Bug({"r1"})},
   !.results = {"passed"}, !.raises = {Untargeted("impl-defect", "amend-tasks"),
                                       Raise("test-defect", "fix-test", 1, "red")},
   !.findings = 2]

DeepBugOnly == {DeepBug}
AllScenarios == {DeepBug, LightPair, Grown, Escalated, Spiked, Amended}
=============================================================================

----------------------------- MODULE Lifecycle -----------------------------
(***************************************************************************)
(* What a session promises, whatever happens inside its phases: it starts  *)
(* in TRIAGE, is specified and locked or goes straight to EXECUTE, goes    *)
(* back only into a new iteration, is settled only when it is accepted and *)
(* delivered from VERIFY or SETTLE only then, and what is closed stays     *)
(* closed.                                                                 *)
(***************************************************************************)
EXTENDS Naturals

VARIABLES phase, locked, accepted, iteration

lifecycle == <<phase, locked, accepted, iteration>>

Open == {"TRIAGE", "SPEC", "EXECUTE", "VERIFY", "SETTLE"}

Init == phase = "TRIAGE" /\ ~locked /\ ~accepted /\ iteration = 1

Goes(from, to) == phase \in from /\ phase' = to

Specify == Goes({"TRIAGE"}, "SPEC") /\ UNCHANGED <<locked, accepted, iteration>>

Start == Goes({"TRIAGE"}, "EXECUTE") /\ UNCHANGED <<locked, accepted, iteration>>

Lock == Goes({"SPEC"}, "EXECUTE") /\ locked' /\ UNCHANGED <<accepted, iteration>>

\* A locked spec is amended: it has to be locked again.
Respecify ==
  /\ Goes({"EXECUTE", "VERIFY"}, "SPEC")
  /\ locked /\ ~locked'
  /\ iteration' = iteration + 1
  /\ UNCHANGED accepted

Rework ==
  /\ Goes({"EXECUTE", "VERIFY"}, "EXECUTE")
  /\ iteration' = iteration + 1
  /\ UNCHANGED <<locked, accepted>>

Verify == Goes({"EXECUTE"}, "VERIFY") /\ UNCHANGED <<locked, accepted, iteration>>

Accept == Goes({"VERIFY"}, "VERIFY") /\ accepted' /\ UNCHANGED <<locked, iteration>>

Settle == Goes({"VERIFY"}, "SETTLE") /\ accepted /\ UNCHANGED <<locked, accepted, iteration>>

Deliver ==
  /\ Goes({"EXECUTE", "VERIFY", "SETTLE"}, "DELIVERED")
  /\ phase # "EXECUTE" => accepted
  /\ UNCHANGED <<locked, accepted, iteration>>

Close == Goes(Open, "CLOSED") /\ UNCHANGED <<locked, accepted, iteration>>

Next ==
  Specify \/ Start \/ Lock \/ Respecify \/ Rework \/ Verify \/ Accept \/ Settle \/ Deliver \/ Close

Spec == Init /\ [][Next]_lifecycle
=============================================================================

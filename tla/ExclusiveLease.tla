--------------------------- MODULE ExclusiveLease ---------------------------
(***************************************************************************)
(* What `withFeatureWriteLease` promises its callers, with the `.lock`     *)
(* file and every retry left out: one command at a time owns a feature.    *)
(***************************************************************************)
CONSTANT Procs

VARIABLE holders    \* the commands that believe they own the feature

Init == holders = {}

Acquire(p) == holders = {} /\ holders' = {p}

Release(p) == holders = {p} /\ holders' = {}

Next == \E p \in Procs : Acquire(p) \/ Release(p)

Spec == Init /\ [][Next]_holders
=============================================================================

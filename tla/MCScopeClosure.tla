--------------------------- MODULE MCScopeClosure ---------------------------
(* Instances of ScopeClosure for TLC. *)
EXTENDS ScopeClosure, TLC

\* Processes and paths are interchangeable; there is no liveness property.
Symmetry == Permutations(Procs) \cup Permutations(Paths)
=============================================================================

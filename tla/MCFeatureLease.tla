--------------------------- MODULE MCFeatureLease ---------------------------
(* Instances of FeatureLease for TLC, and the mutants of its definitions. *)
EXTENDS FeatureLease, TLC

ProcSymmetry == Permutations(Procs)
=============================================================================

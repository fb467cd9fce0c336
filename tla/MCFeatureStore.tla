--------------------------- MODULE MCFeatureStore ---------------------------
(* Instances of FeatureStore for TLC. *)
EXTENDS FeatureStore, TLC

MCLeafOrder == <<"state", "evidence">>

Symmetry == Permutations(Procs)
=============================================================================

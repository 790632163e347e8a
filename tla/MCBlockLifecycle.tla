-------------------------- MODULE MCBlockLifecycle --------------------------
(* Neither blocks nor tasks differ but in name. *)
EXTENDS BlockLifecycle, TLC

MCSymmetry == Permutations(Hash) \cup Permutations(Submission)

=============================================================================

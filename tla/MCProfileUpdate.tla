-------------------------- MODULE MCProfileUpdate --------------------------
(* ProfileLoops on every ledger, request and order of a small instance. *)
EXTENDS ProfileLoops, TLC

Symmetry == Permutations(Instances)
============================================================================

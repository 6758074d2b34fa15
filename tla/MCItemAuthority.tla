-------------------------- MODULE MCItemAuthority --------------------------
(* ItemAuthority on a small instance. *)
EXTENDS ItemAuthority, TLC

\* Players and instances are interchangeable.
Symmetry == Permutations(Players) \cup Permutations(Instances)
============================================================================

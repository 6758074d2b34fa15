---------------------------- MODULE MCNpcRegistry ----------------------------
(* An instance of NpcRegistry for TLC. *)
EXTENDS NpcRegistry, TLC

Symmetry == Permutations(Leases)
KindOfAll == [n \in Npcs |-> CHOOSE k \in Kinds : TRUE]
=============================================================================

----------------------------- MODULE MCWorldSync -----------------------------
(* An instance of WorldSync for TLC. *)
EXTENDS WorldSync, TLC

Symmetry == Permutations(Players) \cup Permutations(Contents \ {Plain})

(* A new object, a stored one, and one that has changed before whose        *)
(* property has no role for one of the players.                            *)
KnownWorlds ==
    {[commits |-> cs, barred |-> {}] : cs \in {<< >>, <<Plain>>}}
    \cup {[commits |-> <<Plain, Plain>>, barred |-> {p}] : p \in Players}
=============================================================================

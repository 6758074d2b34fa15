----------------------------- MODULE MCPresence -----------------------------
(* Presence on a small instance. *)
EXTENDS Presence, TLC

Symmetry == Permutations(Players) \cup Permutations(Stations)
            \cup Permutations(SessionIds)
============================================================================

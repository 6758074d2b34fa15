----------------------------- MODULE MCSession -----------------------------
(* Session on a small instance. *)
EXTENDS Session, TLC

Symmetry == Permutations(Connections) \cup Permutations(Identities)
            \cup Permutations(Tokens) \cup Permutations(Names)
            \cup Permutations(Starters)
============================================================================

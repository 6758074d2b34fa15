-------------------------- MODULE MCPropertyRoles --------------------------
EXTENDS PropertyRoles, TLC

\* A house and a room of it.
RoomInHouse == 1 :> 0 @@ 2 :> 1

Symmetry == Permutations(Players)
============================================================================

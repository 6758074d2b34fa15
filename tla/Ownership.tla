----------------------------- MODULE Ownership -----------------------------
(***************************************************************************)
(* What the server promises about items, and all that a player can rely    *)
(* on: every change is one player's report of an inventory, or one         *)
(* player's exchange with one place outside the inventories (a container,  *)
(* or the world); and a stop of the server, wherever it falls, takes back  *)
(* changes of the last exchange only, instance by instance.                *)
(*                                                                         *)
(* Files, messages, and how an exchange is put together do not occur here. *)
(***************************************************************************)
CONSTANTS
    Instances,
    Players,
    Places,         \* containers and the world
    Unregistered    \* what a ledger has for an instance that is nowhere

VARIABLES
    ledger,     \* what every instance is, and where
    kept        \* the ledger that the last exchange was made on, if it may
                \* still be undone; the ledger otherwise

At(l, i, places) == l[i] # Unregistered /\ l[i].location \in places

Init == kept = ledger

\* A report of player p: what appears in the inventory was in no other
\* player's, and what goes from it is gone.
Report(p) ==
    /\ kept = ledger
    /\ kept' = ledger
    /\ \A i \in Instances : ledger'[i] # ledger[i] =>
        /\ ~At(ledger, i, Players \ {p})
        /\ \/ At(ledger', i, {p})
           \/ At(ledger, i, {p}) /\ ledger'[i] = Unregistered

\* Items move between player p and one place, and appear or are used up at
\* these two only.
Exchange(p, place) ==
    /\ kept = ledger
    /\ kept' = ledger
    /\ \A i \in Instances : ledger'[i] # ledger[i] =>
        /\ ledger[i] = Unregistered \/ At(ledger, i, {p, place})
        /\ ledger'[i] = Unregistered \/ At(ledger', i, {p, place})

\* The last change can no longer be lost.
Settle == kept' = ledger /\ UNCHANGED ledger

\* A restart finds each instance as before the last change or as after it;
\* only what a player gave away may be lost altogether.
Recover ==
    /\ \A i \in Instances :
        \/ ledger'[i] \in {kept[i], ledger[i]}
        \/ /\ ledger'[i] = Unregistered
           /\ At(kept, i, Players)
           /\ ~At(ledger, i, Players)
    /\ kept' = ledger'

Next ==
    \/ \E p \in Players : Report(p)
    \/ \E p \in Players, place \in Places : Exchange(p, place)
    \/ Settle
    \/ Recover

Spec == Init /\ [][Next]_<<ledger, kept>>
=============================================================================

---------------------------- MODULE ProfileLoops ----------------------------
(***************************************************************************)
(* One run of the bookkeeping loops of ProfileUpdate, from any ledger, any *)
(* accepted inventory and any order of the two repeated fields, so that    *)
(* what the loops leave can be compared with what they amount to.          *)
(***************************************************************************)
EXTENDS ProfileUpdate

CONSTANT Sender     \* the player whose profile is updated

ASSUME SenderIsPlayer == Sender \in Players

VARIABLES
    known,          \* the ledger the server has
    wanted,         \* the accepted inventory
    wantedOrder,    \* the order of its repeated field
    heldOrder,      \* the order of the server's copy
    outcome         \* the staged state the loops leave

loopVars == <<known, wanted, wantedOrder, heldOrder, outcome>>

\* The server's copy of the inventory agrees with the ledger
\* (ItemAuthority!LedgerAgrees).
HeldBySender ==
    [i \in Instances |->
        IF AtLocation(known, i, Sender) THEN known[i].item ELSE NoItem]

NotRun == [ledger |-> [i \in Instances |-> Unregistered], remaining |-> 0,
           away |-> {}, split |-> {}, ok |-> FALSE]

LoopInit ==
    /\ known \in Ledgers
    /\ wanted \in Inventories
    /\ wantedOrder \in Orderings(Requested(wanted))
    /\ heldOrder \in Orderings(Requested(HeldBySender))
    /\ outcome = NotRun

RunLoops ==
    /\ outcome = NotRun
    /\ outcome' = Staged(Sender, known, HeldBySender, wanted,
                         wantedOrder, heldOrder)
    /\ UNCHANGED <<known, wanted, wantedOrder, heldOrder>>

LoopSpec == LoopInit /\ [][RunLoops]_loopVars

\* An accepted update leaves the sender exactly the accepted inventory and
\* takes from others only what it lists, in whichever order the loops
\* explained the differences.
LoopsSettle ==
    outcome.ok => outcome.ledger = SettledLedger(Sender, known, wanted)

\* The loops never let a client take an item of another player, claim one
\* with other values than it has, or change what an instance is.
LoopsRespectOwners == outcome.ok => OwnershipAllows(Sender, known, wanted)
=============================================================================

--------------------------- MODULE ProfileUpdate ---------------------------
(***************************************************************************)
(* The item bookkeeping of server_core::handle_profile_update, which works *)
(* on a staged copy of the ledger: the merge loop, the split loop and the  *)
(* replace/claim/erase loops, in the order of the code.  A client sends    *)
(* its whole inventory; the loops explain every difference from the        *)
(* server's copy or refuse the message.                                    *)
(*                                                                         *)
(* A staged state holds the staged ledger, what the target of the merge    *)
(* loop still lacks, the instances merged away (merged_away), those a      *)
(* split created (split_created), and whether no call was refused so far.  *)
(***************************************************************************)
EXTENDS ItemLedger, Sequences, FiniteSets, Functions

\* UUIDs are 128 bits wide.
ASSUME InstancesAreFinite == IsFiniteSet(Instances)

StagedStates == [ledger: Ledgers, remaining: Nat, away: SUBSET Instances,
                 split: SUBSET Instances, ok: BOOLEAN]

Requested(inventory) == {i \in Instances : inventory[i] # NoItem}

CountOf(inventory, i) == IF inventory[i] = NoItem THEN 0 ELSE inventory[i].count

Smaller(m, n) == IF m < n THEN m ELSE n

\* One turn of the inner merge loop: the target takes from one source what
\* the source loses in the request.  `available` is computed from the two
\* inventories, not from the staged ledger.
MergeFrom(player, current, accepted, target, state, source) ==
    LET requestedCount == CountOf(accepted, source)
        available == current[source].count - requestedCount
        moved == Smaller(state.remaining, available)
        skipped == \/ ~state.ok
                   \/ state.remaining = 0
                   \/ source = target
                   \/ ~Stackable(current[source], accepted[target])
                   \/ requestedCount > current[source].count
                   \/ moved = 0
    IN  IF skipped THEN state
        ELSE IF ~CanMerge(state.ledger, source, player, target, player, moved)
        THEN [state EXCEPT !.ok = FALSE]
        ELSE [state EXCEPT
                !.ledger = Merge(@, source, target, moved),
                !.remaining = @ - moved,
                !.away = IF moved = current[source].count
                         THEN @ \cup {source} ELSE @]

\* The states of the inner merge loop after each of the sources.
MergeTurns(player, current, accepted, sources, state, target) ==
    LET turn[n \in 0..Len(sources)] ==
            IF n = 0
            THEN [state EXCEPT
                    !.remaining = accepted[target].count - current[target].count]
            ELSE MergeFrom(player, current, accepted, target,
                           turn[n - 1], sources[n])
    IN  turn

\* The merge loop for one target of the accepted inventory.
MergeInto(player, current, accepted, sources, state, target) ==
    IF current[target] = NoItem
       \/ accepted[target].count <= CountOf(current, target)
    THEN state
    ELSE MergeTurns(player, current, accepted, sources, state,
                    target)[Len(sources)]

\* The states of the merge loop after each of the targets.
Merged(player, ledger, current, accepted, targets, sources) ==
    LET turn[n \in 0..Len(targets)] ==
            IF n = 0
            THEN [ledger |-> ledger, remaining |-> 0,
                  away |-> {}, split |-> {}, ok |-> TRUE]
            ELSE MergeInto(player, current, accepted, sources,
                           turn[n - 1], targets[n])
    IN  turn

\* The sources a new stack may have been split from.
SplitSources(current, accepted, created) ==
    {s \in Requested(current) :
        /\ accepted[s] # NoItem
        /\ accepted[s].count < current[s].count
        /\ current[s].count - accepted[s].count = accepted[created].count
        /\ Stackable(current[s], accepted[created])}

\* The split loop for one item: only an unambiguous source is split.
SplitOff(player, current, accepted, state, created) ==
    LET sources == SplitSources(current, accepted, created)
        source == CHOOSE s \in sources : TRUE
        count == accepted[created].count
        skipped == \/ ~state.ok
                   \/ current[created] # NoItem
                   \/ state.ledger[created] # Unregistered
                   \/ ~(\E s \in sources : sources = {s})
    IN  IF skipped THEN state
        ELSE IF ~CanSplit(state.ledger, source, player, created, count)
        THEN [state EXCEPT !.ok = FALSE]
        ELSE [state EXCEPT
                !.ledger = Split(@, source, created, count, player),
                !.split = @ \cup {created}]

\* The states of the split loop.
Divided(player, current, accepted, targets, state) ==
    LET turn[n \in 0..Len(targets)] ==
            IF n = 0 THEN state
            ELSE SplitOff(player, current, accepted, turn[n - 1], targets[n])
    IN  turn

\* Mutant: an entry of another player is claimed like one of the world.
SettleClaimingAny(player, current, accepted, state, i) ==
    LET item == accepted[i]
        entry == state.ledger[i]
    IN  IF ~state.ok THEN state
        ELSE IF current[i] # NoItem
        THEN IF CanReplace(state.ledger, i, item, player)
             THEN [state EXCEPT !.ledger = Replace(@, i, item)]
             ELSE [state EXCEPT !.ok = FALSE]
        ELSE IF entry = Unregistered
        THEN [state EXCEPT !.ledger = Register(@, i, item, player)]
        ELSE IF ~SameStack(entry.item, item)
        THEN [state EXCEPT !.ok = FALSE]
        ELSE [state EXCEPT !.ledger = Replace(Move(@, i, player), i, item)]

\* The third loop for one item: replace an item the profile already has,
\* register one the ledger does not know, or claim one from a container or
\* the world.
Settle(player, current, accepted, state, i) ==
    LET item == accepted[i]
        entry == state.ledger[i]
    IN  IF ~state.ok THEN state
        ELSE IF current[i] # NoItem
        THEN IF CanReplace(state.ledger, i, item, player)
             THEN [state EXCEPT !.ledger = Replace(@, i, item)]
             ELSE [state EXCEPT !.ok = FALSE]
        ELSE IF entry = Unregistered
        THEN [state EXCEPT !.ledger = Register(@, i, item, player)]
        ELSE IF \/ entry.location \in Players /\ i \notin state.split
                \/ ~SameStack(entry.item, item)
        THEN [state EXCEPT !.ok = FALSE]
        ELSE [state EXCEPT !.ledger = Replace(Move(@, i, player), i, item)]

\* The states of the third loop.
Settled(player, current, accepted, targets, state) ==
    LET turn[n \in 0..Len(targets)] ==
            IF n = 0 THEN state
            ELSE Settle(player, current, accepted, turn[n - 1], targets[n])
    IN  turn

\* Mutant: what left the inventory is taken for merged away.
DropForgetting(player, accepted, state, i) == state

\* The last loop for one item of the old profile: what is gone and was not
\* merged away is erased.
Drop(player, accepted, state, i) ==
    IF ~state.ok \/ accepted[i] # NoItem \/ i \in state.away THEN state
    ELSE IF CanErase(state.ledger, i, player)
    THEN [state EXCEPT !.ledger = Erase(@, i)]
    ELSE [state EXCEPT !.ok = FALSE]

\* The states of the last loop.
Dropped(player, accepted, sources, state) ==
    LET turn[n \in 0..Len(sources)] ==
            IF n = 0 THEN state
            ELSE Drop(player, accepted, turn[n - 1], sources[n])
    IN  turn

\* The whole of the bookkeeping.  `targets` lists the accepted inventory and
\* `sources` the server's, each in the order of its repeated field.
Staged(player, ledger, current, accepted, targets, sources) ==
    LET last == Len(targets)
        merged == Merged(player, ledger, current, accepted, targets, sources)
        divided == Divided(player, current, accepted, targets, merged[last])
        settled == Settled(player, current, accepted, targets, divided[last])
    IN  Dropped(player, accepted, sources, settled[last])[Len(sources)]

---------------------------------------------------------------------------
\* What the loops amount to.  The ledger they leave does not depend on how
\* they explained the differences: the player owns exactly the items of the
\* accepted inventory.
SettledLedger(player, ledger, accepted) ==
    [i \in Instances |->
        IF accepted[i] # NoItem
        THEN [item |-> accepted[i], location |-> player]
        ELSE IF AtLocation(ledger, i, player) THEN Unregistered
        ELSE ledger[i]]

\* The conditions under which a message is refused whatever its order: an
\* instance changes its definition, belongs to another player, or is claimed
\* from a container or the world with other values than it has there.
OwnershipAllows(player, ledger, accepted) ==
    \A i \in Requested(accepted) :
        ledger[i] # Unregistered =>
            IF ledger[i].location = player
            THEN ledger[i].item.definition = accepted[i].definition
            ELSE /\ ledger[i].location \notin Players
                 /\ SameStack(ledger[i].item, accepted[i])

\* The orders in which a repeated field may list the items of an inventory.
Orderings(set) == Bijection(1..Cardinality(set), set)

\* Some order of the two inventories lets the loops finish.
BookkeepingSucceeds(player, ledger, current, accepted) ==
    \E targets \in Orderings(Requested(accepted)),
       sources \in Orderings(Requested(current)) :
        Staged(player, ledger, current, accepted, targets, sources).ok
===========================================================================

---------------------------- MODULE ItemLedger ----------------------------
(***************************************************************************)
(* The server's item ledger (src/src/server/item_ledger.cpp): one entry    *)
(* per live item instance, holding the item and the one place that owns    *)
(* it.  The operations of the C++ class change the map in place and return *)
(* false on a refused call; here each operation is a pair, CanX for the    *)
(* condition under which the call succeeds and X for the map it leaves.    *)
(*                                                                         *)
(* Data abstraction: UUIDs are elements of Instances and Definitions; the  *)
(* two floats quality and condition are one value of Qualities, as every   *)
(* comparison of the code compares both.  Equipment slots do not take part *)
(* in ownership and are left to EquipmentSync.                             *)
(***************************************************************************)
EXTENDS Integers

CONSTANTS
    Instances,      \* item instance UUIDs
    Definitions,    \* item definition UUIDs
    Qualities,      \* the (quality, condition) pairs
    MaxItemCount,   \* max_profile_item_count
    Players,        \* player ids
    Containers,     \* entity GUIDs of synchronized containers
    World,          \* item_location::world()
    NoItem,         \* no item with this instance id in a collection
    Unregistered    \* no entry with this instance id in the ledger

ASSUME MaxItemCountIsPositive == MaxItemCount \in Nat \ {0}

\* The kind field of item_location keeps the three sorts of place apart.
ASSUME PlacesAreDistinct ==
    /\ Players \cap Containers = {}
    /\ World \notin Players \cup Containers

\* A protobuf InventoryItem that passes valid_inventory_item: its count is
\* never zero and never above the maximum.
Item == [definition: Definitions, quality: Qualities, count: 1..MaxItemCount]

ASSUME NoItemIsNoItem == NoItem \notin Item

Locations == Players \cup Containers \cup {World}

Entry == [item: Item, location: Locations]

ASSUME UnregisteredIsNoEntry == Unregistered \notin Entry

\* A set of items keyed by instance id: an inventory without duplicates.
Inventories == [Instances -> Item \cup {NoItem}]

Ledgers == [Instances -> Entry \cup {Unregistered}]

---------------------------------------------------------------------------
\* item_ledger::same_stack with compare_count = false.
Stackable(left, right) ==
    /\ left.definition = right.definition
    /\ left.quality = right.quality

\* item_ledger::same_stack with compare_count = true.
SameStack(left, right) == Stackable(left, right) /\ left.count = right.count

AtLocation(ledger, instance, expected) ==
    /\ ledger[instance] # Unregistered
    /\ ledger[instance].location = expected

HeldByPlayer(ledger, instance) ==
    \E p \in Players : AtLocation(ledger, instance, p)

---------------------------------------------------------------------------
CanRegister(ledger, instance) == ledger[instance] = Unregistered

Register(ledger, instance, item, location) ==
    [ledger EXCEPT ![instance] = [item |-> item, location |-> location]]

CanReplace(ledger, instance, item, expected) ==
    /\ AtLocation(ledger, instance, expected)
    /\ ledger[instance].item.definition = item.definition

\* replace_item and move write one field each of an existing entry.
Replace(ledger, instance, item) ==
    [ledger EXCEPT ![instance] =
        [item |-> item, location |-> ledger[instance].location]]

CanMove(ledger, instance, source) == AtLocation(ledger, instance, source)

Move(ledger, instance, destination) ==
    [ledger EXCEPT ![instance] =
        [item |-> ledger[instance].item, location |-> destination]]

WithCount(item, count) ==
    [definition |-> item.definition, quality |-> item.quality, count |-> count]

CanSplit(ledger, source, sourceLocation, new, count) ==
    /\ AtLocation(ledger, source, sourceLocation)
    /\ count > 0
    /\ count < ledger[source].item.count
    /\ ledger[new] = Unregistered

Split(ledger, source, new, count, destination) ==
    LET whole == ledger[source].item
    IN  [ledger EXCEPT
            ![source] = [item |-> WithCount(whole, whole.count - count),
                         location |-> ledger[source].location],
            ![new] = [item |-> WithCount(whole, count),
                      location |-> destination]]

\* Mutant: the sum is not compared with the largest count.
CanMergeUnbounded(ledger, source, sourceLocation, target, targetLocation, count) ==
    /\ AtLocation(ledger, source, sourceLocation)
    /\ AtLocation(ledger, target, targetLocation)
    /\ source # target
    /\ count > 0
    /\ count <= ledger[source].item.count
    /\ Stackable(ledger[source].item, ledger[target].item)

CanMerge(ledger, source, sourceLocation, target, targetLocation, count) ==
    /\ AtLocation(ledger, source, sourceLocation)
    /\ AtLocation(ledger, target, targetLocation)
    /\ source # target
    /\ count > 0
    /\ count <= ledger[source].item.count
    /\ Stackable(ledger[source].item, ledger[target].item)
    /\ ledger[target].item.count <= MaxItemCount - count

\* Mutant: the source is erased even if some of it is left.
MergeErasing(ledger, source, target, count) ==
    LET into == ledger[target].item
    IN  [ledger EXCEPT
            ![target] = [item |-> WithCount(into, into.count + count),
                         location |-> ledger[target].location],
            ![source] = Unregistered]

Merge(ledger, source, target, count) ==
    LET from == ledger[source].item
        into == ledger[target].item
    IN  [ledger EXCEPT
            ![target] = [item |-> WithCount(into, into.count + count),
                         location |-> ledger[target].location],
            ![source] = IF count = from.count
                        THEN Unregistered
                        ELSE [item |-> WithCount(from, from.count - count),
                              location |-> ledger[source].location]]

CanErase(ledger, instance, expected) == AtLocation(ledger, instance, expected)

Erase(ledger, instance) == [ledger EXCEPT ![instance] = Unregistered]

EraseLocation(ledger, location) ==
    [i \in Instances |->
        IF AtLocation(ledger, i, location) THEN Unregistered ELSE ledger[i]]
===========================================================================

--------------------------- MODULE ItemAuthority ---------------------------
(***************************************************************************)
(* Who owns which item: the server's profiles, synchronized containers,    *)
(* world items and the central ledger, under the three handlers that move  *)
(* items (profile, world-object and world-item updates), with the files    *)
(* the store writes and crashes and restarts of the server process.        *)
(*                                                                         *)
(* The server is single threaded, so one handler runs at a time:           *)
(*   - the container handler works through the message item by item on     *)
(*     staged copies of the ledger and the profile; tx holds its locals;   *)
(*   - a handler that is through has changed the memory and then writes    *)
(*     its files one after the other; unsaved names those still unwritten. *)
(* Nothing but these steps and a crash happens in between.                 *)
(*                                                                         *)
(* Messages with a stale base revision, refused property access and the    *)
(* answers to the sender change no state and are not steps.                *)
(***************************************************************************)
EXTENDS ProfileUpdate

CONSTANTS
    MaxRevision,    \* bound on every revision a client update increments
    MaxWorldItems,  \* max_world_items, tombstones included
    CrashInHandler, \* may the process stop between two file writes?
    NoTransaction

ASSUME MaxRevisionIsPositive == MaxRevision \in Nat \ {0}
ASSUME MaxWorldItemsIsPositive == MaxWorldItems \in Nat \ {0}
ASSUME CrashInHandlerIsBoolean == CrashInHandler \in BOOLEAN

\* revision 0: the server has no record of the object.  Only a present world
\* item has an item: the server never reads the one a tombstone stores.
ProfileRecord == [revision: Nat, inventory: Inventories]
ObjectRecord == [revision: Nat, inventory: Inventories]
WorldItemRecord ==
    {r \in [revision: Nat, present: BOOLEAN, item: Item \cup {NoItem}] :
        r.present <=> r.item # NoItem}

EmptyInventory == [i \in Instances |-> NoItem]

UnknownObject == [revision |-> 0, inventory |-> EmptyInventory]
UnknownWorldItem == [revision |-> 0, present |-> FALSE, item |-> NoItem]

Transactions ==
    [player: Players, guid: Containers, requested: Inventories,
     todo: SUBSET Instances, leaving: SUBSET Instances,
     ledger: Ledgers, inventory: Inventories, changed: BOOLEAN]

ASSUME NoTransactionIsNone == NoTransaction \notin Transactions

VARIABLES
    profile,    \* the authoritative profiles (m_players[id].profile)
    object,     \* m_world_objects
    worldItem,  \* m_world_items
    items,      \* m_items, the ledger
    file,       \* what the store's files hold
    unsaved,    \* the files the running handler still has to write
    tx,         \* the running container update
    up,         \* is the server process running?
    before      \* history: the ledger when the last handler took its message

memory == <<profile, object, worldItem, items>>
vars == <<profile, object, worldItem, items, file, unsaved, tx, up, before>>

Files == [profiles: [Players -> ProfileRecord],
          objects: [Containers -> ObjectRecord],
          items: [Instances -> WorldItemRecord]]

Unsaved == [profiles: SUBSET Players, objects: BOOLEAN, items: BOOLEAN]

NothingUnsaved == [profiles |-> {}, objects |-> FALSE, items |-> FALSE]

TypeOK ==
    /\ profile \in [Players -> ProfileRecord]
    /\ object \in [Containers -> ObjectRecord]
    /\ worldItem \in [Instances -> WorldItemRecord]
    /\ items \in Ledgers
    /\ file \in Files
    /\ unsaved \in Unsaved
    /\ tx \in Transactions \cup {NoTransaction}
    /\ up \in BOOLEAN
    /\ before \in Ledgers

\* The items a location has according to the ledger, as an inventory.
Held(ledger, location) ==
    [i \in Instances |->
        IF AtLocation(ledger, i, location) THEN ledger[i].item ELSE NoItem]

\* Enrolled players with starter inventories in a fresh world: every file is
\* written and no container or world item is known yet.
Init ==
    /\ items \in [Instances ->
                    [item: Item, location: Players] \cup {Unregistered}]
    /\ profile = [p \in Players |->
                    [revision |-> 1, inventory |-> Held(items, p)]]
    /\ object = [g \in Containers |-> UnknownObject]
    /\ worldItem = [i \in Instances |-> UnknownWorldItem]
    /\ file = [profiles |-> profile, objects |-> object, items |-> worldItem]
    /\ unsaved = NothingUnsaved
    /\ tx = NoTransaction
    /\ up = TRUE
    /\ before = items

\* The process is at the top of its loop and takes the next message.
Idle == up /\ tx = NoTransaction /\ unsaved = NothingUnsaved

Without(inventory, gone) ==
    [i \in Instances |-> IF i \in gone THEN NoItem ELSE inventory[i]]

---------------------------------------------------------------------------
(* Profile updates (handle_profile_update).                                *)

\* Mutants: what a player owns stays in the containers; its world item stays
\* present.
StripOwnedNever(objects, ledger) == objects

RetireOwnedNever(records, ledger) == records

\* remove_owned_items_from_world, first half: what a player owns leaves the
\* containers.
StripOwned(objects, ledger) ==
    [g \in Containers |->
        LET stale == {i \in Requested(objects[g].inventory) :
                        HeldByPlayer(ledger, i)}
        IN  IF stale = {} THEN objects[g]
            ELSE [revision |-> objects[g].revision + 1,
                  inventory |-> Without(objects[g].inventory, stale)]]

\* remove_owned_items_from_world, second half: its world item is retired.
RetireOwned(records, ledger) ==
    [i \in Instances |->
        IF records[i].present /\ HeldByPlayer(ledger, i)
        THEN [revision |-> records[i].revision + 1, present |-> FALSE,
              item |-> NoItem]
        ELSE records[i]]

HandleProfileUpdate(p, accepted) ==
    LET current == profile[p].inventory
        ledger == SettledLedger(p, items, accepted)
    IN  /\ Idle
        /\ profile[p].revision < MaxRevision
        /\ OwnershipAllows(p, items, accepted)
        /\ BookkeepingSucceeds(p, items, current, accepted) = TRUE  \* one step, not one per order
        /\ profile' = [profile EXCEPT ![p] =
                        [revision |-> profile[p].revision + 1,
                         inventory |-> accepted]]
        /\ items' = ledger
        /\ object' = StripOwned(object, ledger)
        /\ worldItem' = RetireOwned(worldItem, ledger)
        /\ unsaved' = [profiles |-> {p}, objects |-> object' # object,
                       items |-> worldItem' # worldItem]
        /\ before' = items
        /\ UNCHANGED <<file, tx, up>>

---------------------------------------------------------------------------
(* Container updates (handle_world_object_update).                         *)

\* The contents already there with the same count are passed over by the
\* loop, so they are not listed in todo.
BeginObjectUpdate(p, g, requested) ==
    /\ Idle
    /\ profile[p].revision < MaxRevision
    /\ object[g].revision < MaxRevision
    /\ LET contents == object[g].inventory
       IN  tx' = [player |-> p, guid |-> g, requested |-> requested,
                  todo |-> {i \in Requested(requested) :
                                requested[i] # contents[i]},
                  leaving |-> {i \in Requested(contents) :
                                requested[i] = NoItem},
                  ledger |-> items, inventory |-> profile[p].inventory,
                  changed |-> FALSE]
    /\ UNCHANGED <<memory, file, unsaved, up, before>>

\* The stacks unique_profile_stack may return; it returns one only if there
\* is exactly one.
Stacks(inventory, item, excluded, minimum) ==
    {s \in Requested(inventory) \ {excluded} :
        /\ inventory[s].count >= minimum
        /\ Stackable(inventory[s], item)}

\* Mutant: only the ledger is charged for what was taken.
TakenFromLedgerOnly(inventory, source, count) == inventory

\* The profile after `count` of a stack left it.
TakenFrom(inventory, source, count) ==
    [inventory EXCEPT ![source] =
        IF inventory[source].count = count THEN NoItem
        ELSE WithCount(inventory[source], inventory[source].count - count)]

AddedTo(inventory, target, count) ==
    [inventory EXCEPT ![target] =
        WithCount(inventory[target], inventory[target].count + count)]

\* Work that is done on one item of the message.
Done(i, ledger, inventory, changed) ==
    tx' = [tx EXCEPT !.todo = @ \ {i}, !.leaving = @ \ {i},
                     !.ledger = ledger, !.inventory = inventory,
                     !.changed = changed]

KeepsRest == UNCHANGED <<memory, file, unsaved, up, before>>

Previous(i) == object[tx.guid].inventory[i]

\* A stack of the container grows from the one stack that can feed it.
CanGrow(i, source) ==
    LET item == tx.requested[i]
        added == item.count - Previous(i).count
    IN  /\ Previous(i) # NoItem
        /\ Stackable(Previous(i), item)
        /\ item.count > Previous(i).count
        /\ Stacks(tx.inventory, item, i, added) = {source}
        /\ CanMerge(tx.ledger, source, tx.player, i, tx.guid, added)

GrowContainerStack(i, source) ==
    /\ CanGrow(i, source)
    /\ LET added == tx.requested[i].count - Previous(i).count
       IN  Done(i, Merge(tx.ledger, source, i, added),
                TakenFrom(tx.inventory, source, added), TRUE)
    /\ KeepsRest

\* A new stack of a known container is split from the one stack that is
\* larger.
CanSplitInto(i, source) ==
    LET item == tx.requested[i]
    IN  /\ Previous(i) = NoItem
        /\ tx.ledger[i] = Unregistered
        /\ object[tx.guid].revision # 0
        /\ Stacks(tx.inventory, item, i, item.count + 1) = {source}
        /\ CanSplit(tx.ledger, source, tx.player, i, item.count)

SplitIntoContainer(i, source) ==
    /\ CanSplitInto(i, source)
    /\ LET count == tx.requested[i].count
       IN  Done(i, Split(tx.ledger, source, i, count, tx.guid),
                TakenFrom(tx.inventory, source, count), TRUE)
    /\ KeepsRest

\* The first report of a container registers the contents authored in it.
CanRegisterIn(i) ==
    /\ Previous(i) = NoItem
    /\ tx.ledger[i] = Unregistered
    /\ object[tx.guid].revision = 0

RegisterContents(i) ==
    /\ CanRegisterIn(i)
    /\ Done(i, Register(tx.ledger, i, tx.requested[i], tx.guid),
            tx.inventory, tx.changed)
    /\ KeepsRest

\* Mutant: any player's item may be deposited.
CanDepositAny(i) ==
    /\ Previous(i) = NoItem
    /\ HeldByPlayer(tx.ledger, i)
    /\ SameStack(tx.ledger[i].item, tx.requested[i])

CanDeposit(i) ==
    /\ Previous(i) = NoItem
    /\ AtLocation(tx.ledger, i, tx.player)
    /\ SameStack(tx.ledger[i].item, tx.requested[i])

Deposit(i) ==
    /\ CanDeposit(i)
    /\ Done(i, Replace(Move(tx.ledger, i, tx.guid), i, tx.requested[i]),
            Without(tx.inventory, {i}), TRUE)
    /\ KeepsRest

\* What left the container goes to the player: into the one stack it can be
\* merged with, else as an item of its own.
WithdrawTargets(i) == Stacks(tx.inventory, Previous(i), i, 1)

CanWithdrawInto(i, target) ==
    /\ WithdrawTargets(i) = {target}
    /\ CanMerge(tx.ledger, i, tx.guid, target, tx.player, Previous(i).count)

CanWithdrawWhole(i) ==
    /\ \A s \in Instances : WithdrawTargets(i) # {s}
    /\ AtLocation(tx.ledger, i, tx.guid)

WithdrawIntoStack(i, target) ==
    /\ CanWithdrawInto(i, target)
    /\ LET count == Previous(i).count
       IN  Done(i, Merge(tx.ledger, i, target, count),
                AddedTo(tx.inventory, target, count), TRUE)
    /\ KeepsRest

WithdrawWhole(i) ==
    /\ CanWithdrawWhole(i)
    /\ Done(i, Move(tx.ledger, i, tx.player),
            [tx.inventory EXCEPT ![i] = Previous(i)], TRUE)
    /\ KeepsRest

CanTake(i) ==
    \/ \E s \in Instances : CanGrow(i, s) \/ CanSplitInto(i, s)
    \/ CanRegisterIn(i)
    \/ CanDeposit(i)

CanWithdraw(i) ==
    \/ \E s \in Instances : CanWithdrawInto(i, s)
    \/ CanWithdrawWhole(i)

InObjectUpdate == up /\ tx # NoTransaction

\* The loop over the accepted contents comes first, then the one over the
\* contents that left.
TakeItem ==
    /\ InObjectUpdate
    /\ \E i \in tx.todo :
        \/ \E s \in Instances : \/ GrowContainerStack(i, s)
                               \/ SplitIntoContainer(i, s)
        \/ RegisterContents(i)
        \/ Deposit(i)

WithdrawItem ==
    /\ InObjectUpdate
    /\ tx.todo = {}
    /\ \E i \in tx.leaving :
        \/ \E s \in Instances : WithdrawIntoStack(i, s)
        \/ WithdrawWhole(i)

\* One item that cannot be explained refuses the whole message; the staged
\* copies are dropped.
RejectObjectUpdate ==
    /\ InObjectUpdate
    /\ \/ \E i \in tx.todo : ~CanTake(i)
       \/ tx.todo = {} /\ \E i \in tx.leaving : ~CanWithdraw(i)
    /\ tx' = NoTransaction
    /\ UNCHANGED <<memory, file, unsaved, up, before>>

CommitObjectUpdate ==
    /\ InObjectUpdate
    /\ tx.todo = {}
    /\ tx.leaving = {}
    /\ LET p == tx.player
       IN  /\ profile' = IF tx.changed
                         THEN [profile EXCEPT ![p] =
                                 [revision |-> profile[p].revision + 1,
                                  inventory |-> tx.inventory]]
                         ELSE profile
           /\ unsaved' = [profiles |-> IF tx.changed THEN {p} ELSE {},
                          objects |-> TRUE, items |-> FALSE]
    /\ items' = tx.ledger
    /\ object' = [object EXCEPT ![tx.guid] =
                    [revision |-> object[tx.guid].revision + 1,
                     inventory |-> tx.requested]]
    /\ tx' = NoTransaction
    /\ before' = items
    /\ UNCHANGED <<worldItem, file, up>>

---------------------------------------------------------------------------
(* World-item updates (handle_world_item_update).                          *)

KnownWorldItems == {i \in Instances : worldItem[i].revision # 0}

\* A new record needs room: tombstones are never removed.
AcceptsWorldItem(i) ==
    /\ Idle
    /\ worldItem[i].revision < MaxRevision
    /\ worldItem[i].revision = 0 => Cardinality(KnownWorldItems) < MaxWorldItems

\* The end of the handler.  With a changed profile it is written before the
\* world items.
CommitWorldItem(p, i, present, item, ledger, inventory) ==
    /\ items' = ledger
    /\ worldItem' = [worldItem EXCEPT ![i] =
                        [revision |-> worldItem[i].revision + 1,
                         present |-> present,
                         item |-> IF present THEN item ELSE NoItem]]
    /\ IF inventory = profile[p].inventory
       THEN profile' = profile
       ELSE /\ profile[p].revision < MaxRevision
            /\ profile' = [profile EXCEPT ![p] =
                             [revision |-> profile[p].revision + 1,
                              inventory |-> inventory]]
    /\ unsaved' = [profiles |-> IF inventory = profile[p].inventory
                                THEN {} ELSE {p},
                   objects |-> FALSE, items |-> TRUE]
    /\ before' = items
    /\ UNCHANGED <<object, file, tx, up>>

DropWhole(p, i) ==
    /\ AcceptsWorldItem(i)
    /\ ~worldItem[i].present
    /\ CanMove(items, i, p)
    /\ CommitWorldItem(p, i, TRUE, items[i].item, Move(items, i, World),
                       Without(profile[p].inventory, {i}))

DropPart(p, source, i, count) ==
    /\ AcceptsWorldItem(i)
    /\ ~worldItem[i].present
    /\ source # i
    /\ CanSplit(items, source, p, i, count)
    /\ CommitWorldItem(p, i, TRUE, WithCount(items[source].item, count),
                       Split(items, source, i, count, World),
                       TakenFrom(profile[p].inventory, source, count))

\* The item stays where it is: only its pose changes.
Reposition(p, i) ==
    /\ AcceptsWorldItem(i)
    /\ worldItem[i].present
    /\ AtLocation(items, i, World)
    /\ CommitWorldItem(p, i, TRUE, items[i].item, items, profile[p].inventory)

PickUp(p, i) ==
    /\ AcceptsWorldItem(i)
    /\ worldItem[i].present
    /\ AtLocation(items, i, World)
    /\ SameStack(items[i].item, worldItem[i].item)
    /\ CommitWorldItem(p, i, FALSE, NoItem, Move(items, i, p),
                       [profile[p].inventory EXCEPT ![i] = items[i].item])

\* The first disappearance of an authored item registers it and picks it up.
PickUpAuthored(p, i, item) ==
    /\ AcceptsWorldItem(i)
    /\ worldItem[i].revision = 0
    /\ CanRegister(items, i)
    /\ CommitWorldItem(p, i, FALSE, NoItem, Register(items, i, item, p),
                       [profile[p].inventory EXCEPT ![i] = item])

\* A disappearance that changes no owner: of an item already in the profile,
\* or of one that has a tombstone.
Retire(p, i) ==
    /\ AcceptsWorldItem(i)
    /\ ~worldItem[i].present
    /\ worldItem[i].revision = 0 => AtLocation(items, i, p)
    /\ CommitWorldItem(p, i, FALSE, NoItem, items, profile[p].inventory)

---------------------------------------------------------------------------
(* Files.  Each one is replaced atomically; a handler writes the player's  *)
(* profile first, then the containers, then the world items.               *)

WriteProfile(p) ==
    /\ up
    /\ p \in unsaved.profiles
    /\ file' = [file EXCEPT !.profiles[p] = profile[p]]
    /\ unsaved' = [unsaved EXCEPT !.profiles = @ \ {p}]
    /\ before' = IF unsaved' = NothingUnsaved THEN items ELSE before
    /\ UNCHANGED <<memory, tx, up>>

\* Mutant: the containers are not held back until the profile is written.
WriteObjectsEarly ==
    /\ up
    /\ unsaved.objects
    /\ file' = [file EXCEPT !.objects = object]
    /\ unsaved' = [unsaved EXCEPT !.objects = FALSE]
    /\ before' = IF unsaved' = NothingUnsaved THEN items ELSE before
    /\ UNCHANGED <<memory, tx, up>>

WriteObjects ==
    /\ up
    /\ unsaved.profiles = {}
    /\ unsaved.objects
    /\ file' = [file EXCEPT !.objects = object]
    /\ unsaved' = [unsaved EXCEPT !.objects = FALSE]
    /\ before' = IF unsaved' = NothingUnsaved THEN items ELSE before
    /\ UNCHANGED <<memory, tx, up>>

\* Mutant: the write of the world items is lost.
WriteItemsLost ==
    /\ up
    /\ unsaved.profiles = {}
    /\ ~unsaved.objects
    /\ unsaved.items
    /\ unsaved' = [unsaved EXCEPT !.items = FALSE]
    /\ before' = IF unsaved' = NothingUnsaved THEN items ELSE before
    /\ UNCHANGED <<memory, file, tx, up>>

WriteItems ==
    /\ up
    /\ unsaved.profiles = {}
    /\ ~unsaved.objects
    /\ unsaved.items
    /\ file' = [file EXCEPT !.items = worldItem]
    /\ unsaved' = [unsaved EXCEPT !.items = FALSE]
    /\ before' = IF unsaved' = NothingUnsaved THEN items ELSE before
    /\ UNCHANGED <<memory, tx, up>>

\* The process stops: killed, out of power, or by an exception no handler
\* catches.  The memory is gone; its last value stays in the variables, where
\* nothing reads it before Restart assigns it.
Crash ==
    /\ up
    /\ CrashInHandler \/ Idle
    /\ up' = FALSE
    /\ tx' = NoTransaction
    /\ unsaved' = NothingUnsaved
    /\ UNCHANGED <<memory, file, before>>

---------------------------------------------------------------------------
(* The constructor: profiles are registered first and win over the world.  *)

ProfileLedger(f) ==
    [i \in Instances |->
        IF \E p \in Players : f.profiles[p].inventory[i] # NoItem
        THEN LET p == CHOOSE q \in Players : f.profiles[q].inventory[i] # NoItem
             IN  [item |-> f.profiles[p].inventory[i], location |-> p]
        ELSE Unregistered]

RecoveredObjects(f) == StripOwned(f.objects, ProfileLedger(f))

RecoveredItems(f) == RetireOwned(f.items, ProfileLedger(f))

RecoveredLedger(f) ==
    [i \in Instances |->
        IF ProfileLedger(f)[i] # Unregistered THEN ProfileLedger(f)[i]
        ELSE IF \E g \in Containers : f.objects[g].inventory[i] # NoItem
        THEN LET g == CHOOSE h \in Containers : f.objects[h].inventory[i] # NoItem
             IN  [item |-> f.objects[g].inventory[i], location |-> g]
        ELSE IF f.items[i].present
        THEN [item |-> f.items[i].item, location |-> World]
        ELSE Unregistered]

\* register_item succeeds for every item of the files: the constructor throws
\* otherwise and the server cannot be started again.
Loadable(f) ==
    /\ \A i \in Instances, p, q \in Players :
        /\ f.profiles[p].inventory[i] # NoItem
        /\ f.profiles[q].inventory[i] # NoItem
        => p = q
    /\ \A i \in Instances, g, h \in Containers :
        RecoveredObjects(f)[g].inventory[i] # NoItem =>
            /\ ProfileLedger(f)[i] = Unregistered
            /\ ~RecoveredItems(f)[i].present
            /\ RecoveredObjects(f)[h].inventory[i] # NoItem => g = h
    /\ \A i \in Instances :
        RecoveredItems(f)[i].present => ProfileLedger(f)[i] = Unregistered

Restart ==
    /\ ~up
    /\ Loadable(file)
    /\ up' = TRUE
    /\ profile' = file.profiles
    /\ object' = RecoveredObjects(file)
    /\ worldItem' = RecoveredItems(file)
    /\ items' = RecoveredLedger(file)
    /\ unsaved' = [profiles |-> {}, objects |-> object' # file.objects,
                   items |-> worldItem' # file.items]
    /\ before' = items'
    /\ UNCHANGED <<file, tx>>

---------------------------------------------------------------------------
ProfileUpdates ==
    \E p \in Players, accepted \in Inventories : HandleProfileUpdate(p, accepted)

ObjectUpdates ==
    \/ \E p \in Players, g \in Containers, requested \in Inventories :
        BeginObjectUpdate(p, g, requested)
    \/ TakeItem
    \/ WithdrawItem
    \/ RejectObjectUpdate
    \/ CommitObjectUpdate

WorldItemUpdates ==
    \E p \in Players, i \in Instances :
        \/ DropWhole(p, i)
        \/ \E source \in Instances, count \in 1..MaxItemCount :
            DropPart(p, source, i, count)
        \/ Reposition(p, i)
        \/ PickUp(p, i)
        \/ \E item \in Item : PickUpAuthored(p, i, item)
        \/ Retire(p, i)

Persistence ==
    \/ \E p \in Players : WriteProfile(p)
    \/ WriteObjects
    \/ WriteItems
    \/ Crash
    \/ Restart

Next == ProfileUpdates \/ ObjectUpdates \/ WorldItemUpdates \/ Persistence

Spec == Init /\ [][Next]_vars

---------------------------------------------------------------------------
(* Properties.                                                             *)

\* Every live instance has one owner, and the three collections the handlers
\* keep beside the ledger agree with it: an item is in a profile, a container
\* or the world exactly when the ledger says so, with the same values.
LedgerAgrees ==
    up => \A i \in Instances :
        /\ \A p \in Players : profile[p].inventory[i] = Held(items, p)[i]
        /\ \A g \in Containers : object[g].inventory[i] = Held(items, g)[i]
        /\ worldItem[i].present <=> AtLocation(items, i, World)
        /\ worldItem[i].present => worldItem[i].item = items[i].item

\* Whatever write a crash falls behind, the files can be loaded again: no
\* instance is in two profiles, and none is left in both a container and the
\* world once the items of players are taken out.
StoreIsLoadable == Loadable(file)

\* A restart finds the owners of the last finished handler: no handler
\* forgets to write something it changed.  (Stated for crashes between
\* handlers; CrashInHandler = FALSE.)
RestartRestoresOwners == [][~up /\ up' => items' = items]_vars

\* No message of one player takes from or gives to another, and no handler
\* forgets whom it changed: the only player whose items change in a handler is
\* the one whose profile it writes (the handlers' location checks and their
\* profile_changed flags).
OthersKeepTheirs ==
    [][up /\ up' => \A p \in Players :
        Held(items', p) # Held(items, p) => unsaved'.profiles = {p}]_vars

\* A handler that only takes whole instances, unmerged, from containers or
\* the world to a player survives a crash at every point: a restart recovers
\* the owners before it or the owners after it.
WholeTakesSurviveCrash ==
    /\ up
    /\ \A i \in Instances : before[i] # Unregistered =>
        /\ items[i] # Unregistered
        /\ items[i].item = before[i].item
        /\ HeldByPlayer(before, i) => items[i] = before[i]
    => RecoveredLedger(file) \in {before, items}

\* The items of a definition that the ledger holds, over all places.
CountIn(ledger, d, i) ==
    IF ledger[i] # Unregistered /\ ledger[i].item.definition = d
    THEN ledger[i].item.count ELSE 0

Units(ledger, d) ==
    {u \in Instances \X (1..MaxItemCount) : u[2] <= CountIn(ledger, d, u[1])}

Total(ledger, d) == Cardinality(Units(ledger, d))

\* A transfer neither creates nor destroys items: updates of a container the
\* server knows, drops, and pickups of registered items keep the total of every
\* definition, whatever splits and merges they make (handle_world_object_update,
\* handle_world_item_update).
Transfer ==
    \/ CommitObjectUpdate /\ object[tx.guid].revision # 0
    \/ \E p \in Players, i \in Instances :
        \/ DropWhole(p, i)
        \/ \E s \in Instances, n \in 1..MaxItemCount : DropPart(p, s, i, n)
        \/ PickUp(p, i)

TransfersConserve ==
    [][Transfer => \A d \in Definitions : Total(items', d) = Total(items, d)]_vars

\* What a running container update has staged: the staged profile is what the
\* staged ledger gives the player, the container has the requested contents as
\* far as the loops have come, and nobody else's items move.
StagedContents ==
    tx # NoTransaction =>
        /\ up
        /\ tx.todo \subseteq Requested(tx.requested)
        /\ tx.leaving \cap Requested(tx.requested) = {}
        /\ \A i \in Instances :
            /\ tx.inventory[i] = Held(tx.ledger, tx.player)[i]
            /\ Held(tx.ledger, tx.guid)[i] =
                IF i \in tx.todo \cup tx.leaving THEN Previous(i)
                ELSE tx.requested[i]
            /\ \A other \in Locations \ {tx.player, tx.guid} :
                Held(tx.ledger, other)[i] = Held(items, other)[i]

\* profile_changed is set whenever the staged profile is touched.
ChangeIsNoted ==
    /\ tx # NoTransaction
    /\ ~tx.changed
    => tx.inventory = profile[tx.player].inventory

\* A running container update stages exactly the transfer that its message
\* asks for (handle_world_object_update), whatever merges and splits it makes.
StagedAgrees == StagedContents /\ ChangeIsNoted

---------------------------------------------------------------------------
\* Whatever a message asks for, and wherever a crash falls, the ledger changes
\* as Ownership promises: a handler is one player's report or one exchange
\* with one place, made on a ledger that is safe, and a restart loses at most
\* what the last handler took from its player.
Owners == INSTANCE Ownership
            WITH Places <- Containers \cup {World}, ledger <- items, kept <- before

OwnershipIsKept == Owners!Spec

===========================================================================

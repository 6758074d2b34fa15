------------------------ MODULE ItemAuthorityProofs ------------------------
(***************************************************************************)
(* Theorems about ItemAuthority, for every number of players, containers,  *)
(* items and revisions: the ledger, the profiles, the containers and the   *)
(* world items agree in every reachable state; no message touches what     *)
(* another player has; whatever a crash leaves in the files can be loaded; *)
(* a handler that only takes whole instances to players loses and          *)
(* duplicates nothing; the four loops of a profile update leave, in every  *)
(* order of the message, the ledger HandleProfileUpdate gives; transfers   *)
(* keep the number of items; and all of it keeps the promise of Ownership. *)
(***************************************************************************)
EXTENDS ItemAuthority, ProfileLoops, FiniteSetTheorems,
        WellFoundedInduction, TLAPS

---------------------------------------------------------------------------
(* What the operations of the ledger return.                               *)

LEMMA WithCountTyped ==
    ASSUME NEW item \in Item, NEW n \in 1..MaxItemCount
    PROVE  /\ WithCount(item, n) \in Item
           /\ WithCount(item, n).count = n
           /\ WithCount(item, n).definition = item.definition
           /\ WithCount(item, n).quality = item.quality
BY DEF WithCount, Item

LEMMA MergeTyped ==
    ASSUME NEW ledger \in Ledgers, NEW s \in Instances, NEW t \in Instances,
           NEW sl, NEW tl, NEW n \in Nat,
           CanMerge(ledger, s, sl, t, tl, n)
    PROVE  /\ Merge(ledger, s, t, n) \in Ledgers
           /\ Merge(ledger, s, t, n)[t] =
                [item |-> WithCount(ledger[t].item, ledger[t].item.count + n),
                 location |-> tl]
           /\ Merge(ledger, s, t, n)[t] # Unregistered
           /\ n \in 1..MaxItemCount
           /\ ledger[t].item.count + n \in 1..MaxItemCount
           /\ n = ledger[s].item.count => Merge(ledger, s, t, n)[s] = Unregistered
           /\ n # ledger[s].item.count =>
                /\ Merge(ledger, s, t, n)[s] =
                     [item |-> WithCount(ledger[s].item, ledger[s].item.count - n),
                      location |-> sl]
                /\ Merge(ledger, s, t, n)[s] # Unregistered
                /\ ledger[s].item.count - n \in 1..MaxItemCount
           /\ \A j \in Instances \ {s, t} : Merge(ledger, s, t, n)[j] = ledger[j]
<1>1. /\ ledger[s] \in Entry /\ ledger[s].location = sl
      /\ ledger[t] \in Entry /\ ledger[t].location = tl
      /\ s # t /\ n > 0
      /\ ledger[s].item \in Item /\ ledger[t].item \in Item
  BY DEF CanMerge, AtLocation, Ledgers, Entry
<1>2. /\ ledger[t].item.count + n \in 1..MaxItemCount
      /\ n \in 1..MaxItemCount
      /\ n # ledger[s].item.count => ledger[s].item.count - n \in 1..MaxItemCount
  BY <1>1, MaxItemCountIsPositive DEF CanMerge, Item
<1>3. /\ [item |-> WithCount(ledger[t].item, ledger[t].item.count + n),
          location |-> tl] \in Entry
      /\ n # ledger[s].item.count =>
            [item |-> WithCount(ledger[s].item, ledger[s].item.count - n),
             location |-> sl] \in Entry
  BY <1>1, <1>2, WithCountTyped DEF Entry
<1>4. DOMAIN ledger = Instances
  BY DEF Ledgers
<1> QED
  BY <1>1, <1>2, <1>3, <1>4, UnregisteredIsNoEntry DEF Merge, Ledgers

\* A merge of the whole source.
LEMMA MergeWholeTyped ==
    ASSUME NEW ledger \in Ledgers, NEW s \in Instances, NEW t \in Instances,
           NEW sl, NEW tl,
           CanMerge(ledger, s, sl, t, tl, ledger[s].item.count)
    PROVE  LET n == ledger[s].item.count
           IN  /\ Merge(ledger, s, t, n) \in Ledgers
               /\ Merge(ledger, s, t, n)[t] =
                    [item |-> WithCount(ledger[t].item, ledger[t].item.count + n),
                     location |-> tl]
               /\ Merge(ledger, s, t, n)[t] # Unregistered
               /\ WithCount(ledger[t].item, ledger[t].item.count + n) \in Item
               /\ Merge(ledger, s, t, n)[s] = Unregistered
               /\ \A j \in Instances \ {s, t} :
                    Merge(ledger, s, t, n)[j] = ledger[j]
<1>1. /\ ledger[s] \in Entry
      /\ ledger[t] \in Entry /\ ledger[t].location = tl
      /\ s # t
      /\ ledger[s].item \in Item /\ ledger[t].item \in Item
  BY DEF CanMerge, AtLocation, Ledgers, Entry
<1>2. ledger[t].item.count + ledger[s].item.count \in 1..MaxItemCount
  BY <1>1, MaxItemCountIsPositive DEF CanMerge, Item
<1>3. /\ WithCount(ledger[t].item, ledger[t].item.count + ledger[s].item.count)
            \in Item
      /\ [item |-> WithCount(ledger[t].item,
                             ledger[t].item.count + ledger[s].item.count),
          location |-> tl] \in Entry
  BY <1>1, <1>2, WithCountTyped DEF Entry
<1>4. DOMAIN ledger = Instances
  BY DEF Ledgers
<1> QED
  BY <1>1, <1>2, <1>3, <1>4, UnregisteredIsNoEntry DEF Merge, Ledgers

LEMMA SplitTyped ==
    ASSUME NEW ledger \in Ledgers, NEW s \in Instances, NEW new \in Instances,
           NEW sl, NEW n \in Nat, NEW destination \in Locations,
           CanSplit(ledger, s, sl, new, n)
    PROVE  /\ Split(ledger, s, new, n, destination) \in Ledgers
           /\ s # new
           /\ n \in 1..MaxItemCount
           /\ ledger[s].item.count - n \in 1..MaxItemCount
           /\ Split(ledger, s, new, n, destination)[s] =
                [item |-> WithCount(ledger[s].item, ledger[s].item.count - n),
                 location |-> sl]
           /\ Split(ledger, s, new, n, destination)[new] =
                [item |-> WithCount(ledger[s].item, n), location |-> destination]
           /\ Split(ledger, s, new, n, destination)[s] # Unregistered
           /\ Split(ledger, s, new, n, destination)[new] # Unregistered
           /\ \A j \in Instances \ {s, new} :
                Split(ledger, s, new, n, destination)[j] = ledger[j]
<1>1. /\ ledger[s] \in Entry /\ ledger[s].location = sl
      /\ s # new
      /\ ledger[s].item \in Item
  BY DEF CanSplit, AtLocation, Ledgers, Entry
<1>2. /\ n \in 1..MaxItemCount
      /\ ledger[s].item.count - n \in 1..MaxItemCount
  BY <1>1, MaxItemCountIsPositive DEF CanSplit, Item
<1>3. /\ [item |-> WithCount(ledger[s].item, ledger[s].item.count - n),
          location |-> sl] \in Entry
      /\ [item |-> WithCount(ledger[s].item, n), location |-> destination]
            \in Entry
  BY <1>1, <1>2, WithCountTyped DEF Entry
<1>4. DOMAIN ledger = Instances
  BY DEF Ledgers
<1> QED
  BY <1>1, <1>2, <1>3, <1>4, UnregisteredIsNoEntry DEF Split, Ledgers

LEMMA MoveTyped ==
    ASSUME NEW ledger \in Ledgers, NEW i \in Instances, NEW sl,
           NEW destination \in Locations, CanMove(ledger, i, sl)
    PROVE  /\ Move(ledger, i, destination) \in Ledgers
           /\ ledger[i] \in Entry
           /\ Move(ledger, i, destination)[i] =
                [item |-> ledger[i].item, location |-> destination]
           /\ Move(ledger, i, destination)[i] # Unregistered
           /\ \A j \in Instances \ {i} :
                Move(ledger, i, destination)[j] = ledger[j]
BY UnregisteredIsNoEntry DEF CanMove, AtLocation, Move, Ledgers, Entry

LEMMA RegisterTyped ==
    ASSUME NEW ledger \in Ledgers, NEW i \in Instances, NEW item \in Item,
           NEW location \in Locations
    PROVE  /\ Register(ledger, i, item, location) \in Ledgers
           /\ Register(ledger, i, item, location)[i] =
                [item |-> item, location |-> location]
           /\ Register(ledger, i, item, location)[i] # Unregistered
           /\ \A j \in Instances \ {i} :
                Register(ledger, i, item, location)[j] = ledger[j]
BY UnregisteredIsNoEntry DEF Register, Ledgers, Entry

LEMMA ReplaceTyped ==
    ASSUME NEW ledger \in Ledgers, NEW i \in Instances, NEW item \in Item,
           ledger[i] \in Entry
    PROVE  /\ Replace(ledger, i, item) \in Ledgers
           /\ Replace(ledger, i, item)[i] =
                [item |-> item, location |-> ledger[i].location]
           /\ Replace(ledger, i, item)[i] # Unregistered
           /\ \A j \in Instances \ {i} : Replace(ledger, i, item)[j] = ledger[j]
BY UnregisteredIsNoEntry DEF Replace, Ledgers, Entry

\* Held lists the items of one place.
LEMMA HeldTyped ==
    ASSUME NEW ledger \in Ledgers, NEW location
    PROVE  /\ Held(ledger, location) \in Inventories
           /\ \A i \in Instances :
                /\ AtLocation(ledger, i, location) =>
                    /\ Held(ledger, location)[i] = ledger[i].item
                    /\ Held(ledger, location)[i] # NoItem
                    /\ Held(ledger, location)[i] \in Item
                /\ ~AtLocation(ledger, i, location) =>
                    Held(ledger, location)[i] = NoItem
BY NoItemIsNoItem DEF Held, Inventories, AtLocation, Ledgers, Entry

LEMMA HeldAt ==
    ASSUME NEW ledger, NEW location, NEW j \in Instances
    PROVE  /\ ledger[j] # Unregistered /\ ledger[j].location = location =>
                Held(ledger, location)[j] = ledger[j].item
           /\ ledger[j] = Unregistered => Held(ledger, location)[j] = NoItem
           /\ ledger[j].location # location => Held(ledger, location)[j] = NoItem
BY DEF Held, AtLocation

LEMMA HeldSame ==
    ASSUME NEW left, NEW right, NEW location, NEW j \in Instances,
           left[j] = right[j]
    PROVE  Held(left, location)[j] = Held(right, location)[j]
BY DEF Held, AtLocation

\* What a player owns after a profile update, and what the others keep.
LEMMA SettledLedgerTyped ==
    ASSUME NEW ledger \in Ledgers, NEW p \in Players, NEW accepted \in Inventories,
           OwnershipAllows(p, ledger, accepted)
    PROVE  /\ SettledLedger(p, ledger, accepted) \in Ledgers
           /\ Held(SettledLedger(p, ledger, accepted), p) = accepted
           /\ \A q \in Players \ {p} :
                Held(SettledLedger(p, ledger, accepted), q) = Held(ledger, q)
<1> DEFINE settled == SettledLedger(p, ledger, accepted)
<1>1. /\ settled \in Ledgers
      /\ p \in Locations
  BY DEF SettledLedger, Ledgers, Entry, Inventories, Locations
<1>2. ASSUME NEW i \in Instances
      PROVE  Held(settled, p)[i] = accepted[i]
  BY <1>2, UnregisteredIsNoEntry, <1>1
  DEF SettledLedger, Held, AtLocation, Inventories, Entry, Ledgers
<1>3. ASSUME NEW q \in Players \ {p}, NEW i \in Instances
      PROVE  Held(settled, q)[i] = Held(ledger, q)[i]
  <2>1. CASE accepted[i] # NoItem
    <3>1. ~AtLocation(ledger, i, q)
      BY <2>1 DEF OwnershipAllows, Requested, AtLocation
    <3> QED
      BY <3>1, <2>1 DEF SettledLedger, Held, AtLocation
  <2>2. CASE accepted[i] = NoItem
    BY <2>2 DEF SettledLedger, Held, AtLocation
  <2> QED
    BY <2>1, <2>2
<1>4. /\ Held(settled, p) = accepted
      /\ \A q \in Players \ {p} : Held(settled, q) = Held(ledger, q)
  BY <1>2, <1>3 DEF Held, Inventories
<1> QED
  BY <1>1, <1>4

---------------------------------------------------------------------------
(* The inductive invariant.  LedgerAgrees alone is not inductive: the      *)
(* container handler commits staged copies, so what they hold while it     *)
(* runs is part of the invariant.                                          *)

IInv == TypeOK /\ LedgerAgrees /\ StagedAgrees

LEMMA InitEstablishes == Init => IInv
<1> SUFFICES ASSUME Init PROVE IInv
  OBVIOUS
<1>1. items \in Ledgers
  BY DEF Init, Ledgers, Entry, Locations
<1>2. \A p \in Players : Held(items, p) \in Inventories
  BY <1>1, HeldTyped
<1>3. /\ UnknownObject \in ObjectRecord
      /\ UnknownWorldItem \in WorldItemRecord
  BY DEF UnknownObject, UnknownWorldItem, ObjectRecord, WorldItemRecord,
         EmptyInventory, Inventories
<1>4. TypeOK
  BY <1>1, <1>2, <1>3
  DEF Init, TypeOK, ProfileRecord, Files, Unsaved, NothingUnsaved
<1>5. ASSUME NEW i \in Instances, NEW other \in Containers \cup {World}
      PROVE  ~AtLocation(items, i, other)
  BY PlacesAreDistinct, UnregisteredIsNoEntry DEF Init, AtLocation
<1>6. LedgerAgrees
  BY <1>5 DEF LedgerAgrees, Init, UnknownObject, UnknownWorldItem,
              EmptyInventory, Held
<1>7. StagedAgrees
  BY DEF StagedAgrees, StagedContents, ChangeIsNoted, Init
<1> QED
  BY <1>4, <1>6, <1>7 DEF IInv

\* Stripping and retiring leave exactly what the new ledger keeps outside the
\* players' inventories.
LEMMA StripOwnedTyped ==
    ASSUME NEW objects \in [Containers -> ObjectRecord], NEW ledger \in Ledgers
    PROVE  /\ StripOwned(objects, ledger) \in [Containers -> ObjectRecord]
           /\ \A g \in Containers, i \in Instances :
                StripOwned(objects, ledger)[g].inventory[i] =
                    IF HeldByPlayer(ledger, i) THEN NoItem
                    ELSE objects[g].inventory[i]
<1> SUFFICES ASSUME NEW g \in Containers
             PROVE  /\ StripOwned(objects, ledger)[g] \in ObjectRecord
                    /\ \A i \in Instances :
                        StripOwned(objects, ledger)[g].inventory[i] =
                            IF HeldByPlayer(ledger, i) THEN NoItem
                            ELSE objects[g].inventory[i]
  BY DEF StripOwned
<1> DEFINE stale == {i \in Requested(objects[g].inventory) :
                        HeldByPlayer(ledger, i)}
<1>1. CASE stale = {}
  BY <1>1 DEF StripOwned, Requested, ObjectRecord
<1>2. CASE stale # {}
  BY <1>2 DEF StripOwned, Requested, ObjectRecord, Without, Inventories
<1> QED
  BY <1>1, <1>2

LEMMA RetireOwnedTyped ==
    ASSUME NEW records \in [Instances -> WorldItemRecord], NEW ledger \in Ledgers
    PROVE  /\ RetireOwned(records, ledger) \in [Instances -> WorldItemRecord]
           /\ \A i \in Instances :
                /\ RetireOwned(records, ledger)[i].present <=>
                        records[i].present /\ ~HeldByPlayer(ledger, i)
                /\ RetireOwned(records, ledger)[i].present =>
                        RetireOwned(records, ledger)[i].item = records[i].item
BY DEF RetireOwned, WorldItemRecord

LEMMA ProfileUpdateKeeps ==
    ASSUME IInv, NEW p \in Players, NEW accepted \in Inventories,
           HandleProfileUpdate(p, accepted)
    PROVE  IInv'
<1> DEFINE ledger == SettledLedger(p, items, accepted)
<1> USE DEF IInv, TypeOK
<1>1. /\ ledger \in Ledgers
      /\ Held(ledger, p) = accepted
      /\ \A q \in Players \ {p} : Held(ledger, q) = Held(items, q)
  BY SettledLedgerTyped DEF HandleProfileUpdate
<1>2. TypeOK'
  BY <1>1, StripOwnedTyped, RetireOwnedTyped
  DEF HandleProfileUpdate, ProfileRecord, Unsaved, memory
<1>3. up /\ tx = NoTransaction
  BY DEF HandleProfileUpdate, Idle
<1>4. ASSUME NEW i \in Instances, NEW other \in Containers \cup {World}
      PROVE  /\ HeldByPlayer(ledger, i) => ~AtLocation(ledger, i, other)
             /\ HeldByPlayer(ledger, i) \/ ledger[i] = items[i]
                    \/ (ledger[i] = Unregistered /\ AtLocation(items, i, p))
  <2>1. CASE accepted[i] # NoItem
    <3>1. ledger[i] = [item |-> accepted[i], location |-> p]
      BY <2>1 DEF SettledLedger
    <3>2. ledger[i] # Unregistered
      BY <2>1, <3>1, UnregisteredIsNoEntry DEF Inventories, Entry, Locations
    <3>3. AtLocation(ledger, i, p)
      BY <3>1, <3>2 DEF AtLocation
    <3>4. ~AtLocation(ledger, i, other)
      BY <3>1, PlacesAreDistinct DEF AtLocation
    <3> QED
      BY <3>3, <3>4 DEF HeldByPlayer
  <2>2. CASE accepted[i] = NoItem
    BY <2>2, PlacesAreDistinct DEF SettledLedger, HeldByPlayer, AtLocation
  <2> QED
    BY <2>1, <2>2
<1>5. ASSUME NEW i \in Instances, NEW other \in Containers \cup {World}
      PROVE  /\ AtLocation(ledger, i, other) <=>
                    AtLocation(items, i, other) /\ ~HeldByPlayer(ledger, i)
             /\ AtLocation(ledger, i, other) => ledger[i] = items[i]
  BY <1>4, PlacesAreDistinct DEF AtLocation, HeldByPlayer
<1>6. LedgerAgrees'
  <2>1. ASSUME NEW i \in Instances, NEW q \in Players
        PROVE  profile'[q].inventory[i] = Held(items', q)[i]
    BY <1>1, <1>3 DEF HandleProfileUpdate, LedgerAgrees, ProfileRecord
  <2>2. ASSUME NEW i \in Instances, NEW g \in Containers
        PROVE  object'[g].inventory[i] = Held(items', g)[i]
    BY <1>1, <1>3, <1>5, StripOwnedTyped
    DEF HandleProfileUpdate, LedgerAgrees, Held
  <2>3. ASSUME NEW i \in Instances
        PROVE  /\ worldItem'[i].present <=> AtLocation(items', i, World)
               /\ worldItem'[i].present => worldItem'[i].item = items'[i].item
    BY <1>1, <1>3, <1>5, RetireOwnedTyped
    DEF HandleProfileUpdate, LedgerAgrees
  <2> QED
    BY <2>1, <2>2, <2>3 DEF LedgerAgrees
<1>7. StagedAgrees'
  BY <1>3 DEF StagedAgrees, StagedContents, ChangeIsNoted, HandleProfileUpdate
<1> QED
  BY <1>2, <1>6, <1>7

---------------------------------------------------------------------------
(* The container handler.  Each turn of its loops disturbs one item of the *)
(* message; StageKeeps says what the turn has to achieve.                  *)

LEMMA BeginKeeps ==
    ASSUME IInv, NEW p \in Players, NEW g \in Containers,
           NEW requested \in Inventories, BeginObjectUpdate(p, g, requested)
    PROVE  IInv'
<1> USE DEF IInv, TypeOK
<1>1. /\ up /\ up'
      /\ UNCHANGED <<profile, object, worldItem, items, file, unsaved, before>>
  BY DEF BeginObjectUpdate, Idle, memory
<1>2. /\ tx' \in Transactions
      /\ tx'.player = p /\ tx'.guid = g /\ tx'.requested = requested
      /\ tx'.ledger = items /\ tx'.inventory = profile[p].inventory
      /\ tx'.todo = {i \in Requested(requested) :
                        requested[i] # object[g].inventory[i]}
      /\ tx'.leaving = {i \in Requested(object[g].inventory) :
                            requested[i] = NoItem}
  BY DEF BeginObjectUpdate, Transactions, ProfileRecord, Requested
<1>3. TypeOK' /\ LedgerAgrees'
  BY <1>1, <1>2 DEF LedgerAgrees
<1>4. StagedAgrees'
  BY <1>1, <1>2 DEF StagedAgrees, StagedContents, ChangeIsNoted,
                     LedgerAgrees, Requested, Previous
<1> QED
  BY <1>3, <1>4

LEMMA StageKeeps ==
    ASSUME IInv, tx # NoTransaction, NEW i \in tx.todo \cup tx.leaving,
           NEW ledger \in Ledgers, NEW inventory, NEW changed \in BOOLEAN,
           Done(i, ledger, inventory, changed), KeepsRest,
           \A j \in Instances : inventory[j] = Held(ledger, tx.player)[j],
           inventory \in Inventories,
           Held(ledger, tx.guid)[i] = tx.requested[i],
           \A j \in Instances \ {i} :
                Held(ledger, tx.guid)[j] = Held(tx.ledger, tx.guid)[j],
           \A other \in Locations \ {tx.player, tx.guid}, j \in Instances :
                Held(ledger, other)[j] = Held(tx.ledger, other)[j]
    PROVE  TypeOK' /\ LedgerAgrees' /\ StagedContents'
<1> USE DEF IInv, TypeOK
<1>1. /\ tx \in Transactions
      /\ up /\ up'
      /\ UNCHANGED <<profile, object, worldItem, items, file, unsaved, before>>
  BY DEF KeepsRest, memory, StagedAgrees, StagedContents
<1>2. /\ tx' \in Transactions
      /\ tx'.player = tx.player /\ tx'.guid = tx.guid
      /\ tx'.requested = tx.requested
      /\ tx'.ledger = ledger /\ tx'.inventory = inventory
      /\ tx'.changed = changed
      /\ tx'.todo = tx.todo \ {i} /\ tx'.leaving = tx.leaving \ {i}
  BY <1>1 DEF Done, Transactions
<1>3. TypeOK' /\ LedgerAgrees'
  BY <1>1, <1>2 DEF LedgerAgrees
<1>4. \A j \in Instances : Previous(j)' = Previous(j)
  BY <1>1, <1>2 DEF Previous
<1>5. StagedContents'
  BY <1>1, <1>2, <1>4 DEF StagedAgrees, StagedContents
<1> QED
  BY <1>3, <1>5

LEMMA ChangeStaysNoted ==
    ASSUME IInv, tx # NoTransaction, NEW i, NEW ledger, NEW inventory,
           Done(i, ledger, inventory, TRUE), KeepsRest
    PROVE  ChangeIsNoted'
BY DEF IInv, TypeOK, Done, Transactions, ChangeIsNoted

\* A transaction in progress, spelled out.
LEMMA StagedFacts ==
    ASSUME IInv, tx # NoTransaction
    PROVE  /\ tx.player \in Players /\ tx.guid \in Containers
           /\ tx.player \in Locations /\ tx.guid \in Locations
           /\ tx.player # tx.guid
           /\ tx.ledger \in Ledgers /\ tx.inventory \in Inventories
           /\ tx.requested \in Inventories /\ tx.changed \in BOOLEAN
           /\ tx.todo \subseteq Instances /\ tx.leaving \subseteq Instances
           /\ \A i \in Instances : tx.inventory[i] = Held(tx.ledger, tx.player)[i]
           /\ \A i \in tx.todo :
                /\ tx.requested[i] \in Item
                /\ Held(tx.ledger, tx.guid)[i] = Previous(i)
           /\ \A i \in tx.leaving :
                /\ tx.requested[i] = NoItem
                /\ Held(tx.ledger, tx.guid)[i] = Previous(i)
<1>1. tx \in Transactions
  BY DEF IInv, TypeOK
<1>2. /\ tx.player \in Players /\ tx.guid \in Containers
      /\ tx.ledger \in Ledgers /\ tx.inventory \in Inventories
      /\ tx.requested \in Inventories /\ tx.changed \in BOOLEAN
      /\ tx.todo \subseteq Instances /\ tx.leaving \subseteq Instances
  BY <1>1 DEF Transactions
<1>3. tx.player # tx.guid /\ tx.player \in Locations /\ tx.guid \in Locations
  BY <1>2, PlacesAreDistinct DEF Locations
<1> QED
  BY <1>2, <1>3 DEF IInv, StagedAgrees, StagedContents, Requested, Inventories

LEMMA GrowKeeps ==
    ASSUME IInv, tx # NoTransaction, NEW i \in tx.todo, NEW s \in Instances,
           GrowContainerStack(i, s)
    PROVE  IInv'
<1> DEFINE n == tx.requested[i].count - Previous(i).count
           p == tx.player
           g == tx.guid
           old == tx.ledger
           merged == Merge(tx.ledger, s, i, n)
           taken == TakenFrom(tx.inventory, s, n)
           changed == TRUE
<1>0. /\ p \in Players /\ g \in Containers /\ p # g
      /\ old \in Ledgers /\ tx.inventory \in Inventories
      /\ i \in Instances /\ tx.requested[i] \in Item
      /\ Held(old, g)[i] = Previous(i)
      /\ \A j \in Instances : tx.inventory[j] = Held(old, p)[j]
  BY StagedFacts
<1>1. /\ CanMerge(old, s, p, i, g, n)
      /\ Stackable(Previous(i), tx.requested[i])
      /\ Done(i, merged, taken, changed) /\ KeepsRest /\ changed \in BOOLEAN
  BY DEF GrowContainerStack, CanGrow
<1>2. /\ old[s] \in Entry /\ old[s].location = p /\ old[s] # Unregistered
      /\ old[i] \in Entry /\ old[i].location = g /\ old[i] # Unregistered
      /\ s # i
  BY <1>0, <1>1 DEF CanMerge, AtLocation, Ledgers
<1>3. Previous(i) = old[i].item /\ tx.inventory[s] = old[s].item
  BY <1>0, <1>2, HeldAt
<1>4. n \in Nat
  BY <1>0, <1>1, <1>2, <1>3 DEF CanMerge, Item, Entry
<1> HIDE DEF n, merged
<1>5. /\ merged \in Ledgers
      /\ merged[i] = [item |-> WithCount(old[i].item, old[i].item.count + n),
                      location |-> g]
      /\ merged[i] # Unregistered
      /\ n = old[s].item.count => merged[s] = Unregistered
      /\ n # old[s].item.count =>
            /\ merged[s] = [item |-> WithCount(old[s].item,
                                               old[s].item.count - n),
                            location |-> p]
            /\ merged[s] # Unregistered
            /\ old[s].item.count - n \in 1..MaxItemCount
      /\ \A j \in Instances \ {s, i} : merged[j] = old[j]
  BY <1>0, <1>1, <1>4, MergeTyped DEF merged
<1>6. WithCount(old[i].item, old[i].item.count + n) = tx.requested[i]
  BY <1>0, <1>1, <1>2, <1>3 DEF WithCount, Item, Entry, Stackable, n
<1>7. Held(merged, g)[i] = tx.requested[i]
  BY <1>0, <1>5, <1>6, HeldAt
<1>8. \A j \in Instances \ {s, i}, place \in Locations :
        Held(merged, place)[j] = Held(old, place)[j]
  BY <1>5, HeldSame
<1>9. \A place \in Locations \ {p} :
        Held(merged, place)[s] = NoItem /\ Held(old, place)[s] = NoItem
  BY <1>2, <1>5, HeldAt
<1>10. \A place \in Locations \ {g} :
        Held(merged, place)[i] = NoItem /\ Held(old, place)[i] = NoItem
  BY <1>0, <1>2, <1>5, HeldAt
<1>11. p \in Locations /\ g \in Locations
  BY <1>0 DEF Locations
<1>12. /\ \A j \in Instances \ {i} : Held(merged, g)[j] = Held(old, g)[j]
       /\ \A place \in Locations \ {p, g}, j \in Instances :
            Held(merged, place)[j] = Held(old, place)[j]
  BY <1>0, <1>8, <1>9, <1>10, <1>11
<1>13. n # old[s].item.count =>
            WithCount(old[s].item, old[s].item.count - n) \in Item
  BY <1>2, <1>5, WithCountTyped DEF Entry
<1>14. /\ taken \in Inventories
       /\ taken[s] = IF n = old[s].item.count THEN NoItem
                     ELSE WithCount(old[s].item, old[s].item.count - n)
       /\ \A j \in Instances \ {s} : taken[j] = tx.inventory[j]
  BY <1>0, <1>3, <1>13 DEF TakenFrom, Inventories
<1>15. taken[s] = Held(merged, p)[s]
  BY <1>5, <1>14, HeldAt
<1>16. \A j \in Instances : taken[j] = Held(merged, p)[j]
  BY <1>0, <1>8, <1>10, <1>11, <1>14, <1>15
<1>noted. ChangeIsNoted'
  BY <1>1, ChangeStaysNoted
<1> HIDE DEF taken, changed
<1> QED
  BY <1>0, <1>1, <1>5, <1>7, <1>12, <1>14, <1>16, StageKeeps,
     <1>noted DEF IInv, StagedAgrees

LEMMA SplitIntoKeeps ==
    ASSUME IInv, tx # NoTransaction, NEW i \in tx.todo, NEW s \in Instances,
           SplitIntoContainer(i, s)
    PROVE  IInv'
<1> DEFINE n == tx.requested[i].count
           p == tx.player
           g == tx.guid
           old == tx.ledger
           divided == Split(tx.ledger, s, i, n, g)
           taken == TakenFrom(tx.inventory, s, n)
           changed == TRUE
<1>0. /\ p \in Players /\ g \in Containers /\ p # g
      /\ g \in Locations /\ p \in Locations
      /\ old \in Ledgers /\ tx.inventory \in Inventories
      /\ i \in Instances /\ tx.requested[i] \in Item
      /\ \A j \in Instances : tx.inventory[j] = Held(old, p)[j]
  BY StagedFacts
<1>1. /\ CanSplit(old, s, p, i, n)
      /\ s \in Stacks(tx.inventory, tx.requested[i], i, n + 1)
      /\ Done(i, divided, taken, changed) /\ KeepsRest /\ changed \in BOOLEAN
      /\ old[i] = Unregistered
  BY DEF SplitIntoContainer, CanSplitInto
<1>2. n \in Nat
  BY <1>0 DEF Item
<1>3. /\ old[s] \in Entry /\ old[s].location = p /\ old[s] # Unregistered
      /\ tx.inventory[s] = old[s].item
  BY <1>0, <1>1, HeldAt DEF CanSplit, AtLocation, Ledgers
<1> HIDE DEF divided
<1>4. /\ divided \in Ledgers
      /\ s # i
      /\ old[s].item.count - n \in 1..MaxItemCount
      /\ divided[s] = [item |-> WithCount(old[s].item, old[s].item.count - n),
                       location |-> p]
      /\ divided[i] = [item |-> WithCount(old[s].item, n), location |-> g]
      /\ divided[s] # Unregistered /\ divided[i] # Unregistered
      /\ \A j \in Instances \ {s, i} : divided[j] = old[j]
  BY <1>0, <1>1, <1>2, SplitTyped DEF divided
<1>5. WithCount(old[s].item, n) = tx.requested[i]
  BY <1>0, <1>1, <1>3 DEF WithCount, Item, Stacks, Stackable
<1>6. Held(divided, g)[i] = tx.requested[i]
  BY <1>0, <1>4, <1>5, HeldAt
<1>7. \A j \in Instances \ {s, i}, place \in Locations :
        Held(divided, place)[j] = Held(old, place)[j]
  BY <1>4, HeldSame
<1>8. \A place \in Locations \ {p} :
        Held(divided, place)[s] = NoItem /\ Held(old, place)[s] = NoItem
  BY <1>3, <1>4, HeldAt
<1>9. \A place \in Locations \ {g} :
        Held(divided, place)[i] = NoItem /\ Held(old, place)[i] = NoItem
  BY <1>0, <1>1, <1>4, HeldAt
<1>10. /\ \A j \in Instances \ {i} : Held(divided, g)[j] = Held(old, g)[j]
       /\ \A place \in Locations \ {p, g}, j \in Instances :
            Held(divided, place)[j] = Held(old, place)[j]
  BY <1>0, <1>7, <1>8, <1>9
<1>11. WithCount(old[s].item, old[s].item.count - n) \in Item
  BY <1>3, <1>4, WithCountTyped DEF Entry
<1>12. old[s].item.count # n
  BY <1>2, <1>3, <1>4 DEF Entry, Item
<1>13. /\ taken \in Inventories
       /\ taken[s] = WithCount(old[s].item, old[s].item.count - n)
       /\ \A j \in Instances \ {s} : taken[j] = tx.inventory[j]
  BY <1>0, <1>3, <1>11, <1>12 DEF TakenFrom, Inventories
<1>14. \A j \in Instances : taken[j] = Held(divided, p)[j]
  <2>1. taken[s] = Held(divided, p)[s]
    BY <1>4, <1>13, HeldAt
  <2> QED
    BY <2>1, <1>0, <1>7, <1>9, <1>13
<1>noted. ChangeIsNoted'
  BY <1>1, ChangeStaysNoted
<1> HIDE DEF taken, changed
<1> QED
  BY <1>0, <1>1, <1>4, <1>6, <1>10, <1>13, <1>14, StageKeeps,
     <1>noted DEF IInv, StagedAgrees

LEMMA RegisterContentsKeeps ==
    ASSUME IInv, tx # NoTransaction, NEW i \in tx.todo, RegisterContents(i)
    PROVE  IInv'
<1> DEFINE p == tx.player
           g == tx.guid
           old == tx.ledger
           registered == Register(tx.ledger, i, tx.requested[i], g)
<1>0. /\ p \in Locations /\ g \in Locations /\ p # g
      /\ old \in Ledgers /\ tx.inventory \in Inventories
      /\ i \in Instances /\ tx.requested[i] \in Item
      /\ \A j \in Instances : tx.inventory[j] = Held(old, p)[j]
      /\ tx.changed \in BOOLEAN
  BY StagedFacts
<1>1. /\ old[i] = Unregistered
      /\ Done(i, registered, tx.inventory, tx.changed) /\ KeepsRest
  BY DEF RegisterContents, CanRegisterIn
<1> HIDE DEF registered
<1>2. /\ registered \in Ledgers
      /\ registered[i] = [item |-> tx.requested[i], location |-> g]
      /\ registered[i] # Unregistered
      /\ \A j \in Instances \ {i} : registered[j] = old[j]
  BY <1>0, RegisterTyped DEF registered
<1>3. Held(registered, g)[i] = tx.requested[i]
  BY <1>0, <1>2, HeldAt
<1>4. \A j \in Instances \ {i}, place \in Locations :
        Held(registered, place)[j] = Held(old, place)[j]
  BY <1>2, HeldSame
<1>5. \A place \in Locations \ {g} :
        Held(registered, place)[i] = NoItem /\ Held(old, place)[i] = NoItem
  BY <1>0, <1>1, <1>2, HeldAt
<1>noted. ChangeIsNoted'
  BY <1>1 DEF IInv, TypeOK, Done, Transactions, ChangeIsNoted, StagedAgrees,
              KeepsRest, memory
<1> QED
  BY <1>0, <1>1, <1>2, <1>3, <1>4, <1>5, StageKeeps,
     <1>noted DEF IInv, StagedAgrees

LEMMA DepositKeeps ==
    ASSUME IInv, tx # NoTransaction, NEW i \in tx.todo, Deposit(i)
    PROVE  IInv'
<1> DEFINE p == tx.player
           g == tx.guid
           old == tx.ledger
           moved == Move(tx.ledger, i, g)
           placed == Replace(moved, i, tx.requested[i])
           kept == Without(tx.inventory, {i})
           changed == TRUE
<1>0. /\ p \in Locations /\ g \in Locations /\ p # g
      /\ old \in Ledgers /\ tx.inventory \in Inventories
      /\ i \in Instances /\ tx.requested[i] \in Item
      /\ \A j \in Instances : tx.inventory[j] = Held(old, p)[j]
  BY StagedFacts
<1>1. /\ CanMove(old, i, p)
      /\ Done(i, placed, kept, changed) /\ KeepsRest /\ changed \in BOOLEAN
      /\ old[i].location = p
  BY DEF Deposit, CanDeposit, CanMove, AtLocation
<1> HIDE DEF moved
<1>2. /\ moved \in Ledgers /\ old[i] \in Entry
      /\ moved[i] = [item |-> old[i].item, location |-> g]
      /\ \A j \in Instances \ {i} : moved[j] = old[j]
  BY <1>0, <1>1, MoveTyped DEF moved
<1>3. moved[i] \in Entry /\ moved[i].location = g
  BY <1>0, <1>2 DEF Entry
<1> HIDE DEF placed
<1>4. /\ placed \in Ledgers
      /\ placed[i] = [item |-> tx.requested[i], location |-> g]
      /\ placed[i] # Unregistered
      /\ \A j \in Instances \ {i} : placed[j] = old[j]
  BY <1>0, <1>2, <1>3, ReplaceTyped DEF placed
<1>5. Held(placed, g)[i] = tx.requested[i]
  BY <1>0, <1>4, HeldAt
<1>6. \A j \in Instances \ {i}, place \in Locations :
        Held(placed, place)[j] = Held(old, place)[j]
  BY <1>4, HeldSame
<1>7. /\ \A place \in Locations \ {g} : Held(placed, place)[i] = NoItem
      /\ \A place \in Locations \ {p} : Held(old, place)[i] = NoItem
  BY <1>0, <1>1, <1>4, HeldAt
<1>8. /\ kept \in Inventories
      /\ kept[i] = NoItem
      /\ \A j \in Instances \ {i} : kept[j] = tx.inventory[j]
  BY <1>0 DEF Without, Inventories
<1>9. \A j \in Instances : kept[j] = Held(placed, p)[j]
  BY <1>0, <1>6, <1>7, <1>8
<1>noted. ChangeIsNoted'
  BY <1>1, ChangeStaysNoted
<1> HIDE DEF kept, changed
<1> QED
  BY <1>0, <1>1, <1>4, <1>5, <1>6, <1>7, <1>8, <1>9, StageKeeps,
     <1>noted DEF IInv, StagedAgrees

LEMMA WithdrawIntoKeeps ==
    ASSUME IInv, tx # NoTransaction, NEW i \in tx.leaving, NEW k \in Instances,
           WithdrawIntoStack(i, k)
    PROVE  IInv'
<1> DEFINE p == tx.player
           g == tx.guid
           old == tx.ledger
           n == old[i].item.count
           merged == Merge(tx.ledger, i, k, n)
           grown == AddedTo(tx.inventory, k, n)
           changed == TRUE
<1>0. /\ p \in Locations /\ g \in Locations /\ p # g
      /\ old \in Ledgers /\ tx.inventory \in Inventories
      /\ i \in Instances /\ tx.requested[i] = NoItem
      /\ Held(old, g)[i] = Previous(i)
      /\ \A j \in Instances : tx.inventory[j] = Held(old, p)[j]
  BY StagedFacts
<1>1. /\ CanMerge(old, i, g, k, p, Previous(i).count)
      /\ Done(i, Merge(old, i, k, Previous(i).count),
                 AddedTo(tx.inventory, k, Previous(i).count), changed)
      /\ KeepsRest /\ changed \in BOOLEAN
  BY DEF WithdrawIntoStack, CanWithdrawInto
<1>2. /\ old[i] \in Entry /\ old[i].location = g /\ old[i] # Unregistered
      /\ old[k] \in Entry /\ old[k].location = p /\ old[k] # Unregistered
      /\ i # k
  BY <1>0, <1>1 DEF CanMerge, AtLocation, Ledgers
<1>3. Previous(i) = old[i].item /\ tx.inventory[k] = old[k].item
  BY <1>0, <1>2, HeldAt
<1>4. /\ CanMerge(old, i, g, k, p, n)
      /\ Done(i, merged, grown, changed)
  BY <1>1, <1>3
<1> HIDE DEF merged
<1>5. /\ merged \in Ledgers
      /\ merged[k] = [item |-> WithCount(old[k].item, old[k].item.count + n),
                      location |-> p]
      /\ merged[k] # Unregistered
      /\ WithCount(old[k].item, old[k].item.count + n) \in Item
      /\ merged[i] = Unregistered
      /\ \A j \in Instances \ {i, k} : merged[j] = old[j]
  <2>1. /\ old \in Ledgers /\ i \in Instances /\ k \in Instances
        /\ CanMerge(old, i, g, k, p, old[i].item.count)
    BY <1>0, <1>4
  <2> HIDE DEF old, p, g
  <2> QED
    BY ONLY <2>1, MergeWholeTyped, SMTT(30) DEF merged, old
<1>6. Held(merged, g)[i] = tx.requested[i] /\ Held(merged, p)[i] = NoItem
  BY <1>0, <1>5, HeldAt
<1>7. \A j \in Instances \ {i, k}, place \in Locations :
        Held(merged, place)[j] = Held(old, place)[j]
  BY <1>5, HeldSame
<1>8. \A place \in Locations \ {g} :
        Held(merged, place)[i] = NoItem /\ Held(old, place)[i] = NoItem
  BY <1>0, <1>2, <1>5, HeldAt
<1>9. \A place \in Locations \ {p} :
        Held(merged, place)[k] = NoItem /\ Held(old, place)[k] = NoItem
  BY <1>2, <1>5, HeldAt
<1>10. /\ \A j \in Instances \ {i} : Held(merged, g)[j] = Held(old, g)[j]
       /\ \A place \in Locations \ {p, g}, j \in Instances :
            Held(merged, place)[j] = Held(old, place)[j]
  BY <1>0, <1>7, <1>8, <1>9
<1>12. /\ grown \in Inventories
       /\ grown[k] = WithCount(old[k].item, old[k].item.count + n)
       /\ \A j \in Instances \ {k} : grown[j] = tx.inventory[j]
  BY <1>0, <1>3, <1>5 DEF AddedTo, Inventories
<1>13. grown[k] = Held(merged, p)[k]
  BY <1>5, <1>12, HeldAt
<1>14. \A j \in Instances : grown[j] = Held(merged, p)[j]
  <2> TAKE j \in Instances
  <2>1. p \in Locations \ {g}
    BY <1>0
  <2> HIDE DEF grown, p, g, old
  <2>2. CASE j = k
    BY <1>13, <2>2
  <2>3. CASE j = i /\ j # k
    <3>1. Held(merged, p)[i] = NoItem /\ Held(old, p)[i] = NoItem
      BY <1>8, <2>1
    <3> QED
      BY <1>0, <1>12, <2>3, <3>1
  <2>4. CASE j \notin {i, k}
    <3>1. Held(merged, p)[j] = Held(old, p)[j]
      BY <1>7, <2>1, <2>4
    <3> QED
      BY <1>0, <1>12, <2>4, <3>1
  <2> QED
    BY <2>2, <2>3, <2>4
<1>noted. ChangeIsNoted'
  BY <1>1, <1>4, ChangeStaysNoted
<1> HIDE DEF grown, changed
<1> QED
  BY <1>0, <1>1, <1>4, <1>5, <1>6, <1>10, <1>12, <1>14, StageKeeps,
     <1>noted DEF IInv, StagedAgrees

LEMMA WithdrawWholeKeeps ==
    ASSUME IInv, tx # NoTransaction, NEW i \in tx.leaving, WithdrawWhole(i)
    PROVE  IInv'
<1> DEFINE p == tx.player
           g == tx.guid
           old == tx.ledger
           moved == Move(tx.ledger, i, p)
           grown == [tx.inventory EXCEPT ![i] = Previous(i)]
           changed == TRUE
<1>0. /\ p \in Locations /\ g \in Locations /\ p # g
      /\ old \in Ledgers /\ tx.inventory \in Inventories
      /\ i \in Instances /\ tx.requested[i] = NoItem
      /\ Held(old, g)[i] = Previous(i)
      /\ \A j \in Instances : tx.inventory[j] = Held(old, p)[j]
  BY StagedFacts
<1>1. /\ CanMove(old, i, g)
      /\ Done(i, moved, grown, changed) /\ KeepsRest /\ changed \in BOOLEAN
      /\ old[i] # Unregistered /\ old[i].location = g
  BY DEF WithdrawWhole, CanWithdrawWhole, CanMove, AtLocation
<1> HIDE DEF moved
<1>2. /\ moved \in Ledgers /\ old[i] \in Entry
      /\ moved[i] = [item |-> old[i].item, location |-> p]
      /\ moved[i] # Unregistered
      /\ \A j \in Instances \ {i} : moved[j] = old[j]
  BY <1>0, <1>1, MoveTyped DEF moved
<1>3. Previous(i) = old[i].item /\ old[i].item \in Item
  BY <1>0, <1>1, <1>2, HeldAt DEF Entry
<1>4. /\ Held(moved, g)[i] = tx.requested[i]
      /\ Held(moved, p)[i] = Previous(i)
  BY <1>0, <1>2, <1>3, HeldAt
<1>5. \A j \in Instances \ {i}, place \in Locations :
        Held(moved, place)[j] = Held(old, place)[j]
  BY <1>2, HeldSame
<1>6. \A place \in Locations \ {p, g} :
        Held(moved, place)[i] = NoItem /\ Held(old, place)[i] = NoItem
  BY <1>0, <1>1, <1>2, HeldAt
<1>7. /\ grown \in Inventories
      /\ grown[i] = Previous(i)
      /\ \A j \in Instances \ {i} : grown[j] = tx.inventory[j]
  BY <1>0, <1>3 DEF Inventories
<1>8. \A j \in Instances : grown[j] = Held(moved, p)[j]
  BY <1>0, <1>4, <1>5, <1>7
<1>noted. ChangeIsNoted'
  BY <1>1, ChangeStaysNoted
<1> HIDE DEF grown, changed
<1> QED
  BY <1>0, <1>1, <1>2, <1>4, <1>5, <1>6, <1>7, <1>8, StageKeeps,
     <1>noted DEF IInv, StagedAgrees

LEMMA RejectKeeps ==
    ASSUME IInv, RejectObjectUpdate
    PROVE  IInv'
BY DEF IInv, TypeOK, LedgerAgrees, StagedAgrees,
       StagedContents, ChangeIsNoted, RejectObjectUpdate, memory

\* The staged copies become the memory.
LEMMA CommitKeeps ==
    ASSUME IInv, CommitObjectUpdate
    PROVE  IInv'
<1> USE DEF IInv, TypeOK
<1>1. /\ tx # NoTransaction /\ tx.todo = {} /\ tx.leaving = {}
      /\ tx' = NoTransaction /\ up /\ up'
      /\ items' = tx.ledger
      /\ object' = [object EXCEPT ![tx.guid] =
                    [revision |-> object[tx.guid].revision + 1,
                     inventory |-> tx.requested]]
      /\ worldItem' = worldItem /\ file' = file /\ before' = items
  BY DEF CommitObjectUpdate, InObjectUpdate
<1>2. tx \in Transactions
  BY <1>1
<1>3. /\ tx.player \in Players /\ tx.guid \in Containers
      /\ tx.player \in Locations /\ tx.guid \in Locations
      /\ tx.player # tx.guid /\ tx.ledger \in Ledgers
      /\ tx.inventory \in Inventories /\ tx.requested \in Inventories
      /\ \A i \in Instances : tx.inventory[i] = Held(tx.ledger, tx.player)[i]
  BY <1>1, StagedFacts
<1>4. /\ \A i \in Instances : tx.requested[i] = Held(tx.ledger, tx.guid)[i]
      /\ \A other \in Locations \ {tx.player, tx.guid}, i \in Instances :
            Held(tx.ledger, other)[i] = Held(items, other)[i]
  BY <1>1 DEF StagedAgrees, StagedContents
<1>5. /\ tx.changed => profile' = [profile EXCEPT ![tx.player] =
                                 [revision |-> profile[tx.player].revision + 1,
                                  inventory |-> tx.inventory]]
      /\ ~tx.changed => profile' = profile
      /\ unsaved' \in Unsaved
  BY <1>3 DEF CommitObjectUpdate, Unsaved
<1>6. /\ profile' \in [Players -> ProfileRecord]
      /\ object' \in [Containers -> ObjectRecord]
  <2>1. tx.changed \in BOOLEAN
    BY <1>2 DEF Transactions
  <2>2. /\ profile[tx.player].revision \in Nat
        /\ object[tx.guid].revision \in Nat
    BY <1>3 DEF ProfileRecord, ObjectRecord
  <2> QED
    BY <1>1, <1>3, <1>5, <2>1, <2>2 DEF ProfileRecord, ObjectRecord
<1>7. TypeOK'
  BY <1>1, <1>3, <1>5, <1>6
<1>8. \A q \in Players, i \in Instances :
        profile'[q].inventory[i] = Held(items', q)[i]
  <2>1. CASE tx.changed
    <3>1. profile'[tx.player].inventory = tx.inventory
      BY <1>3, <1>5, <2>1
    <3>2. \A q \in Players \ {tx.player} :
            profile'[q] = profile[q] /\ q \in Locations /\ q # tx.guid
      BY <1>3, <1>5, <2>1, PlacesAreDistinct DEF Locations
    <3> QED
      BY <1>1, <1>3, <1>4, <3>1, <3>2 DEF LedgerAgrees
  <2>2. CASE ~tx.changed
    <3>1. profile[tx.player].inventory = tx.inventory
      BY <1>1, <2>2 DEF StagedAgrees, ChangeIsNoted
    <3>2. \A q \in Players \ {tx.player} : q \in Locations /\ q # tx.guid
      BY <1>3, PlacesAreDistinct DEF Locations
    <3> QED
      BY <1>1, <1>3, <1>4, <1>5, <2>2, <3>1, <3>2 DEF LedgerAgrees
  <2>3. tx.changed \in BOOLEAN
    BY <1>2 DEF Transactions
  <2> QED
    BY <2>1, <2>2, <2>3
<1>9. \A g \in Containers, i \in Instances :
        object'[g].inventory[i] = Held(items', g)[i]
  <2>1. object'[tx.guid].inventory = tx.requested
    BY <1>1, <1>3
  <2>2. \A g \in Containers \ {tx.guid} :
            object'[g] = object[g] /\ g \in Locations /\ g # tx.player
    BY <1>1, <1>3, PlacesAreDistinct DEF Locations
  <2> QED
    BY <1>1, <1>4, <2>1, <2>2 DEF LedgerAgrees
<1>10. ASSUME NEW i \in Instances
       PROVE  /\ worldItem'[i].present <=> AtLocation(items', i, World)
              /\ worldItem'[i].present => worldItem'[i].item = items'[i].item
  <2>1. World \in Locations \ {tx.player, tx.guid}
    BY <1>3, PlacesAreDistinct DEF Locations
  <2>2. Held(tx.ledger, World)[i] = Held(items, World)[i]
    BY <1>4, <2>1
  <2>3. /\ AtLocation(tx.ledger, i, World) <=> AtLocation(items, i, World)
        /\ AtLocation(items, i, World) => tx.ledger[i].item = items[i].item
    BY <1>3, <2>2, HeldTyped
  <2> QED
    BY <1>1, <2>3 DEF LedgerAgrees
<1>11. StagedAgrees' /\ LedgerAgrees'
  BY <1>1, <1>8, <1>9, <1>10 DEF StagedAgrees, StagedContents, ChangeIsNoted,
                                 LedgerAgrees
<1> QED
  BY <1>7, <1>11

---------------------------------------------------------------------------
(* The world-item handler.                                                 *)

\* What a world-item update has to achieve.
LEMMA WorldItemKeeps ==
    ASSUME IInv, up, tx = NoTransaction, NEW p \in Players, NEW i \in Instances,
           NEW ledger \in Ledgers, NEW inventory \in Inventories,
           items' = ledger, worldItem' \in [Instances -> WorldItemRecord],
           UNCHANGED <<object, file, tx, up>>, before' = items,
           unsaved' \in Unsaved,
           profile' \in [Players -> ProfileRecord],
           profile'[p].inventory = inventory,
           \A q \in Players \ {p} : profile'[q] = profile[q],
           \A j \in Instances : inventory[j] = Held(ledger, p)[j],
           \A place \in Locations \ {p, World}, j \in Instances :
                Held(ledger, place)[j] = Held(items, place)[j],
           \A j \in Instances \ {i} :
                /\ worldItem'[j] = worldItem[j]
                /\ Held(ledger, World)[j] = Held(items, World)[j],
           worldItem'[i].present <=> Held(ledger, World)[i] # NoItem,
           worldItem'[i].present => worldItem'[i].item = Held(ledger, World)[i]
    PROVE  IInv'
<1> USE DEF IInv, TypeOK
<1>1. TypeOK'
  OBVIOUS
<1>2. ASSUME NEW j \in Instances
      PROVE  /\ worldItem'[j].present <=> AtLocation(items', j, World)
             /\ worldItem'[j].present => worldItem'[j].item = items'[j].item
  <2>1. CASE j = i
    BY <2>1, HeldTyped
  <2>2. CASE j # i
    <3>1. /\ AtLocation(ledger, j, World) <=> AtLocation(items, j, World)
          /\ AtLocation(items, j, World) => ledger[j].item = items[j].item
      BY <2>2, HeldTyped
    <3> QED
      BY <2>2, <3>1 DEF LedgerAgrees
  <2> QED
    BY <2>1, <2>2
<1>0. /\ \A q \in Players \ {p} : q \in Locations \ {p, World}
      /\ \A g \in Containers : g \in Locations \ {p, World}
  BY PlacesAreDistinct DEF Locations
<1>3. \A q \in Players, j \in Instances :
        profile'[q].inventory[j] = Held(items', q)[j]
  BY <1>0 DEF LedgerAgrees
<1>4. \A g \in Containers, j \in Instances :
        object'[g].inventory[j] = Held(items', g)[j]
  BY <1>0 DEF LedgerAgrees
<1>5. LedgerAgrees'
  BY <1>2, <1>3, <1>4 DEF LedgerAgrees
<1>6. StagedAgrees'
  BY DEF StagedAgrees, StagedContents, ChangeIsNoted
<1> QED
  BY <1>1, <1>5, <1>6

\* What CommitWorldItem does to everything but the item's record.
LEMMA CommitWorldItemTyped ==
    ASSUME IInv, NEW p \in Players, NEW i \in Instances, NEW present,
           NEW item, NEW ledger, NEW inventory \in Inventories,
           AcceptsWorldItem(i),
           CommitWorldItem(p, i, present, item, ledger, inventory)
    PROVE  /\ up /\ tx = NoTransaction
           /\ items' = ledger /\ before' = items
           /\ UNCHANGED <<object, file, tx, up>>
           /\ unsaved' \in Unsaved
           /\ profile' \in [Players -> ProfileRecord]
           /\ profile'[p].inventory = inventory
           /\ \A q \in Players \ {p} : profile'[q] = profile[q]
           /\ \A j \in Instances \ {i} : worldItem'[j] = worldItem[j]
           /\ worldItem[i].revision + 1 \in Nat
<1> USE DEF IInv, TypeOK, CommitWorldItem
<1>1. /\ up /\ tx = NoTransaction
      /\ worldItem[i].revision + 1 \in Nat
      /\ profile[p].revision + 1 \in Nat
  BY DEF AcceptsWorldItem, Idle, WorldItemRecord, ProfileRecord
<1>2. unsaved' \in Unsaved
  BY DEF Unsaved
<1>3. CASE inventory = profile[p].inventory
  BY <1>1, <1>2, <1>3
<1>4. CASE inventory # profile[p].inventory
  <2>1. profile' = [profile EXCEPT ![p] = [revision |-> profile[p].revision + 1,
                                          inventory |-> inventory]]
    BY <1>4
  <2>2. /\ profile' \in [Players -> ProfileRecord]
        /\ profile'[p].inventory = inventory
        /\ \A q \in Players \ {p} : profile'[q] = profile[q]
    BY <2>1, <1>1 DEF ProfileRecord
  <2> QED
    BY <1>1, <1>2, <2>2
<1> QED
  BY <1>3, <1>4

LEMMA Appears ==
    ASSUME IInv, NEW p \in Players, NEW i \in Instances,
           NEW item \in Item, NEW ledger, NEW inventory \in Inventories,
           AcceptsWorldItem(i),
           CommitWorldItem(p, i, TRUE, item, ledger, inventory)
    PROVE  /\ worldItem' \in [Instances -> WorldItemRecord]
           /\ worldItem'[i].present
           /\ worldItem'[i].item = item
           /\ up /\ tx = NoTransaction
           /\ items' = ledger /\ before' = items
           /\ UNCHANGED <<object, file, tx, up>>
           /\ unsaved' \in Unsaved
           /\ profile' \in [Players -> ProfileRecord]
           /\ profile'[p].inventory = inventory
           /\ \A q \in Players \ {p} : profile'[q] = profile[q]
           /\ \A j \in Instances \ {i} : worldItem'[j] = worldItem[j]
<1>1. /\ worldItem[i].revision + 1 \in Nat
      /\ up /\ tx = NoTransaction
      /\ items' = ledger /\ before' = items
      /\ UNCHANGED <<object, file, tx, up>>
      /\ unsaved' \in Unsaved
      /\ profile' \in [Players -> ProfileRecord]
      /\ profile'[p].inventory = inventory
      /\ \A q \in Players \ {p} : profile'[q] = profile[q]
      /\ \A j \in Instances \ {i} : worldItem'[j] = worldItem[j]
  BY CommitWorldItemTyped
<1>2. worldItem' = [worldItem EXCEPT ![i] =
                    [revision |-> worldItem[i].revision + 1,
                     present |-> TRUE, item |-> item]]
  BY DEF CommitWorldItem
<1>3. worldItem \in [Instances -> WorldItemRecord]
  BY DEF IInv, TypeOK
<1>4. /\ worldItem' \in [Instances -> WorldItemRecord]
      /\ worldItem'[i] = [revision |-> worldItem[i].revision + 1,
                          present |-> TRUE, item |-> item]
  BY <1>1, <1>2, <1>3, NoItemIsNoItem DEF WorldItemRecord
<1> QED
  BY <1>1, <1>4

LEMMA Vanishes ==
    ASSUME IInv, NEW p \in Players, NEW i \in Instances,
           NEW ledger, NEW inventory \in Inventories,
           AcceptsWorldItem(i),
           CommitWorldItem(p, i, FALSE, NoItem, ledger, inventory)
    PROVE  /\ worldItem' \in [Instances -> WorldItemRecord]
           /\ ~worldItem'[i].present
           /\ up /\ tx = NoTransaction
           /\ items' = ledger /\ before' = items
           /\ UNCHANGED <<object, file, tx, up>>
           /\ unsaved' \in Unsaved
           /\ profile' \in [Players -> ProfileRecord]
           /\ profile'[p].inventory = inventory
           /\ \A q \in Players \ {p} : profile'[q] = profile[q]
           /\ \A j \in Instances \ {i} : worldItem'[j] = worldItem[j]
<1>1. /\ worldItem[i].revision + 1 \in Nat
      /\ up /\ tx = NoTransaction
      /\ items' = ledger /\ before' = items
      /\ UNCHANGED <<object, file, tx, up>>
      /\ unsaved' \in Unsaved
      /\ profile' \in [Players -> ProfileRecord]
      /\ profile'[p].inventory = inventory
      /\ \A q \in Players \ {p} : profile'[q] = profile[q]
      /\ \A j \in Instances \ {i} : worldItem'[j] = worldItem[j]
  BY CommitWorldItemTyped
<1>2. worldItem' = [worldItem EXCEPT ![i] =
                    [revision |-> worldItem[i].revision + 1,
                     present |-> FALSE, item |-> NoItem]]
  BY DEF CommitWorldItem
<1>3. worldItem \in [Instances -> WorldItemRecord]
  BY DEF IInv, TypeOK
<1>4. /\ worldItem' \in [Instances -> WorldItemRecord]
      /\ worldItem'[i] = [revision |-> worldItem[i].revision + 1,
                          present |-> FALSE, item |-> NoItem]
  BY <1>1, <1>2, <1>3, NoItemIsNoItem DEF WorldItemRecord
<1> QED
  BY <1>1, <1>4

\* Outside a container update, the profiles are what the ledger gives them.
LEMMA ProfileFacts ==
    ASSUME IInv, NEW p \in Players, up
    PROVE  /\ items \in Ledgers
           /\ profile[p].inventory \in Inventories
           /\ \A j \in Instances : profile[p].inventory[j] = Held(items, p)[j]
           /\ p \in Locations /\ World \in Locations /\ p # World
BY PlacesAreDistinct DEF IInv, TypeOK, LedgerAgrees, ProfileRecord, Locations

LEMMA DropWholeKeeps ==
    ASSUME IInv, NEW p \in Players, NEW i \in Instances, DropWhole(p, i)
    PROVE  IInv'
<1> DEFINE thing == items[i].item
           moved == Move(items, i, World)
           mine == profile[p].inventory
           left == Without(mine, {i})
<1>0. /\ AcceptsWorldItem(i) /\ up
      /\ CanMove(items, i, p)
      /\ items[i] # Unregistered /\ items[i].location = p
      /\ CommitWorldItem(p, i, TRUE, thing, moved, left)
  BY DEF DropWhole, CanMove, AtLocation, AcceptsWorldItem, Idle
<1>1. /\ items \in Ledgers
      /\ mine \in Inventories
      /\ \A j \in Instances : mine[j] = Held(items, p)[j]
      /\ p \in Locations /\ World \in Locations /\ p # World
  BY <1>0, ProfileFacts
<1>2. /\ thing \in Item
      /\ moved \in Ledgers
      /\ moved[i] = [item |-> thing, location |-> World]
      /\ moved[i] # Unregistered
      /\ \A j \in Instances \ {i} : moved[j] = items[j]
  BY <1>0, <1>1, MoveTyped DEF Entry
<1>3. /\ left \in Inventories
      /\ left[i] = NoItem
      /\ \A j \in Instances \ {i} : left[j] = mine[j]
  BY <1>1 DEF Without, Inventories
<1> HIDE DEF moved, left, mine, thing
<1>4. \A j \in Instances \ {i}, place \in Locations :
        Held(moved, place)[j] = Held(items, place)[j]
  BY <1>2, HeldSame
<1>5. /\ \A place \in Locations \ {p, World} :
            Held(moved, place)[i] = NoItem /\ Held(items, place)[i] = NoItem
      /\ Held(moved, p)[i] = NoItem
      /\ Held(moved, World)[i] = thing
  BY <1>0, <1>1, <1>2, HeldAt
<1>6. ASSUME NEW j \in Instances
      PROVE  left[j] = Held(moved, p)[j]
  <2>1. CASE j = i
    BY <2>1, <1>3, <1>5
  <2>2. CASE j # i
    BY <2>2, <1>1, <1>3, <1>4
  <2> QED
    BY <2>1, <2>2
<1>7. ASSUME NEW place \in Locations \ {p, World}, NEW j \in Instances
      PROVE  Held(moved, place)[j] = Held(items, place)[j]
  <2>1. CASE j = i
    BY <2>1, <1>5
  <2>2. CASE j # i
    BY <2>2, <1>4
  <2> QED
    BY <2>1, <2>2
<1>8. /\ worldItem' \in [Instances -> WorldItemRecord]
      /\ worldItem'[i].present /\ worldItem'[i].item = thing
      /\ items' = moved /\ before' = items
      /\ UNCHANGED <<object, file, tx, up>> /\ tx = NoTransaction
      /\ unsaved' \in Unsaved
      /\ profile' \in [Players -> ProfileRecord]
      /\ profile'[p].inventory = left
      /\ \A q \in Players \ {p} : profile'[q] = profile[q]
      /\ \A j \in Instances \ {i} : worldItem'[j] = worldItem[j]
  <2>1. /\ IInv /\ AcceptsWorldItem(i)
        /\ p \in Players /\ i \in Instances
        /\ thing \in Item /\ left \in Inventories
        /\ CommitWorldItem(p, i, TRUE, thing, moved, left)
    BY <1>0, <1>2, <1>3
  <2> QED
    BY ONLY <2>1, Appears
<1>9. thing # NoItem
  BY <1>2, NoItemIsNoItem
<1> QED
  BY <1>0, <1>1, <1>2, <1>3, <1>4, <1>5, <1>6, <1>7, <1>8, <1>9, WorldItemKeeps

LEMMA DropPartKeeps ==
    ASSUME IInv, NEW p \in Players, NEW s \in Instances, NEW i \in Instances,
           NEW n \in 1..MaxItemCount, DropPart(p, s, i, n)
    PROVE  IInv'
<1> DEFINE divided == Split(items, s, i, n, World)
           mine == profile[p].inventory
           left == TakenFrom(mine, s, n)
           part == WithCount(items[s].item, n)
<1>n. n \in Nat
  BY MaxItemCountIsPositive
<1>0. /\ AcceptsWorldItem(i) /\ up
      /\ CanSplit(items, s, p, i, n)
      /\ items[s] # Unregistered /\ items[s].location = p
      /\ items[i] = Unregistered
      /\ CommitWorldItem(p, i, TRUE, part, divided, left)
  BY DEF DropPart, CanSplit, AtLocation, AcceptsWorldItem, Idle
<1>1. /\ items \in Ledgers
      /\ mine \in Inventories
      /\ \A j \in Instances : mine[j] = Held(items, p)[j]
      /\ p \in Locations /\ World \in Locations /\ p # World
  BY <1>0, ProfileFacts
<1>2. /\ items[s] \in Entry /\ items[s].item \in Item
      /\ mine[s] = items[s].item
  BY <1>0, <1>1, HeldAt DEF Ledgers, Entry
<1>3. /\ divided \in Ledgers
      /\ s # i
      /\ items[s].item.count - n \in 1..MaxItemCount
      /\ divided[s] = [item |-> WithCount(items[s].item, items[s].item.count - n),
                       location |-> p]
      /\ divided[i] = [item |-> part, location |-> World]
      /\ divided[s] # Unregistered /\ divided[i] # Unregistered
      /\ \A j \in Instances \ {s, i} : divided[j] = items[j]
  BY <1>n, <1>0, <1>1, SplitTyped
<1>4. /\ part \in Item /\ part # NoItem
      /\ WithCount(items[s].item, items[s].item.count - n) \in Item
  BY <1>2, <1>3, WithCountTyped, NoItemIsNoItem
<1>5. items[s].item.count # n
  BY <1>2, <1>3 DEF Item
<1>6. /\ left \in Inventories
      /\ left[s] = WithCount(items[s].item, items[s].item.count - n)
      /\ \A j \in Instances \ {s} : left[j] = mine[j]
  BY <1>1, <1>2, <1>4, <1>5 DEF TakenFrom, Inventories
<1> HIDE DEF divided, left, part, mine
<1>7. \A j \in Instances \ {s, i}, place \in Locations :
        Held(divided, place)[j] = Held(items, place)[j]
  BY <1>3, HeldSame
<1>8. /\ \A place \in Locations \ {p} :
            Held(divided, place)[s] = NoItem /\ Held(items, place)[s] = NoItem
      /\ \A place \in Locations \ {World} : Held(divided, place)[i] = NoItem
      /\ \A place \in Locations : Held(items, place)[i] = NoItem
  BY <1>0, <1>3, HeldAt
<1>9. /\ Held(divided, p)[s] = left[s]
      /\ Held(divided, World)[i] = part
  BY <1>3, <1>6, HeldAt
<1>10. ASSUME NEW j \in Instances
       PROVE  left[j] = Held(divided, p)[j]
  <2>1. CASE j = s
    BY <2>1, <1>9
  <2>2. CASE j = i
    <3>1. Held(items, p)[i] = NoItem /\ Held(divided, p)[i] = NoItem
      BY <1>1, <1>8
    <3> QED
      BY <2>2, <3>1, <1>1, <1>3, <1>6
  <2>3. CASE j \notin {s, i}
    BY <2>3, <1>1, <1>6, <1>7
  <2> QED
    BY <2>1, <2>2, <2>3
<1>11. ASSUME NEW place \in Locations \ {p, World}, NEW j \in Instances
       PROVE  Held(divided, place)[j] = Held(items, place)[j]
  <2>1. CASE j \in {s, i}
    BY <2>1, <1>8
  <2>2. CASE j \notin {s, i}
    BY <2>2, <1>7
  <2> QED
    BY <2>1, <2>2
<1>12. \A j \in Instances \ {i} :
        Held(divided, World)[j] = Held(items, World)[j]
  BY <1>1, <1>7, <1>8
<1>13. /\ worldItem' \in [Instances -> WorldItemRecord]
       /\ worldItem'[i].present /\ worldItem'[i].item = part
       /\ items' = divided /\ before' = items
       /\ UNCHANGED <<object, file, tx, up>> /\ tx = NoTransaction
       /\ unsaved' \in Unsaved
       /\ profile' \in [Players -> ProfileRecord]
       /\ profile'[p].inventory = left
       /\ \A q \in Players \ {p} : profile'[q] = profile[q]
       /\ \A j \in Instances \ {i} : worldItem'[j] = worldItem[j]
  <2>1. /\ IInv /\ AcceptsWorldItem(i)
        /\ p \in Players /\ i \in Instances
        /\ part \in Item /\ left \in Inventories
        /\ CommitWorldItem(p, i, TRUE, part, divided, left)
    BY <1>0, <1>4, <1>6
  <2> QED
    BY ONLY <2>1, Appears
<1> QED
  <2>1. /\ divided \in Ledgers /\ left \in Inventories
        /\ up /\ Held(divided, World)[i] = part /\ part # NoItem
    BY <1>0, <1>3, <1>4, <1>6, <1>9
  <2> QED
    BY <2>1, <1>10, <1>11, <1>12, <1>13, WorldItemKeeps

LEMMA RepositionKeeps ==
    ASSUME IInv, NEW p \in Players, NEW i \in Instances, Reposition(p, i)
    PROVE  IInv'
<1> DEFINE thing == items[i].item
           mine == profile[p].inventory
<1>0. /\ AcceptsWorldItem(i) /\ up
      /\ items[i] # Unregistered /\ items[i].location = World
      /\ CommitWorldItem(p, i, TRUE, thing, items, mine)
  BY DEF Reposition, AtLocation, AcceptsWorldItem, Idle
<1>1. /\ items \in Ledgers
      /\ mine \in Inventories
      /\ \A j \in Instances : mine[j] = Held(items, p)[j]
      /\ p \in Locations /\ World \in Locations /\ p # World
  BY <1>0, ProfileFacts
<1>2. thing \in Item /\ thing # NoItem
  BY <1>0, <1>1, NoItemIsNoItem DEF Ledgers, Entry
<1>3. Held(items, World)[i] = thing
  BY <1>0, HeldAt
<1> HIDE DEF thing, mine
<1>4. /\ worldItem' \in [Instances -> WorldItemRecord]
      /\ worldItem'[i].present /\ worldItem'[i].item = thing
      /\ items' = items /\ before' = items
      /\ UNCHANGED <<object, file, tx, up>> /\ tx = NoTransaction
      /\ unsaved' \in Unsaved
      /\ profile' \in [Players -> ProfileRecord]
      /\ profile'[p].inventory = mine
      /\ \A q \in Players \ {p} : profile'[q] = profile[q]
      /\ \A j \in Instances \ {i} : worldItem'[j] = worldItem[j]
  <2>1. /\ IInv /\ AcceptsWorldItem(i)
        /\ p \in Players /\ i \in Instances
        /\ thing \in Item /\ mine \in Inventories
        /\ CommitWorldItem(p, i, TRUE, thing, items, mine)
    BY <1>0, <1>1, <1>2
  <2> QED
    BY ONLY <2>1, Appears
<1> QED
  BY <1>0, <1>1, <1>2, <1>3, <1>4, WorldItemKeeps

LEMMA PickUpKeeps ==
    ASSUME IInv, NEW p \in Players, NEW i \in Instances, PickUp(p, i)
    PROVE  IInv'
<1> DEFINE thing == items[i].item
           moved == Move(items, i, p)
           mine == profile[p].inventory
           grown == [mine EXCEPT ![i] = thing]
<1>0. /\ AcceptsWorldItem(i) /\ up
      /\ CanMove(items, i, World)
      /\ items[i] # Unregistered /\ items[i].location = World
      /\ CommitWorldItem(p, i, FALSE, NoItem, moved, grown)
  BY DEF PickUp, CanMove, AtLocation, AcceptsWorldItem, Idle
<1>1. /\ items \in Ledgers
      /\ mine \in Inventories
      /\ \A j \in Instances : mine[j] = Held(items, p)[j]
      /\ p \in Locations /\ World \in Locations /\ p # World
  BY <1>0, ProfileFacts
<1>2. /\ thing \in Item
      /\ moved \in Ledgers
      /\ moved[i] = [item |-> thing, location |-> p]
      /\ moved[i] # Unregistered
      /\ \A j \in Instances \ {i} : moved[j] = items[j]
  BY <1>0, <1>1, MoveTyped DEF Entry
<1>3. /\ grown \in Inventories
      /\ grown[i] = thing
      /\ \A j \in Instances \ {i} : grown[j] = mine[j]
  BY <1>1, <1>2 DEF Inventories
<1> HIDE DEF moved, grown, mine, thing
<1>4. \A j \in Instances \ {i}, place \in Locations :
        Held(moved, place)[j] = Held(items, place)[j]
  BY <1>2, HeldSame
<1>5. /\ \A place \in Locations \ {p, World} :
            Held(moved, place)[i] = NoItem /\ Held(items, place)[i] = NoItem
      /\ Held(moved, World)[i] = NoItem
      /\ Held(moved, p)[i] = thing
  BY <1>0, <1>1, <1>2, HeldAt
<1>6. ASSUME NEW j \in Instances
      PROVE  grown[j] = Held(moved, p)[j]
  <2>1. CASE j = i
    BY <2>1, <1>3, <1>5
  <2>2. CASE j # i
    BY <2>2, <1>1, <1>3, <1>4
  <2> QED
    BY <2>1, <2>2
<1>7. ASSUME NEW place \in Locations \ {p, World}, NEW j \in Instances
      PROVE  Held(moved, place)[j] = Held(items, place)[j]
  <2>1. CASE j = i
    BY <2>1, <1>5
  <2>2. CASE j # i
    BY <2>2, <1>4
  <2> QED
    BY <2>1, <2>2
<1>8. /\ worldItem' \in [Instances -> WorldItemRecord]
      /\ ~worldItem'[i].present
      /\ items' = moved /\ before' = items
      /\ UNCHANGED <<object, file, tx, up>> /\ tx = NoTransaction
      /\ unsaved' \in Unsaved
      /\ profile' \in [Players -> ProfileRecord]
      /\ profile'[p].inventory = grown
      /\ \A q \in Players \ {p} : profile'[q] = profile[q]
      /\ \A j \in Instances \ {i} : worldItem'[j] = worldItem[j]
  BY <1>0, <1>3, Vanishes
<1> QED
  BY <1>0, <1>1, <1>2, <1>3, <1>4, <1>5, <1>6, <1>7, <1>8, WorldItemKeeps

LEMMA PickUpAuthoredKeeps ==
    ASSUME IInv, NEW p \in Players, NEW i \in Instances, NEW item \in Item,
           PickUpAuthored(p, i, item)
    PROVE  IInv'
<1> DEFINE registered == Register(items, i, item, p)
           mine == profile[p].inventory
           grown == [mine EXCEPT ![i] = item]
<1>0. /\ AcceptsWorldItem(i) /\ up
      /\ items[i] = Unregistered
      /\ CommitWorldItem(p, i, FALSE, NoItem, registered, grown)
  BY DEF PickUpAuthored, CanRegister, AcceptsWorldItem, Idle
<1>1. /\ items \in Ledgers
      /\ mine \in Inventories
      /\ \A j \in Instances : mine[j] = Held(items, p)[j]
      /\ p \in Locations /\ World \in Locations /\ p # World
  BY <1>0, ProfileFacts
<1>2. /\ registered \in Ledgers
      /\ registered[i] = [item |-> item, location |-> p]
      /\ registered[i] # Unregistered
      /\ \A j \in Instances \ {i} : registered[j] = items[j]
  BY <1>0, <1>1, RegisterTyped
<1>3. /\ grown \in Inventories
      /\ grown[i] = item
      /\ \A j \in Instances \ {i} : grown[j] = mine[j]
  BY <1>1 DEF Inventories
<1> HIDE DEF registered, grown, mine
<1>4. \A j \in Instances \ {i}, place \in Locations :
        Held(registered, place)[j] = Held(items, place)[j]
  BY <1>2, HeldSame
<1>5. /\ \A place \in Locations \ {p, World} :
            Held(registered, place)[i] = NoItem /\ Held(items, place)[i] = NoItem
      /\ Held(registered, World)[i] = NoItem
      /\ Held(registered, p)[i] = item
  BY <1>0, <1>1, <1>2, HeldAt
<1>6. ASSUME NEW j \in Instances
      PROVE  grown[j] = Held(registered, p)[j]
  <2>1. CASE j = i
    BY <2>1, <1>3, <1>5
  <2>2. CASE j # i
    BY <2>2, <1>1, <1>3, <1>4
  <2> QED
    BY <2>1, <2>2
<1>7. ASSUME NEW place \in Locations \ {p, World}, NEW j \in Instances
      PROVE  Held(registered, place)[j] = Held(items, place)[j]
  <2>1. CASE j = i
    BY <2>1, <1>5
  <2>2. CASE j # i
    BY <2>2, <1>4
  <2> QED
    BY <2>1, <2>2
<1>8. /\ worldItem' \in [Instances -> WorldItemRecord]
      /\ ~worldItem'[i].present
      /\ items' = registered /\ before' = items
      /\ UNCHANGED <<object, file, tx, up>> /\ tx = NoTransaction
      /\ unsaved' \in Unsaved
      /\ profile' \in [Players -> ProfileRecord]
      /\ profile'[p].inventory = grown
      /\ \A q \in Players \ {p} : profile'[q] = profile[q]
      /\ \A j \in Instances \ {i} : worldItem'[j] = worldItem[j]
  BY <1>0, <1>3, Vanishes
<1> QED
  BY <1>0, <1>1, <1>2, <1>3, <1>4, <1>5, <1>6, <1>7, <1>8, WorldItemKeeps

LEMMA RetireKeeps ==
    ASSUME IInv, NEW p \in Players, NEW i \in Instances, Retire(p, i)
    PROVE  IInv'
<1> DEFINE mine == profile[p].inventory
<1>0. /\ AcceptsWorldItem(i) /\ up
      /\ ~worldItem[i].present
      /\ CommitWorldItem(p, i, FALSE, NoItem, items, mine)
  BY DEF Retire, AcceptsWorldItem, Idle
<1>1. /\ items \in Ledgers
      /\ mine \in Inventories
      /\ \A j \in Instances : mine[j] = Held(items, p)[j]
      /\ p \in Locations /\ World \in Locations /\ p # World
  BY <1>0, ProfileFacts
<1>2. Held(items, World)[i] = NoItem
  BY <1>0, <1>1, HeldTyped DEF IInv, LedgerAgrees
<1>3. /\ worldItem' \in [Instances -> WorldItemRecord]
      /\ ~worldItem'[i].present
      /\ items' = items /\ before' = items
      /\ UNCHANGED <<object, file, tx, up>> /\ tx = NoTransaction
      /\ unsaved' \in Unsaved
      /\ profile' \in [Players -> ProfileRecord]
      /\ profile'[p].inventory = mine
      /\ \A q \in Players \ {p} : profile'[q] = profile[q]
      /\ \A j \in Instances \ {i} : worldItem'[j] = worldItem[j]
  BY <1>0, <1>1, Vanishes
<1> QED
  BY <1>0, <1>1, <1>2, <1>3, WorldItemKeeps

---------------------------------------------------------------------------
(* Files, crashes and restarts.                                            *)

LEMMA WritesKeep ==
    ASSUME IInv, (\E p \in Players : WriteProfile(p)) \/ WriteObjects \/ WriteItems
    PROVE  IInv'
<1> USE DEF IInv, TypeOK
<1>1. /\ UNCHANGED <<profile, object, worldItem, items, tx, up>>
      /\ before' \in Ledgers
  BY DEF WriteProfile, WriteObjects, WriteItems, memory
<1>2. file' \in Files /\ unsaved' \in Unsaved
  <2>1. CASE \E p \in Players : WriteProfile(p)
    BY <2>1 DEF WriteProfile, Files, Unsaved
  <2>2. CASE WriteObjects
    BY <2>2 DEF WriteObjects, Files, Unsaved
  <2>3. CASE WriteItems
    BY <2>3 DEF WriteItems, Files, Unsaved
  <2> QED
    BY <2>1, <2>2, <2>3
<1>3. LedgerAgrees' /\ StagedAgrees'
  BY <1>1 DEF LedgerAgrees, StagedAgrees, StagedContents, ChangeIsNoted, Previous
<1> QED
  BY <1>1, <1>2, <1>3

LEMMA CrashKeeps ==
    ASSUME IInv, Crash
    PROVE  IInv'
BY DEF IInv, TypeOK, LedgerAgrees, StagedAgrees, StagedContents, ChangeIsNoted,
       Crash, Unsaved, NothingUnsaved, memory

\* What the constructor registers from loadable files.
LEMMA RecoveredTyped ==
    ASSUME NEW f \in Files, Loadable(f)
    PROVE  /\ ProfileLedger(f) \in Ledgers
           /\ RecoveredLedger(f) \in Ledgers
           /\ \A i \in Instances :
                /\ \A p \in Players :
                    f.profiles[p].inventory[i] = Held(RecoveredLedger(f), p)[i]
                /\ \A g \in Containers :
                    RecoveredObjects(f)[g].inventory[i] =
                        Held(RecoveredLedger(f), g)[i]
                /\ RecoveredItems(f)[i].present <=>
                        AtLocation(RecoveredLedger(f), i, World)
                /\ RecoveredItems(f)[i].present =>
                        RecoveredItems(f)[i].item = RecoveredLedger(f)[i].item
<1> DEFINE owned == ProfileLedger(f)
           ledger == RecoveredLedger(f)
<1>1. /\ f.profiles \in [Players -> ProfileRecord]
      /\ f.objects \in [Containers -> ObjectRecord]
      /\ f.items \in [Instances -> WorldItemRecord]
  BY DEF Files
<1>2. /\ \A i \in Instances, p \in Players :
            f.profiles[p].inventory[i] \in Item \cup {NoItem}
      /\ \A i \in Instances, g \in Containers :
            f.objects[g].inventory[i] \in Item \cup {NoItem}
      /\ \A i \in Instances : /\ f.items[i].present => f.items[i].item \in Item
                              /\ f.items[i].present \in BOOLEAN
  BY <1>1 DEF ProfileRecord, ObjectRecord, WorldItemRecord, Inventories
<1>3. ASSUME NEW i \in Instances, NEW p \in Players,
             f.profiles[p].inventory[i] # NoItem
      PROVE  /\ owned[i] = [item |-> f.profiles[p].inventory[i], location |-> p]
             /\ owned[i] \in Entry
  <2>1. \A q \in Players : f.profiles[q].inventory[i] # NoItem => q = p
    BY <1>3 DEF Loadable
  <2>2. (CHOOSE q \in Players : f.profiles[q].inventory[i] # NoItem) = p
    BY <1>3, <2>1
  <2>3. owned[i] = [item |-> f.profiles[p].inventory[i], location |-> p]
    BY <1>3, <2>2 DEF ProfileLedger
  <2> QED
    BY <2>3, <1>2, <1>3 DEF Entry, Locations
<1>4. ASSUME NEW i \in Instances,
             \A p \in Players : f.profiles[p].inventory[i] = NoItem
      PROVE  owned[i] = Unregistered
  BY <1>4 DEF ProfileLedger
<1>5. owned \in Ledgers
  <2>1. ASSUME NEW i \in Instances PROVE owned[i] \in Entry \cup {Unregistered}
    BY <1>3, <1>4
  <2> QED
    BY <2>1 DEF ProfileLedger, Ledgers
<1>6. /\ RecoveredObjects(f) \in [Containers -> ObjectRecord]
      /\ \A g \in Containers, i \in Instances :
            RecoveredObjects(f)[g].inventory[i] =
                IF HeldByPlayer(owned, i) THEN NoItem
                ELSE f.objects[g].inventory[i]
  BY <1>1, <1>5, StripOwnedTyped DEF RecoveredObjects
<1>7. \A i \in Instances :
        /\ RecoveredItems(f)[i].present <=>
                f.items[i].present /\ ~HeldByPlayer(owned, i)
        /\ RecoveredItems(f)[i].present =>
                RecoveredItems(f)[i].item = f.items[i].item
  BY <1>1, <1>5, RetireOwnedTyped DEF RecoveredItems
<1>8. ASSUME NEW i \in Instances
      PROVE  /\ ledger[i] \in Entry \cup {Unregistered}
             /\ \A p \in Players :
                    f.profiles[p].inventory[i] = Held(ledger, p)[i]
             /\ \A g \in Containers :
                    RecoveredObjects(f)[g].inventory[i] = Held(ledger, g)[i]
             /\ RecoveredItems(f)[i].present <=> AtLocation(ledger, i, World)
             /\ RecoveredItems(f)[i].present =>
                    RecoveredItems(f)[i].item = ledger[i].item
  <2>1. CASE \E p \in Players : f.profiles[p].inventory[i] # NoItem
    <3>1. PICK p \in Players : f.profiles[p].inventory[i] # NoItem
      BY <2>1
    <3>2. /\ owned[i] = [item |-> f.profiles[p].inventory[i], location |-> p]
          /\ owned[i] \in Entry /\ owned[i] # Unregistered
      BY <3>1, <1>3, UnregisteredIsNoEntry
    <3>3. ledger[i] = owned[i]
      BY <3>2 DEF RecoveredLedger
    <3>4. HeldByPlayer(owned, i)
      BY <3>2 DEF HeldByPlayer, AtLocation
    <3>5. \A q \in Players : q # p => f.profiles[q].inventory[i] = NoItem
      BY <3>1 DEF Loadable
    <3>6. \A q \in Players : f.profiles[q].inventory[i] = Held(ledger, q)[i]
      BY <3>2, <3>3, <3>5, HeldAt
    <3>7. \A g \in Containers : Held(ledger, g)[i] = NoItem
      BY <3>2, <3>3, PlacesAreDistinct, HeldAt
    <3>8. ~AtLocation(ledger, i, World)
      BY <3>2, <3>3, PlacesAreDistinct DEF AtLocation
    <3> QED
      BY <3>2, <3>3, <3>4, <3>6, <3>7, <3>8, <1>6, <1>7
  <2>2. CASE /\ \A p \in Players : f.profiles[p].inventory[i] = NoItem
             /\ \E g \in Containers : f.objects[g].inventory[i] # NoItem
    <3>1. owned[i] = Unregistered /\ ~HeldByPlayer(owned, i)
      BY <2>2, <1>4 DEF HeldByPlayer, AtLocation
    <3>2. PICK g \in Containers : f.objects[g].inventory[i] # NoItem
      BY <2>2
    <3>3. \A h \in Containers : f.objects[h].inventory[i] # NoItem => h = g
      BY <3>1, <3>2, <1>6 DEF Loadable
    <3>4. (CHOOSE h \in Containers : f.objects[h].inventory[i] # NoItem) = g
      BY <3>2, <3>3
    <3>5. ledger[i] = [item |-> f.objects[g].inventory[i], location |-> g]
      BY <2>2, <3>1, <3>4 DEF RecoveredLedger
    <3>6. ledger[i] \in Entry /\ ledger[i] # Unregistered
      BY <3>2, <3>5, <1>2, UnregisteredIsNoEntry DEF Entry, Locations
    <3>7. \A p \in Players : Held(ledger, p)[i] = NoItem
      BY <3>5, PlacesAreDistinct, HeldAt
    <3>8. \A h \in Containers : f.objects[h].inventory[i] = Held(ledger, h)[i]
      BY <3>3, <3>5, <3>6, HeldAt
    <3>9. ~RecoveredItems(f)[i].present /\ ~AtLocation(ledger, i, World)
      BY <3>1, <3>2, <3>5, <1>6, PlacesAreDistinct DEF Loadable, AtLocation
    <3> QED
      BY <2>2, <3>1, <3>6, <3>7, <3>8, <3>9, <1>6
  <2>3. CASE /\ \A p \in Players : f.profiles[p].inventory[i] = NoItem
             /\ \A g \in Containers : f.objects[g].inventory[i] = NoItem
    <3>1. owned[i] = Unregistered /\ ~HeldByPlayer(owned, i)
      BY <2>3, <1>4 DEF HeldByPlayer, AtLocation
    <3>2. ledger[i] = IF f.items[i].present
                      THEN [item |-> f.items[i].item, location |-> World]
                      ELSE Unregistered
      BY <2>3, <3>1 DEF RecoveredLedger
    <3>3. f.items[i].present => ledger[i] \in Entry /\ ledger[i] # Unregistered
      BY <3>2, <1>2, UnregisteredIsNoEntry DEF Entry, Locations
    <3>4. AtLocation(ledger, i, World) <=> f.items[i].present
      BY <3>2, <3>3, <1>2 DEF AtLocation
    <3>5. /\ \A p \in Players : Held(ledger, p)[i] = NoItem
          /\ \A g \in Containers : Held(ledger, g)[i] = NoItem
      BY <3>2, PlacesAreDistinct, HeldAt
    <3> QED
      BY <2>3, <3>1, <3>2, <3>3, <3>4, <3>5, <1>2, <1>6, <1>7
  <2> QED
    BY <2>1, <2>2, <2>3
<1>9. ledger \in Ledgers
  BY <1>8 DEF RecoveredLedger, Ledgers
<1> QED
  BY <1>5, <1>8, <1>9

LEMMA RestartKeeps ==
    ASSUME IInv, Restart
    PROVE  IInv'
<1> USE DEF IInv, TypeOK
<1>1. /\ file \in Files /\ Loadable(file)
      /\ profile' = file.profiles
      /\ object' = RecoveredObjects(file)
      /\ worldItem' = RecoveredItems(file)
      /\ items' = RecoveredLedger(file)
      /\ before' = items' /\ file' = file /\ up' /\ up' \in BOOLEAN
      /\ unsaved' \in Unsaved
      /\ tx' = tx /\ ~up
  BY DEF Restart, Unsaved
<1>2. /\ file.profiles \in [Players -> ProfileRecord]
      /\ file.objects \in [Containers -> ObjectRecord]
      /\ file.items \in [Instances -> WorldItemRecord]
      /\ ProfileLedger(file) \in Ledgers
  BY <1>1, RecoveredTyped DEF Files
<1>3. TypeOK'
  BY <1>1, <1>2, RecoveredTyped, StripOwnedTyped, RetireOwnedTyped
  DEF RecoveredObjects, RecoveredItems
<1>4. LedgerAgrees'
  BY <1>1, RecoveredTyped DEF LedgerAgrees
<1>5. tx' = NoTransaction
  BY <1>1 DEF StagedAgrees, StagedContents
<1>6. StagedAgrees'
  BY <1>5 DEF StagedAgrees, StagedContents, ChangeIsNoted
<1> QED
  BY <1>3, <1>4, <1>6

---------------------------------------------------------------------------
(* The theorems.                                                           *)

LEMMA StutterKeeps ==
    ASSUME IInv, UNCHANGED vars
    PROVE  IInv'
BY DEF IInv, TypeOK, LedgerAgrees, StagedAgrees, StagedContents, ChangeIsNoted,
       Previous, vars

LEMMA NextKeeps ==
    ASSUME IInv, Next
    PROVE  IInv'
<1>1. CASE ProfileUpdates
  BY <1>1, ProfileUpdateKeeps DEF ProfileUpdates
<1>2. CASE ObjectUpdates
  <2>1. ASSUME NEW p \in Players, NEW g \in Containers,
               NEW requested \in Inventories, BeginObjectUpdate(p, g, requested)
        PROVE  IInv'
    BY <2>1, BeginKeeps
  <2>2. CASE TakeItem
    <3>1. PICK i \in tx.todo :
            \/ \E s \in Instances : GrowContainerStack(i, s) \/ SplitIntoContainer(i, s)
            \/ RegisterContents(i)
            \/ Deposit(i)
      BY <2>2 DEF TakeItem
    <3>2. tx # NoTransaction
      BY <2>2 DEF TakeItem, InObjectUpdate
    <3> QED
      BY <3>1, <3>2, GrowKeeps, SplitIntoKeeps, RegisterContentsKeeps, DepositKeeps
  <2>3. CASE WithdrawItem
    <3>1. PICK i \in tx.leaving :
            \/ \E s \in Instances : WithdrawIntoStack(i, s)
            \/ WithdrawWhole(i)
      BY <2>3 DEF WithdrawItem
    <3>2. tx # NoTransaction
      BY <2>3 DEF WithdrawItem, InObjectUpdate
    <3> QED
      BY <3>1, <3>2, WithdrawIntoKeeps, WithdrawWholeKeeps
  <2>4. CASE RejectObjectUpdate
    BY <2>4, RejectKeeps
  <2>5. CASE CommitObjectUpdate
    BY <2>5, CommitKeeps
  <2> QED
    BY <1>2, <2>1, <2>2, <2>3, <2>4, <2>5 DEF ObjectUpdates
<1>3. CASE WorldItemUpdates
  BY <1>3, DropWholeKeeps, DropPartKeeps, RepositionKeeps, PickUpKeeps,
     PickUpAuthoredKeeps, RetireKeeps DEF WorldItemUpdates
<1>4. CASE Persistence
  BY <1>4, WritesKeep, CrashKeeps, RestartKeeps DEF Persistence
<1> QED
  BY <1>1, <1>2, <1>3, <1>4 DEF Next

LEMMA Invariance == Spec => []IInv
<1>1. IInv /\ [Next]_vars => IInv'
  BY NextKeeps, StutterKeeps
<1> QED
  BY <1>1, InitEstablishes, PTL DEF Spec

\* Every variable has its type in every reachable state: counts stay between
\* 1 and max_profile_item_count whatever merges, splits and transfers run, and
\* only a present world item has an item.
THEOREM TypeCorrect == Spec => []TypeOK
<1>1. IInv => TypeOK
  BY DEF IInv
<1> QED
  BY <1>1, Invariance, PTL

\* Every live instance has exactly one owner: profiles, containers and world
\* items list it where the ledger says, with the same values, whichever
\* handlers, crashes and restarts came before.
THEOREM OwnersAgree == Spec => []LedgerAgrees
<1>1. IInv => LedgerAgrees
  BY DEF IInv
<1> QED
  BY <1>1, Invariance, PTL

\* A running container update stages exactly the transfer its message asks
\* for: other players, other containers and the world keep what they have, and
\* the staged profile is what the staged ledger gives the player.
THEOREM TransfersAreExact == Spec => []StagedAgrees
<1>1. IInv => StagedAgrees
  BY DEF IInv
<1> QED
  BY <1>1, Invariance, PTL

---------------------------------------------------------------------------
(* The files.  A file holds what the memory holds, unless the handler has  *)
(* still to write it; then it holds what the memory held before.           *)

\* No instance is in two profiles of f, in two containers, or in a container
\* and the world.  An instance may be in a profile and a container: the
\* constructor takes it out of the container.
Apart(f) ==
    /\ \A i \in Instances, p, q \in Players :
        /\ f.profiles[p].inventory[i] # NoItem
        /\ f.profiles[q].inventory[i] # NoItem
        => p = q
    /\ \A i \in Instances, g, h \in Containers :
        /\ f.objects[g].inventory[i] # NoItem
        /\ f.objects[h].inventory[i] # NoItem
        => g = h
    /\ \A i \in Instances, g \in Containers :
        f.objects[g].inventory[i] # NoItem => ~f.items[i].present

\* What the memory adds to the files that are not yet written.  The containers
\* are written while the old world items are in their file, and what a handler
\* puts into a container is in neither.
FilesFollow ==
    /\ \A p, q \in unsaved.profiles : p = q
    /\ \A p \in Players : p \notin unsaved.profiles => file.profiles[p] = profile[p]
    /\ ~unsaved.objects => file.objects = object
    /\ ~unsaved.items => file.items = worldItem
    /\ \A i \in Instances, g \in Containers :
        object[g].inventory[i] # NoItem => ~file.items[i].present
    /\ tx # NoTransaction => unsaved = NothingUnsaved

FileInv == Apart(file) /\ (up => FilesFollow)

LEMMA ApartIsLoadable ==
    ASSUME NEW f \in Files, Apart(f)
    PROVE  Loadable(f)
<1> DEFINE owned == ProfileLedger(f)
<1>1. /\ f.profiles \in [Players -> ProfileRecord]
      /\ f.objects \in [Containers -> ObjectRecord]
      /\ f.items \in [Instances -> WorldItemRecord]
  BY DEF Files
<1>2. ASSUME NEW i \in Instances
      PROVE  /\ owned[i] \in Entry \cup {Unregistered}
             /\ owned[i] = Unregistered \/ HeldByPlayer(owned, i)
  <2>1. CASE \E p \in Players : f.profiles[p].inventory[i] # NoItem
    <3>1. PICK p \in Players :
            /\ p = CHOOSE q \in Players : f.profiles[q].inventory[i] # NoItem
            /\ f.profiles[p].inventory[i] # NoItem
      BY <2>1
    <3>2. owned[i] = [item |-> f.profiles[p].inventory[i], location |-> p]
      BY <2>1, <3>1 DEF ProfileLedger
    <3>3. f.profiles[p].inventory[i] \in Item
      BY <1>1, <3>1 DEF ProfileRecord, Inventories
    <3>4. owned[i] \in Entry
      BY <3>2, <3>3 DEF Entry, Locations
    <3> QED
      BY <3>2, <3>4, UnregisteredIsNoEntry DEF HeldByPlayer, AtLocation
  <2>2. CASE ~ \E p \in Players : f.profiles[p].inventory[i] # NoItem
    BY <2>2 DEF ProfileLedger
  <2> QED
    BY <2>1, <2>2
<1>3. owned \in Ledgers
  BY <1>2 DEF ProfileLedger, Ledgers
<1>4. \A g \in Containers, i \in Instances :
        RecoveredObjects(f)[g].inventory[i] # NoItem =>
            /\ ~HeldByPlayer(owned, i)
            /\ f.objects[g].inventory[i] # NoItem
  BY <1>1, <1>3, StripOwnedTyped DEF RecoveredObjects
<1>5. \A i \in Instances :
        RecoveredItems(f)[i].present =>
            ~HeldByPlayer(owned, i) /\ f.items[i].present
  BY <1>1, <1>3, RetireOwnedTyped DEF RecoveredItems
<1> HIDE DEF owned
<1>6. \A i \in Instances, p, q \in Players :
        /\ f.profiles[p].inventory[i] # NoItem
        /\ f.profiles[q].inventory[i] # NoItem
        => p = q
  BY DEF Apart
<1>7. ASSUME NEW i \in Instances, NEW g \in Containers, NEW h \in Containers,
             RecoveredObjects(f)[g].inventory[i] # NoItem
      PROVE  /\ owned[i] = Unregistered
             /\ ~RecoveredItems(f)[i].present
             /\ RecoveredObjects(f)[h].inventory[i] # NoItem => g = h
  BY <1>2, <1>4, <1>5, <1>7 DEF Apart
<1>8. \A i \in Instances : RecoveredItems(f)[i].present => owned[i] = Unregistered
  BY <1>2, <1>5
<1> QED
  BY <1>6, <1>7, <1>8 DEF Loadable, owned

\* The memory is as its files have to be, for every item has one location.
LEMMA MemoryApart ==
    ASSUME IInv, up
    PROVE  /\ \A i \in Instances, p, q \in Players :
                /\ profile[p].inventory[i] # NoItem
                /\ profile[q].inventory[i] # NoItem
                => p = q
           /\ \A i \in Instances, g, h \in Containers :
                /\ object[g].inventory[i] # NoItem
                /\ object[h].inventory[i] # NoItem
                => g = h
           /\ \A i \in Instances, g \in Containers :
                object[g].inventory[i] # NoItem => ~worldItem[i].present
<1>1. \A i \in Instances :
        /\ \A p \in Players : profile[p].inventory[i] # NoItem => items[i].location = p
        /\ \A g \in Containers : object[g].inventory[i] # NoItem => items[i].location = g
        /\ worldItem[i].present => items[i].location = World
  BY DEF IInv, LedgerAgrees, Held, AtLocation
<1> QED
  BY <1>1, PlacesAreDistinct

LEMMA StartsFiled == Init => FileInv
<1> SUFFICES ASSUME Init PROVE FileInv
  OBVIOUS
<1>1. IInv /\ up
  BY InitEstablishes DEF Init
<1>2. /\ file.profiles = profile /\ file.objects = object /\ file.items = worldItem
      /\ unsaved.profiles = {} /\ tx = NoTransaction
  BY DEF Init, NothingUnsaved
<1> QED
  BY <1>1, <1>2, MemoryApart DEF FileInv, Apart, FilesFollow

\* A handler is through: it has changed at most one profile, and nothing is
\* both new in a container and present in the world's file.
LEMMA HandlerFiles ==
    ASSUME IInv, FileInv, IInv', Idle, UNCHANGED <<file, up>>, tx' = NoTransaction,
           NEW p \in Players, unsaved'.profiles \subseteq {p},
           \A q \in Players : q \notin unsaved'.profiles => profile'[q] = profile[q],
           ~unsaved'.objects => object' = object,
           ~unsaved'.items => worldItem' = worldItem,
           \/ worldItem' = worldItem
           \/ \A i \in Instances, g \in Containers :
                object'[g].inventory[i] # NoItem => object[g].inventory[i] # NoItem
    PROVE  FileInv'
<1>1. up /\ up' /\ file' = file /\ Apart(file) /\ FilesFollow
  BY DEF FileInv, Idle
<1>2. /\ \A q \in Players : file.profiles[q] = profile[q]
      /\ file.objects = object /\ file.items = worldItem
  BY <1>1 DEF FilesFollow, Idle, NothingUnsaved
<1>3. /\ \A i \in Instances, g \in Containers :
            object[g].inventory[i] # NoItem => ~worldItem[i].present
      /\ \A i \in Instances, g \in Containers :
            object'[g].inventory[i] # NoItem => ~worldItem'[i].present
  <2>1. \A i \in Instances :
        /\ \A g \in Containers : object'[g].inventory[i] # NoItem => items'[i].location = g
        /\ worldItem'[i].present => items'[i].location = World
    BY <1>1 DEF IInv, LedgerAgrees, Held, AtLocation
  <2> QED
    BY <1>1, <2>1, MemoryApart, PlacesAreDistinct
<1>4. \A i \in Instances, g \in Containers :
        object'[g].inventory[i] # NoItem => ~file'.items[i].present
  BY <1>1, <1>2, <1>3
<1>5. FilesFollow'
  BY <1>1, <1>2, <1>4 DEF FilesFollow
<1> QED
  BY <1>1, <1>5 DEF FileInv, Apart

LEMMA UpdateFiles ==
    ASSUME IInv, FileInv, IInv', ProfileUpdates
    PROVE  FileInv'
<1>1. PICK p \in Players, accepted \in Inventories : HandleProfileUpdate(p, accepted)
  BY DEF ProfileUpdates
<1> DEFINE ledger == SettledLedger(p, items, accepted)
<1>2. /\ Idle /\ UNCHANGED <<file, up>> /\ tx' = NoTransaction
      /\ object' = StripOwned(object, ledger)
      /\ unsaved'.profiles = {p}
      /\ unsaved'.objects = (object' # object) /\ unsaved'.items = (worldItem' # worldItem)
      /\ \A q \in Players : q # p => profile'[q] = profile[q]
  BY <1>1 DEF HandleProfileUpdate, Idle, IInv, TypeOK
<1>3. /\ object \in [Containers -> ObjectRecord] /\ ledger \in Ledgers
  BY <1>1, SettledLedgerTyped DEF IInv, TypeOK, HandleProfileUpdate
<1>4. \A i \in Instances, g \in Containers :
        object'[g].inventory[i] # NoItem => object[g].inventory[i] # NoItem
  BY <1>2, <1>3, StripOwnedTyped
<1> HIDE DEF ledger
<1> QED
  BY <1>2, <1>4, HandlerFiles

LEMMA ObjectUpdateFiles ==
    ASSUME IInv, FileInv, IInv', ObjectUpdates
    PROVE  FileInv'
<1>1. CASE CommitObjectUpdate
  <2>1. /\ up /\ tx # NoTransaction /\ tx \in Transactions
        /\ UNCHANGED <<worldItem, file, up>> /\ tx' = NoTransaction
        /\ unsaved' = [profiles |-> IF tx.changed THEN {tx.player} ELSE {},
                       objects |-> TRUE, items |-> FALSE]
        /\ \A q \in Players : q # tx.player \/ ~tx.changed => profile'[q] = profile[q]
        /\ tx.player \in Players
    BY <1>1 DEF CommitObjectUpdate, InObjectUpdate, IInv, TypeOK, Transactions
  <2>2. unsaved = NothingUnsaved /\ FilesFollow /\ Apart(file)
    BY <2>1 DEF FileInv, FilesFollow
  <2>3. /\ \A q \in Players : file.profiles[q] = profile[q]
        /\ file.items = worldItem
    BY <2>2 DEF FilesFollow, NothingUnsaved
  <2>4. \A i \in Instances, g \in Containers :
          object'[g].inventory[i] # NoItem => ~worldItem'[i].present
    <3>1. \A i \in Instances :
          /\ \A g \in Containers :
                object'[g].inventory[i] # NoItem => items'[i].location = g
          /\ worldItem'[i].present => items'[i].location = World
      BY <2>1 DEF IInv, LedgerAgrees, Held, AtLocation
    <3> QED
      BY <3>1, PlacesAreDistinct
  <2>5. FilesFollow'
    BY <2>1, <2>3, <2>4 DEF FilesFollow
  <2> QED
    BY <2>1, <2>2, <2>5 DEF FileInv, Apart
<1>2. CASE ~CommitObjectUpdate
  <2>1. /\ UNCHANGED <<memory, file, unsaved, up>> /\ up
        /\ tx # NoTransaction \/ unsaved = NothingUnsaved
    BY <1>2 DEF ObjectUpdates, BeginObjectUpdate, TakeItem, WithdrawItem,
                RejectObjectUpdate, GrowContainerStack, SplitIntoContainer,
                RegisterContents, Deposit, WithdrawIntoStack, WithdrawWhole,
                KeepsRest, InObjectUpdate, Idle
  <2>2. FilesFollow'
    BY <2>1 DEF FileInv, FilesFollow, memory
  <2> QED
    BY <2>1, <2>2 DEF FileInv, Apart
<1> QED
  BY <1>1, <1>2

LEMMA WorldItemFiles ==
    ASSUME IInv, FileInv, IInv', WorldItemUpdates
    PROVE  FileInv'
<1> DEFINE Commits(p, i) ==
             \E present, item, ledger, inventory :
               /\ AcceptsWorldItem(i)
               /\ CommitWorldItem(p, i, present, item, ledger, inventory)
<1>1. ASSUME NEW p \in Players, NEW i \in Instances
      PROVE  /\ DropWhole(p, i) => Commits(p, i)
             /\ \A source, count : DropPart(p, source, i, count) => Commits(p, i)
             /\ Reposition(p, i) => Commits(p, i)
             /\ PickUp(p, i) => Commits(p, i)
             /\ \A item : PickUpAuthored(p, i, item) => Commits(p, i)
             /\ Retire(p, i) => Commits(p, i)
  <2>1. /\ DropWhole(p, i) => Commits(p, i)
        /\ \A source, count : DropPart(p, source, i, count) => Commits(p, i)
        /\ Reposition(p, i) => Commits(p, i)
    BY Zenon DEF DropWhole, DropPart, Reposition
  <2>2. /\ PickUp(p, i) => Commits(p, i)
        /\ \A item : PickUpAuthored(p, i, item) => Commits(p, i)
        /\ Retire(p, i) => Commits(p, i)
    BY Zenon DEF PickUp, PickUpAuthored, Retire
  <2> QED
    BY <2>1, <2>2
<1> HIDE DEF Commits
<1>2. PICK p \in Players, i \in Instances : Commits(p, i)
  BY <1>1, Zenon DEF WorldItemUpdates
<1>3. PICK present, item, ledger, inventory :
        AcceptsWorldItem(i) /\ CommitWorldItem(p, i, present, item, ledger, inventory)
  BY <1>2 DEF Commits
<1>4. /\ Idle /\ UNCHANGED <<file, up, object>> /\ tx' = NoTransaction
      /\ unsaved'.profiles \subseteq {p} /\ unsaved'.items
      /\ \A q \in Players : q \notin unsaved'.profiles => profile'[q] = profile[q]
  <2>1. /\ Idle /\ UNCHANGED <<file, up, object, tx>>
        /\ unsaved' = [profiles |-> IF inventory = profile[p].inventory THEN {} ELSE {p},
                       objects |-> FALSE, items |-> TRUE]
    BY <1>3 DEF AcceptsWorldItem, CommitWorldItem
  <2>2. CASE inventory = profile[p].inventory
    BY <1>3, <2>1, <2>2 DEF CommitWorldItem, Idle
  <2>3. CASE inventory # profile[p].inventory
    <3>1. profile' = [profile EXCEPT ![p] = [revision |-> profile[p].revision + 1,
                                             inventory |-> inventory]]
      BY <1>3, <2>3 DEF CommitWorldItem
    <3> QED
      BY <2>1, <2>3, <3>1 DEF IInv, TypeOK, Idle
  <2> QED
    BY <2>2, <2>3
<1> QED
  BY <1>4, HandlerFiles

\* One file is written, the process stops, or it is started again.
LEMMA WriteFiles ==
    ASSUME IInv, FileInv, IInv', Persistence
    PROVE  FileInv'
<1>1. /\ file \in Files /\ file.profiles \in [Players -> ProfileRecord]
      /\ unsaved \in Unsaved
  BY DEF IInv, TypeOK, Files
<1>2. ASSUME NEW p \in Players, WriteProfile(p)
      PROVE  FileInv'
  <2>1. /\ up /\ up' /\ p \in unsaved.profiles /\ UNCHANGED <<memory, tx>>
        /\ file' = [file EXCEPT !.profiles[p] = profile[p]]
        /\ unsaved' = [unsaved EXCEPT !.profiles = @ \ {p}]
    BY <1>2 DEF WriteProfile
  <2>2. /\ FilesFollow /\ Apart(file) /\ tx = NoTransaction
    BY <2>1 DEF FileInv, FilesFollow, NothingUnsaved
  <2>3. /\ file'.objects = file.objects /\ file'.items = file.items
        /\ \A q \in Players : file'.profiles[q] = profile[q]
        /\ unsaved'.profiles = {} /\ unsaved'.objects = unsaved.objects
        /\ unsaved'.items = unsaved.items
    BY <1>1, <2>1, <2>2 DEF FilesFollow, Files, Unsaved
  <2>4. Apart(file')
    BY <2>1, <2>2, <2>3, MemoryApart DEF Apart
  <2>5. FilesFollow'
    BY <2>1, <2>2, <2>3 DEF FilesFollow, memory
  <2> QED
    BY <2>4, <2>5 DEF FileInv, Apart
<1>3. CASE WriteObjects
  <2>1. /\ up /\ up' /\ unsaved.profiles = {} /\ unsaved.objects
        /\ UNCHANGED <<memory, tx>>
        /\ file' = [file EXCEPT !.objects = object]
        /\ unsaved' = [unsaved EXCEPT !.objects = FALSE]
    BY <1>3 DEF WriteObjects
  <2>2. /\ FilesFollow /\ Apart(file) /\ tx = NoTransaction
    BY <2>1 DEF FileInv, FilesFollow, NothingUnsaved
  <2>3. /\ file'.objects = object /\ file'.items = file.items
        /\ file'.profiles = file.profiles
        /\ unsaved'.profiles = {} /\ ~unsaved'.objects
        /\ unsaved'.items = unsaved.items
    BY <1>1, <2>1 DEF Files, Unsaved
  <2>4. Apart(file')
    BY <2>1, <2>2, <2>3, MemoryApart DEF Apart, FilesFollow
  <2>5. FilesFollow'
    BY <2>1, <2>2, <2>3 DEF FilesFollow, memory
  <2> QED
    BY <2>4, <2>5 DEF FileInv, Apart
<1>4. CASE WriteItems
  <2>1. /\ up /\ up' /\ unsaved.profiles = {} /\ ~unsaved.objects /\ unsaved.items
        /\ UNCHANGED <<memory, tx>>
        /\ file' = [file EXCEPT !.items = worldItem]
        /\ unsaved' = [unsaved EXCEPT !.items = FALSE]
    BY <1>4 DEF WriteItems
  <2>2. /\ FilesFollow /\ Apart(file) /\ tx = NoTransaction
    BY <2>1 DEF FileInv, FilesFollow, NothingUnsaved
  <2>3. /\ file'.objects = object /\ file'.items = worldItem
        /\ file'.profiles = file.profiles
        /\ unsaved'.profiles = {} /\ ~unsaved'.objects /\ ~unsaved'.items
    BY <1>1, <2>1, <2>2 DEF Files, Unsaved, FilesFollow
  <2>4. Apart(file')
    BY <2>1, <2>2, <2>3, MemoryApart DEF Apart, FilesFollow
  <2>5. FilesFollow'
    BY <2>1, <2>2, <2>3, MemoryApart DEF FilesFollow, memory
  <2> QED
    BY <2>4, <2>5 DEF FileInv, Apart
<1>5. CASE Crash
  BY <1>5 DEF Crash, FileInv, Apart
<1>6. CASE Restart
  <2>1. /\ file' = file /\ Apart(file) /\ Loadable(file) /\ tx' = tx
        /\ profile' = file.profiles /\ object' = RecoveredObjects(file)
        /\ worldItem' = RecoveredItems(file)
        /\ unsaved' = [profiles |-> {}, objects |-> object' # file.objects,
                       items |-> worldItem' # file.items]
    BY <1>6 DEF Restart, FileInv
  <2>2. tx' = NoTransaction
    BY <1>6, <2>1 DEF Restart, IInv, StagedAgrees, StagedContents
  <2>3. \A g \in Containers, i \in Instances :
          object'[g].inventory[i] # NoItem => file.objects[g].inventory[i] # NoItem
    BY <1>1, <2>1, RecoveredTyped, StripOwnedTyped DEF RecoveredObjects, Files
  <2>4. FilesFollow'
    BY <2>1, <2>2, <2>3 DEF FilesFollow, Apart
  <2> QED
    BY <2>1, <2>4 DEF FileInv, Apart
<1> QED
  BY <1>2, <1>3, <1>4, <1>5, <1>6 DEF Persistence

LEMMA FilesInvariance == Spec => []FileInv
<1>1. IInv /\ FileInv /\ IInv' /\ Next => FileInv'
  BY UpdateFiles, ObjectUpdateFiles, WorldItemFiles, WriteFiles DEF Next
<1>2. FileInv /\ UNCHANGED vars => FileInv'
  BY DEF FileInv, FilesFollow, Apart, vars, memory
<1> QED
  BY <1>1, <1>2, StartsFiled, Invariance, PTL DEF Spec

---------------------------------------------------------------------------
(* Crashes that lose nothing.                                              *)

\* From one ledger to the next whole instances are only taken, by players,
\* and new ones are registered.
TakesOnly(old, new) ==
    \A i \in Instances : old[i] # Unregistered =>
        /\ new[i] # Unregistered
        /\ new[i].item = old[i].item
        /\ HeldByPlayer(old, i) => new[i] = old[i]

\* What a ledger with only takes cannot have: an instance that is gone, is
\* smaller, or has left its player.
Breaks(old, new) ==
    \E i \in Instances :
        /\ old[i] # Unregistered
        /\ \/ new[i] = Unregistered
           \/ new[i].item.count < old[i].item.count
           \/ HeldByPlayer(old, i) /\ ~HeldByPlayer(new, i)

\* Nothing has moved, but to players.
OnlyPlayersGain(old, new) ==
    \A i \in Instances : HeldByPlayer(new, i) \/ new[i] = old[i]

\* The files say what a ledger does, where no player holds an item at least:
\* what a player holds may still be in the file of a container.
Recovers(f, ledger) ==
    \A i \in Instances :
        /\ \A p \in Players : f.profiles[p].inventory[i] = Held(ledger, p)[i]
        /\ ~HeldByPlayer(ledger, i) =>
            /\ \A g \in Containers : f.objects[g].inventory[i] = Held(ledger, g)[i]
            /\ f.items[i].present <=> AtLocation(ledger, i, World)
            /\ f.items[i].present => f.items[i].item = ledger[i].item

\* A container the server has no record of has no contents.
UnknownIsEmpty(objects) ==
    \A g \in Containers, i \in Instances :
        objects[g].revision = 0 => objects[g].inventory[i] = NoItem

\* While the first loop of a container update runs the player has not gained
\* anything.  A new instance in a known container was split from a stack of the
\* player, and a first report changes the profile only by a deposit.
StagedTakes ==
    tx # NoTransaction =>
        /\ tx.todo # {} => \A i \in Instances :
            AtLocation(tx.ledger, i, tx.player) =>
                /\ AtLocation(items, i, tx.player)
                /\ tx.ledger[i].item.count <= items[i].item.count
        /\ (\E i \in Instances : /\ items[i] = Unregistered
                                 /\ AtLocation(tx.ledger, i, tx.guid))
            => object[tx.guid].revision = 0 \/ Breaks(items, tx.ledger)
        /\ object[tx.guid].revision = 0 =>
            /\ tx.changed => Breaks(items, tx.ledger)
            /\ \A i \in Instances :
                items[i] # Unregistered => tx.ledger[i] # Unregistered

\* Until the profile is written the files are those of the handler before, and
\* if only takes are to be written, the profile's is all that counts.
FilesRecover ==
    /\ unsaved = NothingUnsaved => before = items
    /\ unsaved.profiles # {} =>
        /\ Recovers(file, before)
        /\ TakesOnly(before, items) => OnlyPlayersGain(before, items)
    /\ unsaved.profiles = {} =>
        \/ TakesOnly(before, items) => Recovers(file, items)
        \/ Recovers(file, before) /\ ~(unsaved.objects /\ unsaved.items)

RecoveryInv ==
    /\ UnknownIsEmpty(object) /\ UnknownIsEmpty(file.objects)
    /\ StagedTakes
    /\ up => FilesRecover

\* Of files that say what a ledger does, the constructor makes that ledger.
LEMMA RecoversLedger ==
    ASSUME NEW f \in Files, NEW ledger \in Ledgers, Recovers(f, ledger)
    PROVE  RecoveredLedger(f) = ledger
<1> DEFINE owned == ProfileLedger(f)
<1>1. ASSUME NEW i \in Instances
      PROVE  RecoveredLedger(f)[i] = ledger[i]
  <2>0. ledger[i] \in Entry \/ ledger[i] = Unregistered
    BY DEF Ledgers
  <2>1. \A p \in Players : f.profiles[p].inventory[i] = Held(ledger, p)[i]
    BY DEF Recovers
  <2>2. ASSUME NEW p \in Players, AtLocation(ledger, i, p)
        PROVE  RecoveredLedger(f)[i] = ledger[i]
    <3>1. \A q \in Players : f.profiles[q].inventory[i] # NoItem <=> q = p
      BY <2>1, <2>2, HeldTyped DEF AtLocation
    <3>2. (CHOOSE q \in Players : f.profiles[q].inventory[i] # NoItem) = p
      BY <3>1
    <3>3. owned[i] = [item |-> f.profiles[p].inventory[i], location |-> p]
      BY <3>1, <3>2 DEF ProfileLedger
    <3>4. f.profiles[p].inventory[i] = ledger[i].item
      BY <2>1, <2>2, HeldTyped
    <3>5. owned[i] = ledger[i] /\ owned[i] # Unregistered
      BY <2>0, <2>2, <3>3, <3>4 DEF AtLocation, Entry
    <3> QED
      BY <3>5 DEF RecoveredLedger
  <2>3. CASE ~HeldByPlayer(ledger, i)
    <3>1. owned[i] = Unregistered
      BY <2>1, <2>3, HeldTyped DEF ProfileLedger, HeldByPlayer
    <3>2. /\ \A g \in Containers : f.objects[g].inventory[i] = Held(ledger, g)[i]
          /\ f.items[i].present <=> AtLocation(ledger, i, World)
          /\ f.items[i].present => f.items[i].item = ledger[i].item
      BY <2>3 DEF Recovers
    <3>3. ASSUME NEW g \in Containers, AtLocation(ledger, i, g)
          PROVE  RecoveredLedger(f)[i] = ledger[i]
      <4>1. \A h \in Containers : f.objects[h].inventory[i] # NoItem <=> h = g
        BY <3>2, <3>3, HeldTyped DEF AtLocation
      <4>2. (CHOOSE h \in Containers : f.objects[h].inventory[i] # NoItem) = g
        BY <4>1
      <4>3. RecoveredLedger(f)[i] =
                [item |-> f.objects[g].inventory[i], location |-> g]
        BY <3>1, <4>1, <4>2 DEF RecoveredLedger
      <4>4. f.objects[g].inventory[i] = ledger[i].item
        BY <3>2, <3>3, HeldTyped
      <4> QED
        BY <2>0, <3>3, <4>3, <4>4 DEF AtLocation, Entry
    <3>4. CASE \A g \in Containers : ~AtLocation(ledger, i, g)
      <4>1. ~ \E g \in Containers : f.objects[g].inventory[i] # NoItem
        BY <3>2, <3>4, HeldTyped
      <4>2. RecoveredLedger(f)[i] =
                IF f.items[i].present
                THEN [item |-> f.items[i].item, location |-> World]
                ELSE Unregistered
        BY <3>1, <4>1 DEF RecoveredLedger
      <4>3. AtLocation(ledger, i, World) \/ ledger[i] = Unregistered
        BY <2>0, <2>3, <3>4 DEF AtLocation, HeldByPlayer, Entry, Locations
      <4> QED
        BY <2>0, <3>2, <4>2, <4>3 DEF AtLocation, Entry
    <3> QED
      BY <3>3, <3>4
  <2> QED
    BY <2>2, <2>3 DEF HeldByPlayer
<1>2. /\ ledger = [i \in Instances |-> ledger[i]]
      /\ RecoveredLedger(f) = [i \in Instances |-> RecoveredLedger(f)[i]]
  BY DEF Ledgers, RecoveredLedger
<1> HIDE DEF owned
<1> QED
  BY <1>1, <1>2

LEMMA BreaksIsNoTake ==
    ASSUME NEW old \in Ledgers, NEW new \in Ledgers, Breaks(old, new)
    PROVE  ~TakesOnly(old, new)
<1> SUFFICES ASSUME TakesOnly(old, new) PROVE FALSE
  OBVIOUS
<1>1. PICK i \in Instances :
        /\ old[i] # Unregistered
        /\ \/ new[i] = Unregistered
           \/ new[i].item.count < old[i].item.count
           \/ HeldByPlayer(old, i) /\ ~HeldByPlayer(new, i)
  BY DEF Breaks
<1>2. /\ new[i] # Unregistered /\ new[i].item = old[i].item
      /\ HeldByPlayer(old, i) => new[i] = old[i]
  BY <1>1 DEF TakesOnly
<1>3. old[i].item.count \in Int
  BY <1>1, MaxItemCountIsPositive DEF Ledgers, Entry, Item
<1> QED
  BY <1>1, <1>2, <1>3 DEF HeldByPlayer, AtLocation

---------------------------------------------------------------------------
(* The invariant of the crashes, part by part.                             *)

\* What a handler keeps of the containers it has no record of.
LEMMA UnknownStaysEmpty ==
    ASSUME IInv, IInv', UnknownIsEmpty(object), UnknownIsEmpty(file.objects), Next
    PROVE  UnknownIsEmpty(object)' /\ UnknownIsEmpty(file.objects)'
<1>0. /\ object \in [Containers -> ObjectRecord]
      /\ file \in Files /\ file.objects \in [Containers -> ObjectRecord]
      /\ items' \in Ledgers
  BY DEF IInv, TypeOK, Files
<1>strip. ASSUME NEW objects \in [Containers -> ObjectRecord], NEW ledger,
                 UnknownIsEmpty(objects)
          PROVE  UnknownIsEmpty(StripOwned(objects, ledger))
  BY <1>strip DEF UnknownIsEmpty, StripOwned, ObjectRecord
<1>1. CASE ProfileUpdates
  <2>1. PICK ledger : object' = StripOwned(object, ledger) /\ file' = file
    BY <1>1 DEF ProfileUpdates, HandleProfileUpdate
  <2> QED
    BY <1>0, <1>strip, <2>1
<1>2. CASE CommitObjectUpdate
  <2>1. /\ object' = [object EXCEPT ![tx.guid] =
                        [revision |-> object[tx.guid].revision + 1,
                         inventory |-> tx.requested]]
        /\ file' = file
    BY <1>2 DEF CommitObjectUpdate
  <2> QED
    BY <1>0, <2>1 DEF UnknownIsEmpty, ObjectRecord
<1>3. CASE ObjectUpdates /\ ~CommitObjectUpdate
  BY <1>3 DEF ObjectUpdates, BeginObjectUpdate, TakeItem, WithdrawItem,
              RejectObjectUpdate, GrowContainerStack, SplitIntoContainer,
              RegisterContents, Deposit, WithdrawIntoStack, WithdrawWhole,
              KeepsRest, memory
<1>4. CASE WorldItemUpdates
  <2>1. PICK p \in Players, i \in Instances :
          \/ DropWhole(p, i)
          \/ \E source \in Instances, count \in 1..MaxItemCount :
                DropPart(p, source, i, count)
          \/ Reposition(p, i)
          \/ PickUp(p, i)
          \/ \E item \in Item : PickUpAuthored(p, i, item)
          \/ Retire(p, i)
    BY <1>4, Zenon DEF WorldItemUpdates
  <2>2. object' = object /\ file' = file
    <3>1. ASSUME NEW present, NEW item, NEW ledger, NEW inventory,
                 CommitWorldItem(p, i, present, item, ledger, inventory)
          PROVE  object' = object /\ file' = file
      BY <3>1 DEF CommitWorldItem
    <3> QED
      BY <2>1, <3>1, Zenon DEF DropWhole, DropPart, Reposition, PickUp,
                               PickUpAuthored, Retire
  <2> QED
    BY <2>2
<1>5. CASE Persistence
  <2>1. CASE \E p \in Players : WriteProfile(p)
    BY <1>0, <2>1 DEF WriteProfile, memory, Files
  <2>2. CASE WriteObjects
    BY <1>0, <2>2 DEF WriteObjects, memory, Files
  <2>3. CASE WriteItems
    BY <1>0, <2>3 DEF WriteItems, memory, Files
  <2>4. CASE Crash
    BY <2>4 DEF Crash, memory
  <2>5. CASE Restart
    BY <1>0, <1>strip, <2>5 DEF Restart, RecoveredObjects
  <2> QED
    BY <1>5, <2>1, <2>2, <2>3, <2>4, <2>5 DEF Persistence
<1> QED
  BY <1>1, <1>2, <1>3, <1>4, <1>5 DEF Next

\* One turn of the container handler's loops keeps StagedTakes, if what it
\* stages does.
LEMMA TurnKeepsTakes ==
    ASSUME IInv, tx # NoTransaction, NEW i \in tx.todo \cup tx.leaving,
           NEW ledger, NEW inventory, NEW changed,
           Done(i, ledger, inventory, changed), KeepsRest,
           tx.todo # {} => \A j \in Instances :
                AtLocation(ledger, j, tx.player) =>
                    /\ AtLocation(items, j, tx.player)
                    /\ ledger[j].item.count <= items[j].item.count,
           (\E j \in Instances : /\ items[j] = Unregistered
                                 /\ AtLocation(ledger, j, tx.guid))
                => object[tx.guid].revision = 0 \/ Breaks(items, ledger),
           object[tx.guid].revision = 0 =>
                /\ changed => Breaks(items, ledger)
                /\ \A j \in Instances :
                    items[j] # Unregistered => ledger[j] # Unregistered
    PROVE  StagedTakes'
<1>1. /\ tx \in Transactions
      /\ items' = items /\ object' = object
  BY DEF IInv, TypeOK, KeepsRest, memory
<1>2. /\ tx'.player = tx.player /\ tx'.guid = tx.guid
      /\ tx'.ledger = ledger /\ tx'.changed = changed
      /\ tx'.todo = tx.todo \ {i}
  BY <1>1 DEF Done, Transactions
<1>3. tx'.todo # {} => tx.todo # {}
  BY <1>2
<1> QED
  BY <1>1, <1>2, <1>3 DEF StagedTakes

\* While the loops run an item the message has not come to is in the container
\* as the memory has it.
LEMMA UntouchedContents ==
    ASSUME IInv, tx # NoTransaction, NEW i \in tx.todo \cup tx.leaving,
           Previous(i) # NoItem
    PROVE  /\ AtLocation(items, i, tx.guid) /\ AtLocation(tx.ledger, i, tx.guid)
           /\ tx.ledger[i].item = items[i].item
           /\ ~HeldByPlayer(items, i)
<1>1. /\ tx.guid \in Containers /\ tx.ledger \in Ledgers /\ i \in Instances
      /\ Held(tx.ledger, tx.guid)[i] = Previous(i)
  BY StagedFacts
<1>2. /\ items \in Ledgers /\ Held(items, tx.guid)[i] = Previous(i)
  BY <1>1 DEF IInv, TypeOK, LedgerAgrees, StagedAgrees, StagedContents, Previous
<1>3. /\ AtLocation(items, i, tx.guid) /\ AtLocation(tx.ledger, i, tx.guid)
      /\ tx.ledger[i].item = items[i].item
  BY <1>1, <1>2, HeldTyped
<1> QED
  BY <1>1, <1>3, PlacesAreDistinct DEF HeldByPlayer, AtLocation

\* A stack of the player that shrinks, goes or is deposited breaks the take.
LEMMA SourceBreaks ==
    ASSUME IInv, StagedTakes, tx # NoTransaction, tx.todo # {},
           NEW s \in Instances, NEW ledger \in Ledgers,
           AtLocation(tx.ledger, s, tx.player),
           \/ ledger[s] = Unregistered
           \/ ledger[s].item.count < tx.ledger[s].item.count
           \/ AtLocation(ledger, s, tx.guid)
    PROVE  Breaks(items, ledger)
<1>1. /\ tx.player \in Players /\ tx.guid \in Containers /\ tx.ledger \in Ledgers
  BY StagedFacts
<1>2. /\ AtLocation(items, s, tx.player)
      /\ tx.ledger[s].item.count <= items[s].item.count
  BY DEF StagedTakes
<1>3. items[s] # Unregistered /\ HeldByPlayer(items, s)
  BY <1>1, <1>2 DEF HeldByPlayer, AtLocation
<1>4. CASE ledger[s] = Unregistered
  BY <1>3, <1>4 DEF Breaks
<1>5. CASE ledger[s] # Unregistered /\ ledger[s].item.count < tx.ledger[s].item.count
  <2>1. /\ ledger[s].item.count \in Int /\ tx.ledger[s].item.count \in Int
        /\ items[s].item.count \in Int
    BY <1>1, <1>3, <1>5, MaxItemCountIsPositive
    DEF IInv, TypeOK, Ledgers, Entry, Item, AtLocation
  <2> QED
    BY <1>2, <1>3, <1>5, <2>1 DEF Breaks
<1>6. CASE AtLocation(ledger, s, tx.guid)
  <2>1. ~HeldByPlayer(ledger, s)
    BY <1>1, <1>6, PlacesAreDistinct DEF HeldByPlayer, AtLocation
  <2> QED
    BY <1>3, <2>1 DEF Breaks
<1> QED
  BY <1>4, <1>5, <1>6

LEMMA GrowTakes ==
    ASSUME IInv, StagedTakes, UnknownIsEmpty(object), tx # NoTransaction,
           NEW i \in tx.todo, NEW s \in Instances, GrowContainerStack(i, s)
    PROVE  StagedTakes'
<1> DEFINE n == tx.requested[i].count - Previous(i).count
           merged == Merge(tx.ledger, s, i, n)
<1>0. /\ tx.player \in Players /\ tx.guid \in Containers /\ tx.player # tx.guid
      /\ tx.ledger \in Ledgers /\ i \in Instances /\ tx.requested[i] \in Item
      /\ Held(tx.ledger, tx.guid)[i] = Previous(i)
  BY StagedFacts
<1>1. /\ CanMerge(tx.ledger, s, tx.player, i, tx.guid, n)
      /\ Done(i, merged, TakenFrom(tx.inventory, s, n), TRUE) /\ KeepsRest
      /\ Previous(i) # NoItem
  BY DEF GrowContainerStack, CanGrow
<1>2. /\ AtLocation(tx.ledger, s, tx.player) /\ AtLocation(tx.ledger, i, tx.guid)
      /\ s # i /\ n > 0
      /\ tx.ledger[s] \in Entry
  BY <1>0, <1>1 DEF CanMerge, AtLocation, Ledgers
<1>3. n \in Nat
  <2>1. Previous(i) = tx.ledger[i].item /\ tx.ledger[i].item \in Item
    BY <1>0, <1>2, HeldAt DEF AtLocation, Ledgers, Entry
  <2> QED
    BY <1>0, <1>2, <2>1 DEF Item
<1> HIDE DEF n, merged
<1>4. /\ merged \in Ledgers
      /\ merged[i] = [item |-> WithCount(tx.ledger[i].item,
                                         tx.ledger[i].item.count + n),
                      location |-> tx.guid]
      /\ n = tx.ledger[s].item.count => merged[s] = Unregistered
      /\ n # tx.ledger[s].item.count =>
            merged[s] = [item |-> WithCount(tx.ledger[s].item,
                                            tx.ledger[s].item.count - n),
                         location |-> tx.player]
      /\ \A j \in Instances \ {s, i} : merged[j] = tx.ledger[j]
  BY <1>0, <1>1, <1>3, MergeTyped DEF merged
<1>5. tx.ledger[s].item.count \in Int
  BY <1>2 DEF Entry, Item
<1>6. merged[s] = Unregistered \/ merged[s].item.count < tx.ledger[s].item.count
  BY <1>2, <1>3, <1>4, <1>5 DEF WithCount
<1>7. Breaks(items, merged)
  BY <1>2, <1>4, <1>6, SourceBreaks
<1>8. ASSUME NEW j \in Instances, AtLocation(merged, j, tx.player)
      PROVE  /\ AtLocation(items, j, tx.player)
             /\ merged[j].item.count <= items[j].item.count
  <2>1. CASE j = i
    BY <1>0, <1>4, <1>8, <2>1 DEF AtLocation
  <2>2. CASE j = s
    <3>1. /\ AtLocation(items, s, tx.player)
          /\ tx.ledger[s].item.count <= items[s].item.count
      BY <1>2 DEF StagedTakes
    <3>2. merged[s] # Unregistered
      BY <1>8, <2>2 DEF AtLocation
    <3>3. items[s].item.count \in Int /\ merged[s].item.count \in Int
      BY <1>4, <3>1, <3>2 DEF IInv, TypeOK, Ledgers, Entry, Item, AtLocation
    <3> QED
      BY <1>5, <1>6, <2>2, <3>1, <3>2, <3>3
  <2>3. CASE j \notin {s, i}
    BY <1>4, <1>8, <2>3 DEF StagedTakes, AtLocation
  <2> QED
    BY <2>1, <2>2, <2>3
<1>9. object[tx.guid].revision # 0
  BY <1>0, <1>1 DEF UnknownIsEmpty, Previous
<1> QED
  BY <1>1, <1>7, <1>8, <1>9, TurnKeepsTakes

LEMMA SplitIntoTakes ==
    ASSUME IInv, StagedTakes, tx # NoTransaction,
           NEW i \in tx.todo, NEW s \in Instances, SplitIntoContainer(i, s)
    PROVE  StagedTakes'
<1> DEFINE n == tx.requested[i].count
           divided == Split(tx.ledger, s, i, n, tx.guid)
<1>0. /\ tx.player \in Players /\ tx.guid \in Locations /\ tx.player # tx.guid
      /\ tx.ledger \in Ledgers /\ i \in Instances /\ tx.requested[i] \in Item
  BY StagedFacts
<1>1. /\ CanSplit(tx.ledger, s, tx.player, i, n)
      /\ Done(i, divided, TakenFrom(tx.inventory, s, n), TRUE) /\ KeepsRest
      /\ object[tx.guid].revision # 0
  BY DEF SplitIntoContainer, CanSplitInto
<1>2. /\ AtLocation(tx.ledger, s, tx.player)
      /\ tx.ledger[s] \in Entry /\ n \in Nat /\ n > 0
  BY <1>0, <1>1 DEF CanSplit, AtLocation, Ledgers, Item
<1> HIDE DEF n, divided
<1>3. /\ divided \in Ledgers
      /\ divided[s] = [item |-> WithCount(tx.ledger[s].item,
                                          tx.ledger[s].item.count - n),
                       location |-> tx.player]
      /\ divided[i] = [item |-> WithCount(tx.ledger[s].item, n),
                       location |-> tx.guid]
      /\ divided[s] # Unregistered
      /\ \A j \in Instances \ {s, i} : divided[j] = tx.ledger[j]
  BY <1>0, <1>1, <1>2, SplitTyped DEF divided
<1>4. tx.ledger[s].item.count \in Int
  BY <1>2 DEF Entry, Item
<1>5. divided[s].item.count < tx.ledger[s].item.count
  BY <1>2, <1>3, <1>4 DEF WithCount
<1>6. Breaks(items, divided)
  BY <1>2, <1>3, <1>5, SourceBreaks
<1>7. ASSUME NEW j \in Instances, AtLocation(divided, j, tx.player)
      PROVE  /\ AtLocation(items, j, tx.player)
             /\ divided[j].item.count <= items[j].item.count
  <2>1. CASE j = i
    BY <1>0, <1>3, <1>7, <2>1 DEF AtLocation
  <2>2. CASE j = s
    <3>1. /\ AtLocation(items, s, tx.player)
          /\ tx.ledger[s].item.count <= items[s].item.count
      BY <1>2 DEF StagedTakes
    <3>2. items[s].item.count \in Int /\ divided[s].item.count \in Int
      BY <1>3, <3>1 DEF IInv, TypeOK, Ledgers, Entry, Item, AtLocation
    <3> QED
      BY <1>4, <1>5, <2>2, <3>1, <3>2
  <2>3. CASE j \notin {s, i}
    BY <1>3, <1>7, <2>3 DEF StagedTakes, AtLocation
  <2> QED
    BY <2>1, <2>2, <2>3
<1> QED
  BY <1>1, <1>6, <1>7, TurnKeepsTakes

LEMMA RegisterTakes ==
    ASSUME IInv, StagedTakes, tx # NoTransaction,
           NEW i \in tx.todo, RegisterContents(i)
    PROVE  StagedTakes'
<1> DEFINE registered == Register(tx.ledger, i, tx.requested[i], tx.guid)
<1>0. /\ tx.guid \in Locations /\ tx.player # tx.guid
      /\ tx.ledger \in Ledgers /\ i \in Instances /\ tx.requested[i] \in Item
  BY StagedFacts
<1>1. /\ tx.ledger[i] = Unregistered /\ object[tx.guid].revision = 0
      /\ Done(i, registered, tx.inventory, tx.changed) /\ KeepsRest
  BY DEF RegisterContents, CanRegisterIn
<1> HIDE DEF registered
<1>2. /\ registered[i] # Unregistered
      /\ registered[i] = [item |-> tx.requested[i], location |-> tx.guid]
      /\ \A j \in Instances \ {i} : registered[j] = tx.ledger[j]
  BY <1>0, RegisterTyped DEF registered
<1>3. /\ tx.changed => Breaks(items, tx.ledger)
      /\ \A j \in Instances : items[j] # Unregistered => tx.ledger[j] # Unregistered
  BY <1>1 DEF StagedTakes
<1>4. items[i] = Unregistered
  BY <1>0, <1>1, <1>3
<1>5. tx.changed => Breaks(items, registered)
  BY <1>2, <1>3, <1>4 DEF Breaks, HeldByPlayer, AtLocation
<1>6. ASSUME NEW j \in Instances, AtLocation(registered, j, tx.player)
      PROVE  /\ AtLocation(items, j, tx.player)
             /\ registered[j].item.count <= items[j].item.count
  BY <1>0, <1>2, <1>6 DEF StagedTakes, AtLocation
<1>7. \A j \in Instances : items[j] # Unregistered => registered[j] # Unregistered
  BY <1>2, <1>3
<1> QED
  BY <1>1, <1>5, <1>6, <1>7, TurnKeepsTakes

LEMMA DepositTakes ==
    ASSUME IInv, StagedTakes, tx # NoTransaction, NEW i \in tx.todo, Deposit(i)
    PROVE  StagedTakes'
<1> DEFINE moved == Move(tx.ledger, i, tx.guid)
           placed == Replace(moved, i, tx.requested[i])
<1>0. /\ tx.guid \in Locations /\ tx.player # tx.guid
      /\ tx.ledger \in Ledgers /\ i \in Instances /\ tx.requested[i] \in Item
  BY StagedFacts
<1>1. /\ AtLocation(tx.ledger, i, tx.player)
      /\ Done(i, placed, Without(tx.inventory, {i}), TRUE) /\ KeepsRest
  BY DEF Deposit, CanDeposit
<1> HIDE DEF moved
<1>2. /\ moved \in Ledgers /\ moved[i] # Unregistered
      /\ moved[i] = [item |-> tx.ledger[i].item, location |-> tx.guid]
      /\ \A j \in Instances \ {i} : moved[j] = tx.ledger[j]
  BY <1>0, <1>1, MoveTyped DEF moved, CanMove
<1>3. moved[i] \in Entry
  BY <1>0, <1>2 DEF Ledgers
<1> HIDE DEF placed
<1>4. /\ placed \in Ledgers /\ placed[i] # Unregistered
      /\ placed[i] = [item |-> tx.requested[i], location |-> moved[i].location]
      /\ \A j \in Instances \ {i} : placed[j] = tx.ledger[j]
  BY <1>0, <1>2, <1>3, ReplaceTyped DEF placed
<1>5. AtLocation(placed, i, tx.guid)
  BY <1>2, <1>4 DEF AtLocation
<1>6. Breaks(items, placed)
  BY <1>0, <1>1, <1>4, <1>5, SourceBreaks
<1>7. ASSUME NEW j \in Instances, AtLocation(placed, j, tx.player)
      PROVE  /\ AtLocation(items, j, tx.player)
             /\ placed[j].item.count <= items[j].item.count
  BY <1>0, <1>4, <1>5, <1>7 DEF StagedTakes, AtLocation
<1>8. ASSUME object[tx.guid].revision = 0
      PROVE  \A j \in Instances : items[j] # Unregistered => placed[j] # Unregistered
  BY <1>4, <1>8 DEF StagedTakes
<1> QED
  BY <1>1, <1>6, <1>7, <1>8, TurnKeepsTakes

LEMMA WithdrawTakes ==
    ASSUME IInv, StagedTakes, UnknownIsEmpty(object), WithdrawItem
    PROVE  StagedTakes'
<1>1. /\ tx # NoTransaction /\ tx.todo = {}
  BY DEF WithdrawItem, InObjectUpdate
<1>2. PICK i \in tx.leaving :
        \/ \E k \in Instances : WithdrawIntoStack(i, k)
        \/ WithdrawWhole(i)
  BY DEF WithdrawItem
<1>3. /\ tx.player \in Players /\ tx.player \in Locations /\ tx.guid \in Containers
      /\ tx.player # tx.guid /\ tx.ledger \in Ledgers /\ i \in Instances
      /\ Held(tx.ledger, tx.guid)[i] = Previous(i)
  BY <1>1, StagedFacts
<1>4. AtLocation(tx.ledger, i, tx.guid)
  BY <1>2 DEF WithdrawIntoStack, CanWithdrawInto, CanMerge,
              WithdrawWhole, CanWithdrawWhole
<1>5. Previous(i) # NoItem
  BY <1>3, <1>4, HeldTyped
<1>6. object[tx.guid].revision # 0
  BY <1>3, <1>5 DEF UnknownIsEmpty, Previous
<1>7. /\ AtLocation(items, i, tx.guid)
      /\ tx.ledger[i].item = items[i].item
      /\ ~HeldByPlayer(items, i)
  BY <1>1, <1>5, UntouchedContents
<1>8. ASSUME NEW k \in Instances, WithdrawIntoStack(i, k)
      PROVE  StagedTakes'
  <2> DEFINE n == Previous(i).count
             merged == Merge(tx.ledger, i, k, n)
  <2>1. /\ CanMerge(tx.ledger, i, tx.guid, k, tx.player, n)
        /\ Done(i, merged, AddedTo(tx.inventory, k, n), TRUE) /\ KeepsRest
    BY <1>8 DEF WithdrawIntoStack, CanWithdrawInto
  <2>2. n = tx.ledger[i].item.count
    BY <1>3, <1>4, HeldTyped
  <2>3. merged[i] = Unregistered
    <3>1. DOMAIN tx.ledger = Instances
      BY <1>3 DEF Ledgers
    <3> QED
      BY <1>3, <2>2, <3>1 DEF Merge
  <2> HIDE DEF merged
  <2>4. Breaks(items, merged)
    BY <1>3, <1>7, <2>3 DEF Breaks, AtLocation
  <2> QED
    BY <1>1, <1>6, <2>1, <2>4, TurnKeepsTakes
<1>9. CASE WithdrawWhole(i)
  <2> DEFINE moved == Move(tx.ledger, i, tx.player)
  <2>1. Done(i, moved, [tx.inventory EXCEPT ![i] = Previous(i)], TRUE) /\ KeepsRest
    BY <1>9 DEF WithdrawWhole
  <2> HIDE DEF moved
  <2>2. /\ moved[i] = [item |-> tx.ledger[i].item, location |-> tx.player]
        /\ \A j \in Instances \ {i} : moved[j] = tx.ledger[j]
    BY <1>3, <1>4, MoveTyped DEF moved, CanMove
  <2>3. ASSUME NEW j \in Instances, items[j] = Unregistered,
               AtLocation(moved, j, tx.guid)
        PROVE  Breaks(items, moved)
    <3>1. AtLocation(tx.ledger, j, tx.guid)
      BY <1>3, <2>2, <2>3 DEF AtLocation
    <3>2. Breaks(items, tx.ledger)
      BY <1>1, <1>6, <2>3, <3>1 DEF StagedTakes
    <3>3. PICK w \in Instances :
            /\ items[w] # Unregistered
            /\ \/ tx.ledger[w] = Unregistered
               \/ tx.ledger[w].item.count < items[w].item.count
               \/ HeldByPlayer(items, w) /\ ~HeldByPlayer(tx.ledger, w)
      BY <3>2 DEF Breaks
    <3>4. w # i
      <4>1. items[i].item.count \in Int
        BY <1>3, <1>7 DEF AtLocation, IInv, TypeOK, Ledgers, Entry, Item
      <4> QED
        BY <1>4, <1>7, <3>3, <4>1 DEF AtLocation
    <3> QED
      BY <2>2, <3>3, <3>4 DEF Breaks, HeldByPlayer, AtLocation
  <2> QED
    BY <1>1, <1>6, <2>1, <2>3, TurnKeepsTakes
<1> QED
  BY <1>2, <1>8, <1>9

LEMMA TakesInvariant ==
    ASSUME IInv, StagedTakes, UnknownIsEmpty(object), Next
    PROVE  StagedTakes'
<1>1. CASE tx' = NoTransaction
  BY <1>1 DEF StagedTakes
<1>2. ASSUME NEW p \in Players, NEW g \in Containers,
             NEW requested \in Inventories, BeginObjectUpdate(p, g, requested)
      PROVE  StagedTakes'
  <2>1. /\ tx'.ledger = items /\ tx'.changed = FALSE
        /\ items' = items /\ object' = object
    BY <1>2 DEF BeginObjectUpdate, memory
  <2>2. items \in Ledgers
    BY DEF IInv, TypeOK
  <2>3. ASSUME NEW j \in Instances, AtLocation(items, j, tx'.player)
        PROVE  items[j].item.count <= items[j].item.count
    BY <2>2, <2>3 DEF AtLocation, Ledgers, Entry, Item
  <2>4. \A j \in Instances : items[j] = Unregistered => ~AtLocation(items, j, tx'.guid)
    BY DEF AtLocation
  <2> QED
    BY <2>1, <2>3, <2>4 DEF StagedTakes
<1>3. CASE TakeItem
  <2>1. PICK i \in tx.todo :
          \/ \E s \in Instances : GrowContainerStack(i, s) \/ SplitIntoContainer(i, s)
          \/ RegisterContents(i)
          \/ Deposit(i)
    BY <1>3 DEF TakeItem
  <2>2. tx # NoTransaction
    BY <1>3 DEF TakeItem, InObjectUpdate
  <2> QED
    BY <2>1, <2>2, GrowTakes, SplitIntoTakes, RegisterTakes, DepositTakes
<1>4. CASE WithdrawItem
  BY <1>4, WithdrawTakes
<1>5. CASE \/ ProfileUpdates \/ WorldItemUpdates \/ RejectObjectUpdate
           \/ CommitObjectUpdate \/ Persistence
  <2>1. CASE ProfileUpdates
    BY <1>1, <2>1 DEF ProfileUpdates, HandleProfileUpdate, Idle
  <2>2. CASE WorldItemUpdates
    <3>1. PICK p \in Players, i \in Instances :
            \/ DropWhole(p, i)
            \/ \E source \in Instances, count \in 1..MaxItemCount :
                  DropPart(p, source, i, count)
            \/ Reposition(p, i)
            \/ PickUp(p, i)
            \/ \E item \in Item : PickUpAuthored(p, i, item)
            \/ Retire(p, i)
      BY <2>2, Zenon DEF WorldItemUpdates
    <3>2. AcceptsWorldItem(i) /\ tx' = tx
      <4>1. ASSUME NEW present, NEW item, NEW ledger, NEW inventory,
                   CommitWorldItem(p, i, present, item, ledger, inventory)
            PROVE  tx' = tx
        BY <4>1 DEF CommitWorldItem
      <4> QED
        BY <3>1, <4>1, Zenon DEF DropWhole, DropPart, Reposition, PickUp,
                                 PickUpAuthored, Retire
    <3> QED
      BY <1>1, <3>2 DEF AcceptsWorldItem, Idle
  <2>3. CASE RejectObjectUpdate \/ CommitObjectUpdate
    BY <1>1, <2>3 DEF RejectObjectUpdate, CommitObjectUpdate
  <2>4. CASE Persistence
    <3>1. \/ tx' = NoTransaction
          \/ tx' = tx /\ items' = items /\ object' = object
          \/ Restart
      BY <2>4 DEF Persistence, WriteProfile, WriteObjects, WriteItems, Crash, memory
    <3>2. CASE Restart
      BY <1>1, <3>2 DEF Restart, IInv, StagedAgrees, StagedContents
    <3> QED
      BY <1>1, <3>1, <3>2 DEF StagedTakes
  <2> QED
    BY <1>5, <2>1, <2>2, <2>3, <2>4
<1> QED
  BY <1>2, <1>3, <1>4, <1>5 DEF Next, ObjectUpdates

\* A handler that is through has written nothing: its files are those of the
\* ledger it began with.
LEMMA HandlerRecovers ==
    ASSUME IInv, FileInv, up, unsaved = NothingUnsaved,
           file' = file, before' = items, unsaved' # NothingUnsaved,
           unsaved'.profiles = {} => ~(unsaved'.objects /\ unsaved'.items),
           unsaved'.profiles # {} /\ TakesOnly(items, items')
                => OnlyPlayersGain(items, items')
    PROVE  FilesRecover'
<1>1. /\ file.profiles = profile /\ file.objects = object /\ file.items = worldItem
  <2>1. /\ file.profiles \in [Players -> ProfileRecord]
        /\ profile \in [Players -> ProfileRecord]
    BY DEF IInv, TypeOK, Files
  <2>2. \A p \in Players : file.profiles[p] = profile[p]
    BY DEF FileInv, FilesFollow, NothingUnsaved
  <2> QED
    BY <2>1, <2>2 DEF FileInv, FilesFollow, NothingUnsaved
<1>2. Recovers(file, items)
  BY <1>1 DEF IInv, LedgerAgrees, Recovers
<1> QED
  BY <1>2 DEF FilesRecover

LEMMA UpdateRecovers ==
    ASSUME IInv, FileInv, ProfileUpdates
    PROVE  FilesRecover'
<1>1. PICK p \in Players, accepted \in Inventories : HandleProfileUpdate(p, accepted)
  BY DEF ProfileUpdates
<1> DEFINE ledger == SettledLedger(p, items, accepted)
<1>2. /\ Idle /\ up /\ unsaved = NothingUnsaved
      /\ file' = file /\ before' = items /\ items' = ledger
      /\ unsaved'.profiles = {p}
  BY <1>1 DEF HandleProfileUpdate, Idle
<1>3. unsaved' # NothingUnsaved
  BY <1>2 DEF NothingUnsaved
<1>4. ASSUME TakesOnly(items, ledger), NEW i \in Instances
      PROVE  HeldByPlayer(ledger, i) \/ ledger[i] = items[i]
  <2>1. CASE accepted[i] # NoItem
    <3>1. ledger[i] = [item |-> accepted[i], location |-> p]
      BY <2>1 DEF SettledLedger
    <3>2. ledger[i] \in Entry
      BY <2>1, <3>1 DEF Inventories, Entry, Locations
    <3> QED
      BY <3>1, <3>2, UnregisteredIsNoEntry DEF HeldByPlayer, AtLocation
  <2>2. CASE accepted[i] = NoItem
    <3>1. ledger[i] = IF AtLocation(items, i, p) THEN Unregistered ELSE items[i]
      BY <2>2 DEF SettledLedger
    <3> QED
      BY <3>1, <1>4 DEF TakesOnly, AtLocation
  <2> QED
    BY <2>1, <2>2
<1>5. TakesOnly(items, items') => OnlyPlayersGain(items, items')
  BY <1>2, <1>4 DEF OnlyPlayersGain
<1> HIDE DEF ledger
<1> QED
  BY <1>2, <1>3, <1>5, HandlerRecovers

\* A container update that changes the profile and only takes whole instances
\* moves nothing but what the player gains.
LEMMA StagedGains ==
    ASSUME IInv, StagedTakes, tx # NoTransaction, tx.todo = {}, tx.leaving = {},
           tx.changed, TakesOnly(items, tx.ledger)
    PROVE  OnlyPlayersGain(items, tx.ledger)
<1>1. /\ tx.player \in Players /\ tx.guid \in Containers /\ tx.ledger \in Ledgers
      /\ items \in Ledgers
  BY StagedFacts DEF IInv, TypeOK
<1>2. \A other \in Locations \ {tx.player, tx.guid}, i \in Instances :
        Held(tx.ledger, other)[i] = Held(items, other)[i]
  BY DEF IInv, StagedAgrees, StagedContents
<1>3. ~Breaks(items, tx.ledger)
  BY <1>1, BreaksIsNoTake
<1>4. /\ object[tx.guid].revision # 0
      /\ \A i \in Instances : items[i] = Unregistered => ~AtLocation(tx.ledger, i, tx.guid)
  BY <1>3 DEF StagedTakes
<1>5. ASSUME NEW i \in Instances, ~HeldByPlayer(tx.ledger, i)
      PROVE  tx.ledger[i] = items[i]
  <2>1. /\ items[i] # Unregistered =>
            tx.ledger[i] # Unregistered /\ tx.ledger[i].item = items[i].item
        /\ HeldByPlayer(items, i) => tx.ledger[i] = items[i]
    BY DEF TakesOnly, HeldByPlayer, AtLocation
  <2>2. CASE tx.ledger[i] = Unregistered
    BY <2>1, <2>2
  <2>3. CASE tx.ledger[i] # Unregistered /\ tx.ledger[i].location = tx.guid
    <3>1. items[i] # Unregistered
      BY <1>4, <2>3 DEF AtLocation
    <3>2. items[i] \in Entry /\ tx.ledger[i] \in Entry
          /\ tx.ledger[i].item = items[i].item
      BY <1>1, <2>1, <2>3, <3>1 DEF Ledgers
    <3>3. CASE HeldByPlayer(items, i)
      BY <2>1, <3>3
    <3>4. CASE items[i].location \in Locations \ (Players \cup {tx.guid})
      <4>1. items[i].location \in Locations \ {tx.player, tx.guid}
        BY <1>1, <3>4
      <4>2. Held(items, items[i].location)[i] # NoItem
        BY <1>1, <3>1, HeldTyped DEF AtLocation
      <4>3. Held(tx.ledger, items[i].location)[i] = NoItem
        BY <1>1, <2>3, <4>1, HeldAt
      <4> QED
        BY <1>2, <4>1, <4>2, <4>3
    <3>5. CASE items[i].location = tx.guid
      BY <2>3, <3>2, <3>5 DEF Entry
    <3> QED
      BY <3>1, <3>2, <3>3, <3>4, <3>5 DEF Entry, HeldByPlayer, AtLocation
  <2>4. CASE tx.ledger[i] # Unregistered /\ tx.ledger[i].location # tx.guid
    <3>1. tx.ledger[i] \in Entry
      BY <1>1, <2>4 DEF Ledgers
    <3>2. tx.ledger[i].location \in Locations \ {tx.player, tx.guid}
      BY <1>1, <1>5, <2>4, <3>1 DEF Entry, HeldByPlayer, AtLocation
    <3>3. Held(tx.ledger, tx.ledger[i].location)[i] # NoItem
      BY <1>1, <2>4, HeldTyped DEF AtLocation
    <3>4. AtLocation(items, i, tx.ledger[i].location)
      BY <1>1, <1>2, <3>2, <3>3, HeldTyped
    <3>5. /\ items[i] \in Entry /\ items[i].location = tx.ledger[i].location
          /\ tx.ledger[i].item = items[i].item
      BY <1>1, <2>1, <3>4 DEF AtLocation, Ledgers
    <3> QED
      BY <3>1, <3>5 DEF Entry
  <2> QED
    BY <2>2, <2>3, <2>4
<1> QED
  BY <1>5 DEF OnlyPlayersGain

LEMMA ObjectUpdateRecovers ==
    ASSUME IInv, FileInv, StagedTakes, up => FilesRecover, ObjectUpdates
    PROVE  FilesRecover'
<1>1. CASE CommitObjectUpdate
  <2>1. /\ up /\ tx # NoTransaction /\ tx.todo = {} /\ tx.leaving = {}
        /\ file' = file /\ before' = items /\ items' = tx.ledger
        /\ unsaved' = [profiles |-> IF tx.changed THEN {tx.player} ELSE {},
                       objects |-> TRUE, items |-> FALSE]
    BY <1>1 DEF CommitObjectUpdate, InObjectUpdate
  <2>2. unsaved = NothingUnsaved
    BY <2>1 DEF FileInv, FilesFollow
  <2>3. unsaved' # NothingUnsaved /\ ~unsaved'.items
    BY <2>1 DEF NothingUnsaved
  <2>4. ASSUME unsaved'.profiles # {}, TakesOnly(items, items')
        PROVE  OnlyPlayersGain(items, items')
    <3>1. tx.changed
      BY <2>1, <2>4
    <3> QED
      BY <2>1, <2>4, <3>1, StagedGains
  <2> QED
    BY <2>1, <2>2, <2>3, <2>4, HandlerRecovers
<1>2. CASE ~CommitObjectUpdate
  <2>1. UNCHANGED <<memory, file, unsaved, before>> /\ up
    BY <1>2 DEF ObjectUpdates, BeginObjectUpdate, TakeItem, WithdrawItem,
                RejectObjectUpdate, GrowContainerStack, SplitIntoContainer,
                RegisterContents, Deposit, WithdrawIntoStack, WithdrawWhole,
                KeepsRest, InObjectUpdate, Idle
  <2> QED
    BY <2>1 DEF FilesRecover, memory
<1> QED
  BY <1>1, <1>2

\* The end of a world-item update.
LEMMA CommitRecovers ==
    ASSUME IInv, FileInv, NEW p \in Players, NEW i \in Instances, NEW present,
           NEW item, NEW ledger, NEW inventory, AcceptsWorldItem(i),
           CommitWorldItem(p, i, present, item, ledger, inventory),
           inventory # profile[p].inventory /\ TakesOnly(items, ledger)
                => OnlyPlayersGain(items, ledger)
    PROVE  FilesRecover'
<1>1. /\ up /\ unsaved = NothingUnsaved
      /\ file' = file /\ before' = items /\ items' = ledger
      /\ unsaved' = [profiles |-> IF inventory = profile[p].inventory THEN {} ELSE {p},
                     objects |-> FALSE, items |-> TRUE]
  BY DEF AcceptsWorldItem, CommitWorldItem, Idle
<1>2. unsaved' # NothingUnsaved /\ ~unsaved'.objects
  BY <1>1 DEF NothingUnsaved
<1>3. unsaved'.profiles # {} => inventory # profile[p].inventory
  BY <1>1
<1> QED
  BY <1>1, <1>2, <1>3, HandlerRecovers

LEMMA WorldItemRecovers ==
    ASSUME IInv, FileInv, WorldItemUpdates
    PROVE  FilesRecover'
<1>0. items \in Ledgers
  BY DEF IInv, TypeOK
<1>1. ASSUME NEW p \in Players, NEW i \in Instances, DropWhole(p, i)
      PROVE  FilesRecover'
  <2> DEFINE moved == Move(items, i, World)
             left == Without(profile[p].inventory, {i})
             here == TRUE
  <2>1. /\ AcceptsWorldItem(i) /\ CanMove(items, i, p)
        /\ CommitWorldItem(p, i, here, items[i].item, moved, left)
    BY <1>1 DEF DropWhole
  <2> HIDE DEF moved, left, here
  <2>2. /\ moved[i] = [item |-> items[i].item, location |-> World]
        /\ AtLocation(items, i, p)
    BY <1>0, <2>1, MoveTyped DEF moved, CanMove, Locations
  <2>3. ~TakesOnly(items, moved)
    BY <2>2, PlacesAreDistinct DEF TakesOnly, HeldByPlayer, AtLocation
  <2> QED
    BY <2>1, <2>3, CommitRecovers
<1>2. ASSUME NEW p \in Players, NEW i \in Instances, NEW s \in Instances,
             NEW n \in 1..MaxItemCount, DropPart(p, s, i, n)
      PROVE  FilesRecover'
  <2> DEFINE divided == Split(items, s, i, n, World)
             left == TakenFrom(profile[p].inventory, s, n)
             part == WithCount(items[s].item, n)
             here == TRUE
  <2>1. /\ AcceptsWorldItem(i) /\ CanSplit(items, s, p, i, n)
        /\ CommitWorldItem(p, i, here, part, divided, left)
    BY <1>2 DEF DropPart
  <2> HIDE DEF divided, left, part, here
  <2>2. n \in Nat /\ n > 0 /\ AtLocation(items, s, p)
    BY <2>1, MaxItemCountIsPositive DEF CanSplit
  <2>3. divided[s] = [item |-> WithCount(items[s].item, items[s].item.count - n),
                      location |-> p]
    <3>1. s # i /\ DOMAIN items = Instances /\ items[s].location = p
      BY <1>0, <2>1 DEF CanSplit, AtLocation, Ledgers
    <3> QED
      BY <3>1 DEF divided, Split
  <2>4. items[s].item.count \in Int
    BY <1>0, <2>2 DEF AtLocation, Ledgers, Entry, Item
  <2>5. divided[s].item.count # items[s].item.count
    BY <2>2, <2>3, <2>4 DEF WithCount
  <2>6. ~TakesOnly(items, divided)
    BY <2>2, <2>5 DEF TakesOnly, AtLocation
  <2> QED
    BY <2>1, <2>6, CommitRecovers
<1>3. ASSUME NEW p \in Players, NEW i \in Instances, Reposition(p, i) \/ Retire(p, i)
      PROVE  FilesRecover'
  <2>1. PICK present, item :
          /\ AcceptsWorldItem(i)
          /\ CommitWorldItem(p, i, present, item, items, profile[p].inventory)
    BY <1>3, Zenon DEF Reposition, Retire
  <2> QED
    BY <2>1, CommitRecovers
<1>4. ASSUME NEW p \in Players, NEW i \in Instances, PickUp(p, i)
      PROVE  FilesRecover'
  <2> DEFINE moved == Move(items, i, p)
             grown == [profile[p].inventory EXCEPT ![i] = items[i].item]
             here == FALSE
  <2>1. /\ AcceptsWorldItem(i) /\ CanMove(items, i, World)
        /\ CommitWorldItem(p, i, here, NoItem, moved, grown)
    BY <1>4 DEF PickUp, CanMove
  <2> HIDE DEF moved, grown, here
  <2>2. /\ moved[i] = [item |-> items[i].item, location |-> p]
        /\ moved[i] # Unregistered
        /\ \A j \in Instances \ {i} : moved[j] = items[j]
    BY <1>0, <2>1, MoveTyped DEF moved, Locations
  <2>3. OnlyPlayersGain(items, moved)
    BY <2>2 DEF OnlyPlayersGain, HeldByPlayer, AtLocation
  <2> QED
    BY <2>1, <2>3, CommitRecovers
<1>5. ASSUME NEW p \in Players, NEW i \in Instances, NEW item \in Item,
             PickUpAuthored(p, i, item)
      PROVE  FilesRecover'
  <2> DEFINE registered == Register(items, i, item, p)
             grown == [profile[p].inventory EXCEPT ![i] = item]
             here == FALSE
  <2>1. /\ AcceptsWorldItem(i)
        /\ CommitWorldItem(p, i, here, NoItem, registered, grown)
    BY <1>5 DEF PickUpAuthored
  <2> HIDE DEF registered, grown, here
  <2>2. /\ registered[i] = [item |-> item, location |-> p]
        /\ registered[i] # Unregistered
        /\ \A j \in Instances \ {i} : registered[j] = items[j]
    BY <1>0, RegisterTyped DEF registered, Locations
  <2>3. OnlyPlayersGain(items, registered)
    BY <2>2 DEF OnlyPlayersGain, HeldByPlayer, AtLocation
  <2> QED
    BY <2>1, <2>3, CommitRecovers
<1> QED
  BY <1>1, <1>2, <1>3, <1>4, <1>5 DEF WorldItemUpdates

\* A write brings the files nearer to the ledger of the handler.
LEMMA WriteRecovers ==
    ASSUME IInv, FileInv, IInv', FileInv', up => FilesRecover, Persistence, up'
    PROVE  FilesRecover'
<1>0. /\ file \in Files /\ unsaved \in Unsaved
      /\ profile \in [Players -> ProfileRecord]
  BY DEF IInv, TypeOK
<1>all. ASSUME unsaved' = NothingUnsaved, before' = items'
        PROVE  FilesRecover'
  <2>1. /\ \A p \in Players : file'.profiles[p] = profile'[p]
        /\ file'.objects = object' /\ file'.items = worldItem'
    BY <1>all DEF FileInv, FilesFollow, NothingUnsaved
  <2>2. Recovers(file', items')
    BY <2>1 DEF IInv, LedgerAgrees, Recovers
  <2> QED
    BY <1>all, <2>2 DEF FilesRecover, NothingUnsaved
<1>1. ASSUME NEW p \in Players, WriteProfile(p)
      PROVE  FilesRecover'
  <2>1. /\ up /\ p \in unsaved.profiles /\ UNCHANGED memory
        /\ file' = [file EXCEPT !.profiles[p] = profile[p]]
        /\ unsaved' = [unsaved EXCEPT !.profiles = @ \ {p}]
        /\ before' = IF unsaved' = NothingUnsaved THEN items ELSE before
    BY <1>1 DEF WriteProfile
  <2>2. CASE unsaved' = NothingUnsaved
    BY <1>all, <2>1, <2>2 DEF memory
  <2>3. CASE unsaved' # NothingUnsaved
    <3>1. /\ Recovers(file, before) /\ before' = before /\ items' = items
          /\ TakesOnly(before, items) => OnlyPlayersGain(before, items)
      BY <2>1, <2>3 DEF FilesRecover, memory
    <3>2. /\ \A q \in Players : file'.profiles[q] = profile[q]
          /\ file'.objects = file.objects /\ file'.items = file.items
          /\ unsaved'.profiles = {}
      BY <1>0, <2>1 DEF FileInv, FilesFollow, Files, Unsaved
    <3>3. ASSUME TakesOnly(before, items)
          PROVE  Recovers(file', items)
      <4>1. ASSUME NEW i \in Instances, ~HeldByPlayer(items, i)
            PROVE  /\ \A g \in Containers :
                        file'.objects[g].inventory[i] = Held(items, g)[i]
                   /\ file'.items[i].present <=> AtLocation(items, i, World)
                   /\ file'.items[i].present => file'.items[i].item = items[i].item
        <5>1. items[i] = before[i]
          BY <3>1, <3>3, <4>1 DEF OnlyPlayersGain
        <5>2. ~HeldByPlayer(before, i)
          BY <4>1, <5>1 DEF HeldByPlayer, AtLocation
        <5> QED
          BY <3>1, <3>2, <5>1, <5>2 DEF Recovers, Held, AtLocation
      <4>2. \A i \in Instances, q \in Players :
              file'.profiles[q].inventory[i] = Held(items, q)[i]
        BY <2>1, <3>2 DEF IInv, LedgerAgrees
      <4> QED
        BY <4>1, <4>2 DEF Recovers
    <3> QED
      BY <2>3, <3>1, <3>2, <3>3 DEF FilesRecover
  <2> QED
    BY <2>2, <2>3
<1>2. CASE WriteObjects
  <2>1. /\ up /\ unsaved.profiles = {} /\ unsaved.objects /\ UNCHANGED memory
        /\ file' = [file EXCEPT !.objects = object]
        /\ unsaved' = [unsaved EXCEPT !.objects = FALSE]
        /\ before' = IF unsaved' = NothingUnsaved THEN items ELSE before
    BY <1>2 DEF WriteObjects
  <2>2. CASE unsaved' = NothingUnsaved
    BY <1>all, <2>1, <2>2 DEF memory
  <2>3. CASE unsaved' # NothingUnsaved
    <3>1. /\ before' = before /\ items' = items
          /\ file'.profiles = file.profiles /\ file'.objects = object
          /\ file'.items = file.items
          /\ unsaved'.profiles = {} /\ unsaved.items
      BY <1>0, <2>1, <2>3 DEF Files, Unsaved, NothingUnsaved, memory
    <3>2. TakesOnly(before, items) => Recovers(file, items)
      BY <2>1, <3>1 DEF FilesRecover
    <3>3. Recovers(file, items) => Recovers(file', items)
      BY <2>1, <3>1 DEF Recovers, IInv, LedgerAgrees
    <3> QED
      BY <2>3, <3>1, <3>2, <3>3 DEF FilesRecover
  <2> QED
    BY <2>2, <2>3
<1>3. CASE WriteItems
  <2>1. /\ unsaved.profiles = {} /\ ~unsaved.objects /\ UNCHANGED memory
        /\ unsaved' = [unsaved EXCEPT !.items = FALSE]
        /\ before' = IF unsaved' = NothingUnsaved THEN items ELSE before
    BY <1>3 DEF WriteItems
  <2>2. unsaved' = NothingUnsaved
    BY <1>0, <2>1 DEF Unsaved, NothingUnsaved
  <2> QED
    BY <1>all, <2>1, <2>2 DEF memory
<1>4. CASE Crash
  BY <1>4 DEF Crash
<1>5. CASE Restart
  <2>1. /\ file' = file /\ Loadable(file)
        /\ items' = RecoveredLedger(file) /\ before' = items'
        /\ unsaved'.profiles = {}
    BY <1>5 DEF Restart
  <2>2. /\ ProfileLedger(file) \in Ledgers /\ RecoveredLedger(file) \in Ledgers
        /\ \A i \in Instances :
            /\ \A p \in Players :
                file.profiles[p].inventory[i] = Held(RecoveredLedger(file), p)[i]
            /\ \A g \in Containers :
                RecoveredObjects(file)[g].inventory[i] =
                    Held(RecoveredLedger(file), g)[i]
            /\ RecoveredItems(file)[i].present <=>
                    AtLocation(RecoveredLedger(file), i, World)
            /\ RecoveredItems(file)[i].present =>
                    RecoveredItems(file)[i].item = RecoveredLedger(file)[i].item
    BY <1>0, <2>1, RecoveredTyped
  <2>3. /\ file.objects \in [Containers -> ObjectRecord]
        /\ file.items \in [Instances -> WorldItemRecord]
    BY <1>0 DEF Files
  <2>4. ASSUME NEW i \in Instances, ~HeldByPlayer(RecoveredLedger(file), i)
        PROVE  ~HeldByPlayer(ProfileLedger(file), i)
    <3>1. ASSUME ProfileLedger(file)[i] # Unregistered
          PROVE  RecoveredLedger(file)[i] = ProfileLedger(file)[i]
      BY <3>1 DEF RecoveredLedger
    <3> QED
      BY <2>4, <3>1 DEF HeldByPlayer, AtLocation
  <2>5. ASSUME NEW i \in Instances, ~HeldByPlayer(RecoveredLedger(file), i)
        PROVE  /\ \A g \in Containers :
                    RecoveredObjects(file)[g].inventory[i] =
                        file.objects[g].inventory[i]
               /\ RecoveredItems(file)[i].present <=> file.items[i].present
               /\ RecoveredItems(file)[i].present =>
                    RecoveredItems(file)[i].item = file.items[i].item
    BY <2>2, <2>3, <2>4, <2>5, StripOwnedTyped, RetireOwnedTyped
    DEF RecoveredObjects, RecoveredItems
  <2>6. Recovers(file', items')
    BY <2>1, <2>2, <2>5 DEF Recovers
  <2> QED
    BY <2>1, <2>6 DEF FilesRecover
<1> QED
  BY <1>1, <1>2, <1>3, <1>4, <1>5 DEF Persistence

LEMMA RecoveryInvariance == Spec => []RecoveryInv
<1>1. Init => RecoveryInv
  <2> SUFFICES ASSUME Init PROVE RecoveryInv
    OBVIOUS
  <2>1. IInv /\ up
    BY InitEstablishes DEF Init
  <2>2. UnknownIsEmpty(object) /\ UnknownIsEmpty(file.objects) /\ StagedTakes
    BY DEF Init, UnknownIsEmpty, UnknownObject, EmptyInventory, StagedTakes
  <2>3. Recovers(file, items)
    BY <2>1 DEF IInv, LedgerAgrees, Recovers, Init
  <2>4. before = items /\ unsaved.profiles = {}
    BY DEF Init, NothingUnsaved
  <2>5. FilesRecover
    BY <2>3, <2>4 DEF FilesRecover
  <2> QED
    BY <2>2, <2>5 DEF RecoveryInv
<1>2. ASSUME IInv, FileInv, IInv', FileInv', RecoveryInv, [Next]_vars
      PROVE  RecoveryInv'
  <2>1. CASE UNCHANGED vars
    BY <1>2, <2>1 DEF RecoveryInv, FilesRecover, StagedTakes, vars
  <2>2. CASE Next
    <3>1. /\ UnknownIsEmpty(object) /\ UnknownIsEmpty(file.objects)
          /\ StagedTakes
          /\ up => FilesRecover
      BY <1>2 DEF RecoveryInv
    <3>2. UnknownIsEmpty(object)' /\ UnknownIsEmpty(file.objects)'
      BY <1>2, <2>2, <3>1, UnknownStaysEmpty
    <3>3. StagedTakes'
      BY <1>2, <2>2, <3>1, TakesInvariant
    <3>4. up' => FilesRecover'
      BY <1>2, <2>2, <3>1, UpdateRecovers, ObjectUpdateRecovers,
         WorldItemRecovers, WriteRecovers DEF Next
    <3> QED
      BY <3>2, <3>3, <3>4 DEF RecoveryInv
  <2> QED
    BY <1>2, <2>1, <2>2
<1> QED
  BY <1>1, <1>2, Invariance, FilesInvariance, PTL DEF Spec

\* Whatever write a crash falls behind, in whichever handler, the constructor
\* can register every item of the files: the server starts again.
THEOREM StoreLoads == Spec => []StoreIsLoadable
<1>1. IInv /\ FileInv => StoreIsLoadable
  BY ApartIsLoadable DEF IInv, TypeOK, FileInv, StoreIsLoadable
<1> QED
  BY <1>1, Invariance, FilesInvariance, PTL

\* A handler that only takes whole instances to players survives a crash at
\* every one of its writes: the profile is written first, and what it holds
\* the constructor takes out of the containers and the world.
THEOREM TakesSurviveCrash == Spec => []WholeTakesSurviveCrash
<1>1. IInv /\ RecoveryInv => WholeTakesSurviveCrash
  <2> SUFFICES ASSUME IInv, RecoveryInv, up, TakesOnly(before, items)
               PROVE  RecoveredLedger(file) \in {before, items}
    BY DEF WholeTakesSurviveCrash, TakesOnly
  <2>1. file \in Files /\ before \in Ledgers /\ items \in Ledgers
    BY DEF IInv, TypeOK
  <2>2. Recovers(file, before) \/ Recovers(file, items)
    BY DEF RecoveryInv, FilesRecover
  <2> QED
    BY <2>1, <2>2, RecoversLedger
<1> QED
  BY <1>1, Invariance, RecoveryInvariance, PTL

\* If the process stops only between handlers, the files of a stopped server
\* say what its last handler left.
Stopped == ~up => Recovers(file, items)

\* A step stops the process, starts it, or runs in it.  A step that runs in it
\* changes a profile only to write it.
LEMMA StepsRun ==
    ASSUME IInv, Next
    PROVE  \/ Crash
           \/ Restart /\ ~up /\ up'
           \/ /\ up /\ up'
              /\ \A p \in Players :
                    profile'[p] # profile[p] => unsaved'.profiles = {p}
<1>1. CASE ProfileUpdates
  <2>1. PICK p \in Players, accepted \in Inventories : HandleProfileUpdate(p, accepted)
    BY <1>1 DEF ProfileUpdates
  <2>2. /\ up /\ up' /\ unsaved'.profiles = {p}
        /\ \A q \in Players \ {p} : profile'[q] = profile[q]
    BY <2>1 DEF HandleProfileUpdate, Idle, IInv, TypeOK
  <2> QED
    BY <2>2
<1>2. CASE ObjectUpdates
  <2>1. CASE CommitObjectUpdate
    <3>1. /\ up /\ up' /\ tx \in Transactions
          /\ unsaved'.profiles = IF tx.changed THEN {tx.player} ELSE {}
          /\ \A q \in Players : q # tx.player \/ ~tx.changed => profile'[q] = profile[q]
      BY <2>1 DEF CommitObjectUpdate, InObjectUpdate, IInv, TypeOK
    <3> QED
      BY <3>1
  <2>2. CASE ~CommitObjectUpdate
    <3>1. UNCHANGED <<memory, up>> /\ up
      BY <1>2, <2>2 DEF ObjectUpdates, BeginObjectUpdate, TakeItem, WithdrawItem,
                RejectObjectUpdate, GrowContainerStack, SplitIntoContainer,
                RegisterContents, Deposit, WithdrawIntoStack, WithdrawWhole,
                KeepsRest, InObjectUpdate, Idle
    <3> QED
      BY <3>1 DEF memory
  <2> QED
    BY <2>1, <2>2
<1>3. CASE WorldItemUpdates
  <2>1. PICK p \in Players, i \in Instances :
          \/ DropWhole(p, i)
          \/ \E source \in Instances, count \in 1..MaxItemCount :
                DropPart(p, source, i, count)
          \/ Reposition(p, i)
          \/ PickUp(p, i)
          \/ \E item \in Item : PickUpAuthored(p, i, item)
          \/ Retire(p, i)
    BY <1>3, Zenon DEF WorldItemUpdates
  <2>2. PICK present, item, ledger, inventory :
          /\ AcceptsWorldItem(i)
          /\ CommitWorldItem(p, i, present, item, ledger, inventory)
    <3> DEFINE Commits == \E present, item, ledger, inventory :
                            /\ AcceptsWorldItem(i)
                            /\ CommitWorldItem(p, i, present, item, ledger, inventory)
    <3>1. /\ DropWhole(p, i) => Commits
          /\ \A source, count : DropPart(p, source, i, count) => Commits
          /\ Reposition(p, i) => Commits
      BY Zenon DEF DropWhole, DropPart, Reposition
    <3>2. /\ PickUp(p, i) => Commits
          /\ \A item : PickUpAuthored(p, i, item) => Commits
          /\ Retire(p, i) => Commits
      BY Zenon DEF PickUp, PickUpAuthored, Retire
    <3> HIDE DEF Commits
    <3>3. Commits
      BY <2>1, <3>1, <3>2, Zenon
    <3> QED
      BY <3>3 DEF Commits
  <2>3. /\ up /\ up'
        /\ unsaved' = [profiles |-> IF inventory = profile[p].inventory THEN {} ELSE {p},
                       objects |-> FALSE, items |-> TRUE]
    BY <2>2 DEF AcceptsWorldItem, CommitWorldItem, Idle
  <2>4. CASE inventory = profile[p].inventory
    BY <2>2, <2>3, <2>4 DEF CommitWorldItem
  <2>5. CASE inventory # profile[p].inventory
    <3>1. profile' = [profile EXCEPT ![p] = [revision |-> profile[p].revision + 1,
                                             inventory |-> inventory]]
      BY <2>2, <2>5 DEF CommitWorldItem
    <3> QED
      BY <2>3, <2>5, <3>1 DEF IInv, TypeOK
  <2> QED
    BY <2>4, <2>5
<1>4. CASE Persistence
  BY <1>4 DEF Persistence, WriteProfile, WriteObjects, WriteItems, Restart, memory
<1> QED
  BY <1>1, <1>2, <1>3, <1>4 DEF Next

LEMMA StoppedInvariance ==
    ASSUME ~CrashInHandler
    PROVE  Spec => []Stopped
<1>1. Init => Stopped
  BY DEF Init, Stopped
<1>2. ASSUME IInv, FileInv, Stopped, [Next]_vars
      PROVE  Stopped'
  <2>1. CASE UNCHANGED vars
    BY <1>2, <2>1 DEF Stopped, vars
  <2>2. CASE Crash
    <3>1. /\ Idle /\ UNCHANGED <<memory, file>>
      BY <2>2 DEF Crash
    <3>2. /\ \A p \in Players : file.profiles[p] = profile[p]
          /\ file.objects = object /\ file.items = worldItem
      BY <1>2, <3>1 DEF FileInv, FilesFollow, Idle, NothingUnsaved
    <3>3. Recovers(file, items)
      BY <1>2, <3>1, <3>2 DEF IInv, LedgerAgrees, Recovers, Idle
    <3> QED
      BY <3>1, <3>3 DEF Stopped, memory
  <2>3. CASE Next /\ ~Crash
    BY <1>2, <2>3, StepsRun DEF Stopped
  <2> QED
    BY <1>2, <2>1, <2>2, <2>3
<1> QED
  BY <1>1, <1>2, Invariance, FilesInvariance, PTL DEF Spec

\* A restart finds the owners of the last handler, if the process stops only
\* between handlers: each of them writes everything that it has changed.
THEOREM RestartFindsOwners ==
    ASSUME ~CrashInHandler
    PROVE  Spec => RestartRestoresOwners
<1>1. IInv /\ Stopped /\ [Next]_vars => [~up /\ up' => items' = items]_vars
  <2> SUFFICES ASSUME IInv, Stopped, Next, ~up, up' PROVE items' = items
    BY DEF vars
  <2>1. Restart
    BY StepsRun DEF Crash
  <2>2. items' = RecoveredLedger(file)
    BY <2>1 DEF Restart
  <2>3. Recovers(file, items) /\ file \in Files /\ items \in Ledgers
    BY DEF Stopped, IInv, TypeOK
  <2> QED
    BY <2>2, <2>3, RecoversLedger
<1> QED
  BY <1>1, Invariance, StoppedInvariance, PTL DEF Spec, RestartRestoresOwners

\* No handler changes what a player has but of the one player whose profile it
\* writes: nobody's message takes from another or gives to another.
THEOREM OthersUntouched == Spec => OthersKeepTheirs
<1> DEFINE Keeps == up /\ up' => \A p \in Players :
                        Held(items', p) # Held(items, p) => unsaved'.profiles = {p}
<1>1. IInv /\ IInv' /\ [Next]_vars => [Keeps]_vars
  <2> SUFFICES ASSUME IInv, IInv', Next, up, up', NEW p \in Players,
                      Held(items', p) # Held(items, p)
               PROVE  unsaved'.profiles = {p}
    BY DEF vars
  <2>1. /\ \A i \in Instances : profile[p].inventory[i] = Held(items, p)[i]
        /\ \A i \in Instances : profile'[p].inventory[i] = Held(items', p)[i]
    BY DEF IInv, LedgerAgrees
  <2>2. profile'[p] # profile[p]
    <3>1. SUFFICES ASSUME profile'[p] = profile[p] PROVE FALSE
      OBVIOUS
    <3>2. \A i \in Instances : Held(items', p)[i] = Held(items, p)[i]
      BY <2>1, <3>1
    <3> QED
      BY <3>2 DEF Held
  <2>3. ~Crash /\ ~Restart
    BY DEF Crash, Restart
  <2> QED
    BY <2>2, <2>3, StepsRun
<1> QED
  BY <1>1, Invariance, PTL DEF Spec, OthersKeepTheirs

---------------------------------------------------------------------------
(* The ledger changes as Ownership promises.                               *)

\* Between two ledgers nothing moves from one place outside the inventories to
\* another.
PlacesStay(old, new) ==
    \A i \in Instances :
        \/ old[i] = Unregistered \/ HeldByPlayer(old, i)
        \/ new[i] = Unregistered \/ HeldByPlayer(new, i)
        \/ old[i].location = new[i].location

\* The files of the containers, or of the world items, have of an instance what
\* a ledger has.
ObjectsSay(f, ledger, i) ==
    \A g \in Containers : f.objects[g].inventory[i] = Held(ledger, g)[i]

WorldSays(f, ledger, i) ==
    /\ f.items[i].present <=> AtLocation(ledger, i, World)
    /\ f.items[i].present => f.items[i].item = ledger[i].item

FilesSay(f, ledger) ==
    \A i \in Instances :
        /\ \A p \in Players : f.profiles[p].inventory[i] = Held(ledger, p)[i]
        /\ ObjectsSay(f, ledger, i)
        /\ WorldSays(f, ledger, i)

\* A file that is still to be written has what the handler began with.
HalfWritten ==
    /\ PlacesStay(before, items)
    /\ unsaved.profiles # {} => FilesSay(file, before)
    /\ \A i \in Instances : ~HeldByPlayer(items, i) =>
        /\ unsaved.objects => ObjectsSay(file, before, i)
        /\ unsaved.items => WorldSays(file, before, i)

\* Of an instance the files have what it was before the handler or what it is
\* after it, or nothing, if it left its player.
RestartFindsEach ==
    \A i \in Instances :
        \/ RecoveredLedger(file)[i] \in {before[i], items[i]}
        \/ /\ RecoveredLedger(file)[i] = Unregistered
           /\ HeldByPlayer(before, i)
           /\ ~HeldByPlayer(items, i)

OwnersInv == (up => HalfWritten) /\ RestartFindsEach

\* What the constructor makes of an instance that no profile has.
LEMMA RecoversOutside ==
    ASSUME NEW f \in Files, NEW i \in Instances,
           \A p \in Players : f.profiles[p].inventory[i] = NoItem,
           NEW inside, NEW world,
           inside = Unregistered \/ inside \in Entry, 
           world = Unregistered \/ world \in Entry,
           \A g \in Containers : f.objects[g].inventory[i] =
                IF inside # Unregistered /\ inside.location = g
                THEN inside.item ELSE NoItem,
           f.items[i].present <=> world # Unregistered /\ world.location = World,
           f.items[i].present => f.items[i].item = world.item
    PROVE  RecoveredLedger(f)[i] =
                IF inside # Unregistered /\ inside.location \in Containers
                THEN inside
                ELSE IF world # Unregistered /\ world.location = World
                THEN world ELSE Unregistered
<1>1. ProfileLedger(f)[i] = Unregistered
  BY DEF ProfileLedger
<1>2. RecoveredLedger(f)[i] =
        IF \E g \in Containers : f.objects[g].inventory[i] # NoItem
        THEN LET g == CHOOSE h \in Containers : f.objects[h].inventory[i] # NoItem
             IN  [item |-> f.objects[g].inventory[i], location |-> g]
        ELSE IF f.items[i].present
        THEN [item |-> f.items[i].item, location |-> World]
        ELSE Unregistered
  BY <1>1 DEF RecoveredLedger
<1>3. CASE inside # Unregistered /\ inside.location \in Containers
  <2>1. inside \in Entry /\ inside.item # NoItem
    BY <1>3, NoItemIsNoItem DEF Entry
  <2>2. \A g \in Containers :
          f.objects[g].inventory[i] # NoItem <=> g = inside.location
    BY <1>3, <2>1
  <2>3. PICK g \in Containers :
          /\ g = CHOOSE h \in Containers : f.objects[h].inventory[i] # NoItem
          /\ f.objects[g].inventory[i] # NoItem
    BY <1>3, <2>2
  <2>4. g = inside.location /\ f.objects[g].inventory[i] = inside.item
    BY <1>3, <2>2, <2>3
  <2>5. RecoveredLedger(f)[i] = [item |-> inside.item, location |-> inside.location]
    BY <1>2, <2>3, <2>4
  <2> QED
    BY <1>3, <2>1, <2>5 DEF Entry
<1>4. CASE ~(inside # Unregistered /\ inside.location \in Containers)
  <2>1. \A g \in Containers : f.objects[g].inventory[i] = NoItem
    BY <1>4
  <2>2. RecoveredLedger(f)[i] = IF f.items[i].present
                                THEN [item |-> f.items[i].item, location |-> World]
                                ELSE Unregistered
    BY <1>2, <2>1
  <2> QED
    BY <1>4, <2>2 DEF Entry
<1> QED
  BY <1>3, <1>4

\* What the profile of a player has, that player has after a restart.
LEMMA RecoversInside ==
    ASSUME NEW f \in Files, NEW ledger \in Ledgers, NEW i \in Instances,
           \A q \in Players : f.profiles[q].inventory[i] = Held(ledger, q)[i],
           HeldByPlayer(ledger, i)
    PROVE  RecoveredLedger(f)[i] = ledger[i]
<1>1. PICK p \in Players : AtLocation(ledger, i, p)
  BY DEF HeldByPlayer, AtLocation
<1>2. ledger[i] \in Entry
  BY <1>1 DEF AtLocation, Ledgers
<1>3. \A q \in Players : f.profiles[q].inventory[i] # NoItem <=> q = p
  BY <1>1, HeldTyped DEF AtLocation
<1>4. (CHOOSE q \in Players : f.profiles[q].inventory[i] # NoItem) = p
  BY <1>3
<1>5. ProfileLedger(f)[i] = [item |-> f.profiles[p].inventory[i], location |-> p]
  BY <1>3, <1>4 DEF ProfileLedger
<1>6. f.profiles[p].inventory[i] = ledger[i].item
  BY <1>1, HeldTyped
<1>7. ProfileLedger(f)[i] = ledger[i]
  BY <1>1, <1>2, <1>5, <1>6 DEF AtLocation, Entry
<1> QED
  BY <1>2, <1>7, UnregisteredIsNoEntry DEF RecoveredLedger

\* Half-written files give each instance its entry of before or after.
LEMMA HalfWrittenRecovers ==
    ASSUME IInv, FileInv, HalfWritten, up
    PROVE  RestartFindsEach
<1>1. /\ file \in Files /\ before \in Ledgers /\ items \in Ledgers
      /\ unsaved \in Unsaved
  BY DEF IInv, TypeOK
<1>2. CASE unsaved.profiles # {}
  <2>1. Recovers(file, before)
    BY <1>2 DEF HalfWritten, FilesSay, ObjectsSay, WorldSays, Recovers
  <2>2. RecoveredLedger(file) = before
    BY <1>1, <2>1, RecoversLedger
  <2> QED
    BY <2>2 DEF RestartFindsEach
<1>3. CASE unsaved.profiles = {}
  <2> SUFFICES ASSUME NEW i \in Instances
               PROVE  \/ RecoveredLedger(file)[i] \in {before[i], items[i]}
                      \/ /\ RecoveredLedger(file)[i] = Unregistered
                         /\ HeldByPlayer(before, i)
                         /\ ~HeldByPlayer(items, i)
    BY DEF RestartFindsEach
  <2>1. \A p \in Players : file.profiles[p].inventory[i] = Held(items, p)[i]
    BY <1>3 DEF FileInv, FilesFollow, IInv, LedgerAgrees
  <2>2. CASE HeldByPlayer(items, i)
    BY <1>1, <2>1, <2>2, RecoversInside
  <2>3. CASE ~HeldByPlayer(items, i)
    <3> DEFINE inside == IF unsaved.objects THEN before[i] ELSE items[i]
               world == IF unsaved.items THEN before[i] ELSE items[i]
    <3>1. \A p \in Players : file.profiles[p].inventory[i] = NoItem
      BY <2>1, <2>3, HeldTyped, <1>1 DEF HeldByPlayer, AtLocation
    <3>2. /\ before[i] = Unregistered \/ before[i] \in Entry
          /\ items[i] = Unregistered \/ items[i] \in Entry
      BY <1>1 DEF Ledgers
    <3>3. /\ inside = Unregistered \/ inside \in Entry
          /\ world = Unregistered \/ world \in Entry
      BY <3>2
    <3>4. ASSUME NEW g \in Containers
          PROVE  file.objects[g].inventory[i] =
                    IF inside # Unregistered /\ inside.location = g
                    THEN inside.item ELSE NoItem
      <4>1. CASE unsaved.objects
        <5>1. file.objects[g].inventory[i] = Held(before, g)[i]
          BY <2>3, <4>1 DEF HalfWritten, ObjectsSay
        <5> QED
          BY <4>1, <5>1 DEF Held, AtLocation
      <4>2. CASE ~unsaved.objects
        <5>1. file.objects[g].inventory[i] = Held(items, g)[i]
          BY <4>2 DEF FileInv, FilesFollow, IInv, LedgerAgrees
        <5> QED
          BY <4>2, <5>1 DEF Held, AtLocation
      <4> QED
        BY <4>1, <4>2
    <3>5. /\ file.items[i].present <=> world # Unregistered /\ world.location = World
          /\ file.items[i].present => file.items[i].item = world.item
      <4>1. CASE unsaved.items
        <5>1. WorldSays(file, before, i)
          BY <2>3, <4>1 DEF HalfWritten
        <5> QED
          BY <4>1, <5>1 DEF WorldSays, AtLocation
      <4>2. CASE ~unsaved.items
        <5>1. file.items = worldItem
          BY <4>2 DEF FileInv, FilesFollow
        <5> QED
          BY <4>2, <5>1 DEF IInv, LedgerAgrees, AtLocation
      <4> QED
        BY <4>1, <4>2
    <3>6. RecoveredLedger(file)[i] =
            IF inside # Unregistered /\ inside.location \in Containers
            THEN inside
            ELSE IF world # Unregistered /\ world.location = World
            THEN world ELSE Unregistered
      <4> HIDE DEF inside, world
      <4> QED
        BY <1>1, <3>1, <3>3, <3>4, <3>5, RecoversOutside, ZenonT(60)
    <3>7. \/ before[i] = Unregistered \/ HeldByPlayer(before, i)
          \/ items[i] = Unregistered
          \/ before[i].location = items[i].location
      BY <2>3 DEF HalfWritten, PlacesStay
    <3>8. /\ items[i] = Unregistered \/ items[i].location \in Containers \cup {World}
          /\ before[i] = Unregistered \/ HeldByPlayer(before, i)
             \/ before[i].location \in Containers \cup {World}
      BY <2>3, <3>2 DEF Entry, Locations, HeldByPlayer, AtLocation
    <3>9. CASE HeldByPlayer(before, i)
      <4>1. before[i] # Unregistered /\ before[i].location \notin Containers \cup {World}
        BY <3>9, PlacesAreDistinct DEF HeldByPlayer, AtLocation
      <4> QED
        BY <2>3, <3>6, <3>8, <3>9, <4>1
    <3>10. CASE ~HeldByPlayer(before, i)
      <4>1. World \notin Containers
        BY PlacesAreDistinct
      <4> QED
        BY <3>6, <3>7, <3>8, <3>10, <4>1
    <3> QED
      BY <3>9, <3>10
  <2> QED
    BY <2>2, <2>3
<1> QED
  BY <1>2, <1>3

\* From one ledger to the next things changed at player p, or at a place
\* outside the inventories, only.
Trade(p, place, old, new) ==
    \A i \in Instances : new[i] # old[i] =>
        /\ old[i] = Unregistered \/ Owners!At(old, i, {p, place})
        /\ new[i] = Unregistered \/ Owners!At(new, i, {p, place})

Reported(p, old, new) ==
    \A i \in Instances : new[i] # old[i] =>
        /\ ~Owners!At(old, i, Players \ {p})
        /\ \/ Owners!At(new, i, {p})
           \/ Owners!At(old, i, {p}) /\ new[i] = Unregistered

\* Of both kinds is known that they move nothing between two such places.
LEMMA TradeStays ==
    ASSUME NEW p \in Players, NEW place, NEW old, NEW new,
           Trade(p, place, old, new)
    PROVE  PlacesStay(old, new)
BY DEF Trade, PlacesStay, Owners!At, HeldByPlayer, AtLocation

LEMMA ReportStays ==
    ASSUME NEW p \in Players, NEW old, NEW new, Reported(p, old, new)
    PROVE  PlacesStay(old, new)
BY DEF Reported, PlacesStay, Owners!At, HeldByPlayer, AtLocation

LEMMA UpdateReports ==
    ASSUME IInv, NEW p \in Players, NEW accepted \in Inventories,
           OwnershipAllows(p, items, accepted)
    PROVE  Reported(p, items, SettledLedger(p, items, accepted))
<1> DEFINE ledger == SettledLedger(p, items, accepted)
<1> SUFFICES ASSUME NEW i \in Instances, ledger[i] # items[i]
             PROVE  /\ ~Owners!At(items, i, Players \ {p})
                    /\ \/ Owners!At(ledger, i, {p})
                       \/ Owners!At(items, i, {p}) /\ ledger[i] = Unregistered
  BY DEF Reported
<1>1. CASE accepted[i] # NoItem
  <2>1. ledger[i] = [item |-> accepted[i], location |-> p]
    BY <1>1 DEF SettledLedger
  <2>2. ledger[i] \in Entry
    BY <1>1, <2>1 DEF Inventories, Entry, Locations
  <2>3. Owners!At(ledger, i, {p})
    BY <2>1, <2>2, UnregisteredIsNoEntry DEF Owners!At
  <2>4. ~Owners!At(items, i, Players \ {p})
    BY <1>1 DEF OwnershipAllows, Requested, Owners!At
  <2> QED
    BY <2>3, <2>4
<1>2. CASE accepted[i] = NoItem
  <2>1. ledger[i] = IF AtLocation(items, i, p) THEN Unregistered ELSE items[i]
    BY <1>2 DEF SettledLedger
  <2> QED
    BY <2>1 DEF AtLocation, Owners!At
<1> QED
  BY <1>1, <1>2

LEMMA StagedTrades ==
    ASSUME IInv, tx # NoTransaction
    PROVE  /\ tx.player \in Players /\ tx.guid \in Containers
           /\ Trade(tx.player, tx.guid, items, tx.ledger)
<1>1. /\ tx.player \in Players /\ tx.guid \in Containers /\ tx.ledger \in Ledgers
      /\ items \in Ledgers
  BY StagedFacts DEF IInv, TypeOK
<1>2. \A other \in Locations \ {tx.player, tx.guid}, i \in Instances :
        Held(tx.ledger, other)[i] = Held(items, other)[i]
  BY DEF IInv, StagedAgrees, StagedContents
<1>3. ASSUME NEW i \in Instances, NEW one \in Ledgers, NEW two \in Ledgers,
             one[i] # two[i], one[i] # Unregistered,
             one[i].location \notin {tx.player, tx.guid},
             \A other \in Locations \ {tx.player, tx.guid} :
                Held(one, other)[i] = Held(two, other)[i]
      PROVE  FALSE
  <2>1. one[i] \in Entry
    BY <1>3 DEF Ledgers
  <2>2. one[i].location \in Locations \ {tx.player, tx.guid}
    BY <1>3, <2>1 DEF Entry
  <2>3. Held(two, one[i].location)[i] = Held(one, one[i].location)[i]
    BY <1>3, <2>2
  <2>4. AtLocation(one, i, one[i].location)
    BY <1>3 DEF AtLocation
  <2>5. AtLocation(two, i, one[i].location) /\ two[i].item = one[i].item
    BY <1>3, <2>3, <2>4, HeldTyped
  <2>6. two[i] \in Entry
    BY <1>3, <2>5 DEF AtLocation, Ledgers
  <2> QED
    BY <1>3, <2>1, <2>5, <2>6 DEF AtLocation, Entry
<1> QED
  BY <1>1, <1>2, <1>3 DEF Trade, Owners!At

LEMMA WorldItemTrades ==
    ASSUME IInv, IInv', WorldItemUpdates
    PROVE  /\ Idle /\ file' = file /\ before' = items /\ tx' = tx
           /\ \E p \in Players : Trade(p, World, items, items')
<1>1. PICK p \in Players, i \in Instances :
        \/ DropWhole(p, i)
        \/ \E source \in Instances, count \in 1..MaxItemCount :
              DropPart(p, source, i, count)
        \/ Reposition(p, i)
        \/ PickUp(p, i)
        \/ \E item \in Item : PickUpAuthored(p, i, item)
        \/ Retire(p, i)
  BY Zenon DEF WorldItemUpdates
<1>2. items \in Ledgers
  BY DEF IInv, TypeOK
<1>3. ASSUME NEW present, NEW item, NEW ledger, NEW inventory,
             CommitWorldItem(p, i, present, item, ledger, inventory)
      PROVE  file' = file /\ before' = items /\ tx' = tx /\ items' = ledger
  BY <1>3 DEF CommitWorldItem
<1>4. Idle /\ file' = file /\ before' = items /\ tx' = tx
  BY <1>1, <1>3, Zenon DEF DropWhole, DropPart, Reposition, PickUp,
                          PickUpAuthored, Retire, AcceptsWorldItem
<1>5. ASSUME NEW one \in Instances, NEW two \in Instances, items' \in Ledgers,
             \A j \in Instances \ {one, two} : items'[j] = items[j],
             \A j \in {one, two} :
                /\ items[j] = Unregistered \/ items[j].location \in {p, World}
                /\ items'[j] = Unregistered \/ items'[j].location \in {p, World}
      PROVE  Trade(p, World, items, items')
  BY <1>5 DEF Trade, Owners!At
<1>6. p \in Locations /\ World \in Locations /\ items' \in Ledgers
  <2>1. items' \in Ledgers
    BY DEF IInv, TypeOK
  <2> QED
    BY <2>1 DEF Locations
<1>7. ASSUME DropWhole(p, i)
      PROVE  Trade(p, World, items, items')
  <2>1. items' = Move(items, i, World) /\ AtLocation(items, i, p)
    BY <1>3, <1>7 DEF DropWhole, CanMove
  <2>2. /\ items'[i].location = World
        /\ \A j \in Instances \ {i} : items'[j] = items[j]
    BY <1>2, <2>1 DEF Move, Ledgers
  <2> QED
    BY <1>5, <1>6, <2>1, <2>2 DEF AtLocation
<1>8. ASSUME NEW source \in Instances, NEW count \in 1..MaxItemCount,
             DropPart(p, source, i, count)
      PROVE  Trade(p, World, items, items')
  <2>1. /\ items' = Split(items, source, i, count, World)
        /\ CanSplit(items, source, p, i, count)
    BY <1>3, <1>8 DEF DropPart
  <2>2. count \in Nat
    BY MaxItemCountIsPositive
  <2>3. /\ items'[source] = [item |-> WithCount(items[source].item,
                                        items[source].item.count - count),
                              location |-> p]
        /\ items'[i] = [item |-> WithCount(items[source].item, count),
                        location |-> World]
        /\ \A j \in Instances \ {source, i} : items'[j] = items[j]
    BY <1>2, <1>6, <2>1, <2>2, SplitTyped
  <2>4. items[source].location = p /\ items[i] = Unregistered
    BY <2>1 DEF CanSplit, AtLocation
  <2>5. items'[source].location = p /\ items'[i].location = World
    BY <2>3
  <2> QED
    BY <1>5, <1>6, <2>3, <2>4, <2>5
<1>9. ASSUME Reposition(p, i) \/ Retire(p, i)
      PROVE  Trade(p, World, items, items')
  <2>1. items' = items
    BY <1>3, <1>9 DEF Reposition, Retire
  <2> QED
    BY <2>1 DEF Trade
<1>10. ASSUME PickUp(p, i)
       PROVE  Trade(p, World, items, items')
  <2>1. items' = Move(items, i, p) /\ AtLocation(items, i, World)
    BY <1>3, <1>10 DEF PickUp
  <2>2. /\ items'[i].location = p
        /\ \A j \in Instances \ {i} : items'[j] = items[j]
    BY <1>2, <2>1 DEF Move, Ledgers
  <2> QED
    BY <1>5, <1>6, <2>1, <2>2 DEF AtLocation
<1>11. ASSUME NEW item \in Item, PickUpAuthored(p, i, item)
       PROVE  Trade(p, World, items, items')
  <2>1. items' = Register(items, i, item, p) /\ items[i] = Unregistered
    BY <1>3, <1>11 DEF PickUpAuthored, CanRegister
  <2>2. /\ items'[i].location = p
        /\ \A j \in Instances \ {i} : items'[j] = items[j]
    BY <1>2, <2>1 DEF Register, Ledgers
  <2> QED
    BY <1>5, <1>6, <2>1, <2>2
<1> QED
  BY <1>1, <1>4, <1>7, <1>8, <1>9, <1>10, <1>11

\* The files of a handler that has written nothing are the ledger's.
LEMMA HandlerHalf ==
    ASSUME IInv, FileInv, up, unsaved = NothingUnsaved,
           file' = file, before' = items, PlacesStay(items, items')
    PROVE  HalfWritten'
<1>1. /\ file.objects = object /\ file.items = worldItem
      /\ \A p \in Players : file.profiles[p] = profile[p]
  BY DEF FileInv, FilesFollow, NothingUnsaved
<1>2. FilesSay(file, items)
  BY <1>1 DEF IInv, LedgerAgrees, FilesSay, ObjectsSay, WorldSays
<1>3. \A i \in Instances : ObjectsSay(file, items, i) /\ WorldSays(file, items, i)
  BY <1>2 DEF FilesSay
<1>4. /\ PlacesStay(before', items')
      /\ FilesSay(file', before')
      /\ \A i \in Instances : ObjectsSay(file', before', i) /\ WorldSays(file', before', i)
  BY <1>2, <1>3
<1> QED
  BY <1>4 DEF HalfWritten

LEMMA WriteHalf ==
    ASSUME IInv, FileInv, up => HalfWritten, FilesRecover', Persistence, up'
    PROVE  HalfWritten'
<1>1. /\ file \in Files /\ unsaved \in Unsaved
  BY DEF IInv, TypeOK
<1>2. ASSUME NEW ledger PROVE PlacesStay(ledger, ledger)
  BY DEF PlacesStay
<1>3. ASSUME unsaved' = NothingUnsaved, before' = items'
      PROVE  HalfWritten'
  <2>1. PlacesStay(before', items')
    BY <1>2, <1>3
  <2>2. unsaved'.profiles = {} /\ ~unsaved'.objects /\ ~unsaved'.items
    BY <1>3 DEF NothingUnsaved
  <2> QED
    BY <2>1, <2>2 DEF HalfWritten
<1>4. ASSUME NEW p \in Players, WriteProfile(p)
      PROVE  HalfWritten'
  <2>1. /\ up /\ p \in unsaved.profiles /\ items' = items
        /\ file'.objects = file.objects /\ file'.items = file.items
        /\ unsaved' = [unsaved EXCEPT !.profiles = @ \ {p}]
        /\ before' = IF unsaved' = NothingUnsaved THEN items ELSE before
    BY <1>1, <1>4 DEF WriteProfile, memory, Files
  <2>2. CASE unsaved' = NothingUnsaved
    BY <1>3, <2>1, <2>2
  <2>3. CASE unsaved' # NothingUnsaved
    <3>1. /\ unsaved'.profiles = {} /\ unsaved'.objects = unsaved.objects
          /\ unsaved'.items = unsaved.items /\ before' = before
      BY <1>1, <2>1, <2>3 DEF FileInv, FilesFollow, Unsaved
    <3> QED
      BY <2>1, <3>1 DEF HalfWritten, ObjectsSay, WorldSays
  <2> QED
    BY <2>2, <2>3
<1>5. CASE WriteObjects
  <2>1. /\ up /\ unsaved.profiles = {} /\ items' = items
        /\ file'.items = file.items
        /\ unsaved' = [unsaved EXCEPT !.objects = FALSE]
        /\ before' = IF unsaved' = NothingUnsaved THEN items ELSE before
    BY <1>1, <1>5 DEF WriteObjects, memory, Files
  <2>2. CASE unsaved' = NothingUnsaved
    BY <1>3, <2>1, <2>2
  <2>3. CASE unsaved' # NothingUnsaved
    <3>1. /\ unsaved'.profiles = {} /\ ~unsaved'.objects
          /\ unsaved'.items = unsaved.items /\ before' = before
      BY <1>1, <2>1, <2>3 DEF Unsaved
    <3> QED
      BY <2>1, <3>1 DEF HalfWritten, WorldSays
  <2> QED
    BY <2>2, <2>3
<1>6. CASE WriteItems
  <2>1. /\ unsaved.profiles = {} /\ ~unsaved.objects /\ items' = items
        /\ unsaved' = [unsaved EXCEPT !.items = FALSE]
        /\ before' = IF unsaved' = NothingUnsaved THEN items ELSE before
    BY <1>6 DEF WriteItems, memory
  <2>2. unsaved' = NothingUnsaved
    BY <1>1, <2>1 DEF Unsaved, NothingUnsaved
  <2> QED
    BY <1>3, <2>1, <2>2
<1>7. CASE Restart
  <2>1. before' = items' /\ unsaved'.profiles = {}
    BY <1>7 DEF Restart
  <2>2. TakesOnly(items', items')
    BY DEF TakesOnly
  <2>3. Recovers(file', items')
    BY <2>1, <2>2 DEF FilesRecover
  <2>4. \A i \in Instances : ~HeldByPlayer(items', i) =>
            ObjectsSay(file', before', i) /\ WorldSays(file', before', i)
    BY <2>1, <2>3 DEF Recovers, ObjectsSay, WorldSays
  <2>5. PlacesStay(before', items')
    BY <1>2, <2>1
  <2> QED
    BY <2>1, <2>4, <2>5 DEF HalfWritten
<1>8. CASE Crash
  BY <1>8 DEF Crash
<1> QED
  BY <1>4, <1>5, <1>6, <1>7, <1>8 DEF Persistence

\* What a step of a handler is to the promise.
LEMMA HandlersAre ==
    ASSUME IInv, IInv', FileInv, RecoveryInv,
           ProfileUpdates \/ ObjectUpdates \/ WorldItemUpdates
    PROVE  /\ up /\ file' = file
           /\ \/ UNCHANGED <<items, before, unsaved>>
              \/ /\ unsaved = NothingUnsaved /\ before = items /\ before' = items
                 /\ \/ \E p \in Players : Reported(p, items, items')
                    \/ \E p \in Players, place \in Containers \cup {World} :
                            Trade(p, place, items, items')
<1>1. up /\ unsaved = NothingUnsaved => before = items
  BY DEF RecoveryInv, FilesRecover
<1>2. CASE ProfileUpdates
  <2>1. PICK p \in Players, accepted \in Inventories : HandleProfileUpdate(p, accepted)
    BY <1>2 DEF ProfileUpdates
  <2>2. /\ Idle /\ file' = file /\ before' = items
        /\ OwnershipAllows(p, items, accepted)
        /\ items' = SettledLedger(p, items, accepted)
    BY <2>1 DEF HandleProfileUpdate
  <2>3. Reported(p, items, items')
    BY <2>2, UpdateReports
  <2> QED
    BY <1>1, <2>2, <2>3 DEF Idle
<1>3. CASE ObjectUpdates
  <2>1. CASE CommitObjectUpdate
    <3>1. /\ up /\ tx # NoTransaction /\ file' = file /\ before' = items
          /\ items' = tx.ledger
      BY <2>1 DEF CommitObjectUpdate, InObjectUpdate
    <3>2. unsaved = NothingUnsaved
      BY <3>1 DEF FileInv, FilesFollow
    <3> QED
      BY <1>1, <3>1, <3>2, StagedTrades
  <2>2. CASE ~CommitObjectUpdate
    <3>1. UNCHANGED <<memory, file, unsaved, before>> /\ up
      BY <1>3, <2>2 DEF ObjectUpdates, BeginObjectUpdate, TakeItem, WithdrawItem,
                  RejectObjectUpdate, GrowContainerStack, SplitIntoContainer,
                  RegisterContents, Deposit, WithdrawIntoStack, WithdrawWhole,
                  KeepsRest, InObjectUpdate, Idle
    <3> QED
      BY <3>1 DEF memory
  <2> QED
    BY <2>1, <2>2
<1>4. CASE WorldItemUpdates
  BY <1>1, <1>4, WorldItemTrades DEF Idle
<1> QED
  BY <1>2, <1>3, <1>4

LEMMA HalfInvariance == Spec => [](up => HalfWritten)
<1>1. Init => HalfWritten
  <2>1. Init => before = items /\ unsaved = NothingUnsaved
    BY DEF Init
  <2> QED
    BY <2>1 DEF HalfWritten, PlacesStay, NothingUnsaved
<1>2. ASSUME IInv, FileInv, RecoveryInv, IInv', RecoveryInv', up => HalfWritten,
             [Next]_vars, up'
      PROVE  HalfWritten'
  <2>1. CASE UNCHANGED vars
    BY <1>2, <2>1 DEF vars, HalfWritten
  <2>2. CASE ProfileUpdates \/ ObjectUpdates \/ WorldItemUpdates
    <3>1. up /\ file' = file
      BY <1>2, <2>2, HandlersAre
    <3>2. CASE UNCHANGED <<items, before, unsaved>>
      BY <1>2, <3>1, <3>2 DEF HalfWritten
    <3>3. CASE ~UNCHANGED <<items, before, unsaved>>
      <4>1. /\ unsaved = NothingUnsaved /\ before' = items
            /\ \/ \E p \in Players : Reported(p, items, items')
               \/ \E p \in Players, place \in Containers \cup {World} :
                        Trade(p, place, items, items')
        BY <1>2, <2>2, <3>3, HandlersAre
      <4>2. PlacesStay(items, items')
        BY <4>1, ReportStays, TradeStays
      <4> QED
        BY <1>2, <3>1, <4>1, <4>2, HandlerHalf
    <3> QED
      BY <3>2, <3>3
  <2>3. CASE Persistence
    <3>1. FilesRecover'
      BY <1>2 DEF RecoveryInv
    <3> QED
      BY <1>2, <2>3, <3>1, WriteHalf
  <2> QED
    BY <1>2, <2>1, <2>2, <2>3 DEF Next
<1> QED
  BY <1>1, <1>2, Invariance, FilesInvariance, RecoveryInvariance, PTL DEF Spec

\* At every moment, also while the server is down, the files hold of each
\* instance what the last handler found or what it left, but for what it took
\* from its player.
LEMMA FindsInvariance == Spec => []RestartFindsEach
<1>1. Init => up
  BY DEF Init
<1>2. IInv /\ FileInv /\ (up => HalfWritten) => (up => RestartFindsEach)
  BY HalfWrittenRecovers
<1>3. ASSUME IInv, RestartFindsEach, [Next]_vars, ~up'
      PROVE  RestartFindsEach'
  <2>1. CASE UNCHANGED vars
    BY <1>3, <2>1 DEF vars, RestartFindsEach
  <2>2. CASE Crash
    BY <1>3, <2>2 DEF Crash, RestartFindsEach, memory
  <2>3. CASE Next /\ ~Crash
    BY <1>3, <2>3, StepsRun
  <2> QED
    BY <1>3, <2>1, <2>2, <2>3
<1> QED
  BY <1>1, <1>2, <1>3, Invariance, FilesInvariance, HalfInvariance, PTL DEF Spec

\* Every step of the server is a step of the promise or none: handlers are
\* reports and exchanges of one player, made when nothing is half written, and
\* restarts lose at most what the last handler took from its player.
THEOREM KeepsOwnership == Spec => OwnershipIsKept
<1>1. Init => Owners!Init
  BY DEF Init, Owners!Init
<1>2. ASSUME IInv, IInv', FileInv, RecoveryInv, RestartFindsEach, [Next]_vars
      PROVE  [Owners!Next]_<<items, before>>
  <2>1. CASE UNCHANGED vars
    BY <2>1 DEF vars
  <2>2. CASE ProfileUpdates \/ ObjectUpdates \/ WorldItemUpdates
    <3>1. SUFFICES ASSUME ~UNCHANGED <<items, before>>
                   PROVE  Owners!Next
      OBVIOUS
    <3>2. /\ before = items /\ before' = items
          /\ \/ \E p \in Players : Reported(p, items, items')
             \/ \E p \in Players, place \in Containers \cup {World} :
                    Trade(p, place, items, items')
      BY <1>2, <2>2, <3>1, HandlersAre
    <3>3. ASSUME NEW p \in Players, Reported(p, items, items')
          PROVE  Owners!Report(p)
      BY <3>2, <3>3 DEF Reported, Owners!Report
    <3>4. ASSUME NEW p \in Players, NEW place \in Containers \cup {World},
                 Trade(p, place, items, items')
          PROVE  Owners!Exchange(p, place)
      BY <3>2, <3>4 DEF Trade, Owners!Exchange
    <3> QED
      BY <3>2, <3>3, <3>4 DEF Owners!Next
  <2>3. CASE Persistence
    <3>1. CASE Restart
      <4>1. before' = items' /\ items' = RecoveredLedger(file)
        BY <3>1 DEF Restart
      <4>2. ASSUME NEW ledger, NEW i \in Instances
            PROVE  Owners!At(ledger, i, Players) <=> HeldByPlayer(ledger, i)
        BY DEF Owners!At, HeldByPlayer, AtLocation
      <4> QED
        BY <1>2, <4>1, <4>2 DEF RestartFindsEach, Owners!Recover, Owners!Next
    <3>2. CASE ~Restart
      <4>1. items' = items /\ before' \in {items, before}
        BY <2>3, <3>2 DEF Persistence, WriteProfile, WriteObjects, WriteItems,
                          Crash, memory
      <4> QED
        BY <4>1 DEF Owners!Settle, Owners!Next
    <3> QED
      BY <3>1, <3>2
  <2> QED
    BY <1>2, <2>1, <2>2, <2>3 DEF Next
<1> QED
  BY <1>1, <1>2, Invariance, FilesInvariance, RecoveryInvariance,
     FindsInvariance, PTL DEF Spec, OwnershipIsKept, Owners!Spec

---------------------------------------------------------------------------
(* Loops over the repeated fields of a message.                            *)

LEMMA LeastNumber ==
    ASSUME NEW S, S \subseteq Nat, S # {}
    PROVE  \E x \in S : \A y \in S : x <= y
<1>1. PICK x \in S : \A y \in S : ~(<<y, x>> \in OpToRel(<, Nat))
  BY WFMin, NatLessThanWellFounded
<1>2. \A y \in S : x <= y
  <2> TAKE y \in S
  <2>1. ~(y < x)
    BY <1>1 DEF OpToRel
  <2> QED
    BY <2>1
<1> QED
  BY <1>2

\* What holds before the first turn of a loop, and after a turn whenever it
\* held before it, holds after every turn.
LEMMA UpTo ==
    ASSUME NEW N \in Nat, NEW J, 0 \in J,
           \A n \in 1..N : n - 1 \in J => n \in J
    PROVE  \A n \in 0..N : n \in J
<1> SUFFICES ASSUME NEW k \in 0..N, k \notin J
             PROVE  FALSE
  OBVIOUS
<1> DEFINE S == {n \in 0..N : n \notin J}
<1>1. PICK m \in S : \A y \in S : m <= y
  <2>1. S \subseteq Nat /\ S # {}
    OBVIOUS
  <2> HIDE DEF S
  <2> QED
    BY <2>1, LeastNumber
<1>2. m \in 1..N /\ m - 1 \in 0..N
  OBVIOUS
<1>3. m - 1 \in J
  BY <1>1, <1>2
<1> QED
  BY <1>2, <1>3

\* The states after each turn of a loop that starts with b.
Turns(N, A, b, F) ==
    {g \in [0..N -> A] :
        /\ g[0] = b
        /\ \A n \in 1..N : g[n] = F[n][g[n - 1]]}

\* A loop of N turns over states of a set A has a state after every turn: a
\* recursive function over 0..N is defined.
LEMMA TurnsExist ==
    ASSUME NEW N \in Nat, NEW A, NEW b \in A, NEW F \in [1..N -> [A -> A]]
    PROVE  Turns(N, A, b, F) # {}
<1> DEFINE J == {m \in 0..N :
                    \E g \in [0..m -> A] :
                        /\ g[0] = b
                        /\ \A n \in 1..m : g[n] = F[n][g[n - 1]]}
<1>1. 0 \in J
  <2> DEFINE g == [n \in 0..0 |-> b]
  <2>1. /\ g \in [0..0 -> A]
        /\ g[0] = b
        /\ \A n \in 1..0 : g[n] = F[n][g[n - 1]]
    OBVIOUS
  <2> HIDE DEF g
  <2> QED
    BY <2>1
<1>2. ASSUME NEW m \in 1..N, m - 1 \in J
      PROVE  m \in J
  <2>1. PICK h \in [0..(m - 1) -> A] :
            /\ h[0] = b
            /\ \A n \in 1..(m - 1) : h[n] = F[n][h[n - 1]]
    BY <1>2
  <2> DEFINE g == [n \in 0..m |-> IF n = m THEN F[m][h[m - 1]] ELSE h[n]]
  <2>2. h[m - 1] \in A /\ F[m][h[m - 1]] \in A
    <3>1. h[m - 1] \in A
      OBVIOUS
    <3>2. F[m] \in [A -> A]
      OBVIOUS
    <3> QED
      BY <3>1, <3>2
  <2>3. g \in [0..m -> A]
    BY <2>2
  <2>4. g[0] = b
    BY <2>1
  <2>5. ASSUME NEW n \in 1..m
        PROVE  g[n] = F[n][g[n - 1]]
    <3>1. CASE n = m
      <4>1. n - 1 \in 0..m /\ n - 1 # m
        OBVIOUS
      <4>2. g[n] = F[m][h[m - 1]] /\ g[n - 1] = h[n - 1]
        BY <3>1, <4>1
      <4> QED
        BY <3>1, <4>2
    <3>2. CASE n # m
      <4>1. n \in 1..(m - 1) /\ n - 1 \in 0..(m - 1)
        BY <3>2
      <4>2. g[n] = h[n] /\ g[n - 1] = h[n - 1]
        BY <4>1
      <4> QED
        BY <2>1, <4>1, <4>2
    <3> QED
      BY <3>1, <3>2
  <2> HIDE DEF g
  <2> QED
    BY <2>3, <2>4, <2>5
<1> HIDE DEF J
<1>3. \A n \in 1..N : n - 1 \in J => n \in J
  BY <1>2
<1>4. \A n \in 0..N : n \in J
  BY <1>1, <1>3, UpTo
<1> QED
  BY <1>4 DEF J, Turns

LEMMA OrderingFacts ==
    ASSUME NEW inventory \in Inventories, NEW s \in Orderings(Requested(inventory))
    PROVE  /\ Len(s) \in Nat
           /\ \A n \in 1..Len(s) : s[n] \in Requested(inventory)
           /\ \A i \in Requested(inventory) : \E n \in 1..Len(s) : s[n] = i
<1> DEFINE set == Requested(inventory)
           N == Cardinality(set)
<1>1. N \in Nat
  BY InstancesAreFinite, FS_Subset, FS_CardinalityType DEF Requested
<1>2. /\ s \in [1..N -> set]
      /\ \A i \in set : \E n \in 1..N : s[n] = i
  BY DEF Orderings, Bijection, Injection, Surjection
<1> HIDE DEF set, N
<1>3. Len(s) = N
  BY <1>1, <1>2
<1> QED
  BY <1>1, <1>2, <1>3 DEF set

---------------------------------------------------------------------------
(* What the merge and split loops keep, turn by turn: `l0` is the ledger   *)
(* before them and `a` the accepted inventory of player `p`.               *)

Explained(p, l0, a, x) ==
    /\ x \in StagedStates
    /\ \A i \in Instances :
        /\ Held(l0, p)[i] = NoItem =>
            \/ x.ledger[i] = l0[i]
            \/ l0[i] = Unregistered /\ a[i] # NoItem /\ i \in x.split
        /\ i \in x.split => l0[i] = Unregistered
        /\ x.ledger[i] # Unregistered /\ l0[i] # Unregistered =>
            x.ledger[i].item.definition = l0[i].item.definition
        /\ Held(l0, p)[i] # NoItem /\ a[i] = NoItem =>
            /\ i \in x.away => x.ledger[i] = Unregistered
            /\ x.ledger[i] # Unregistered =>
                x.ledger[i].item.count <= Held(l0, p)[i].count

LEMMA RefusedStaysExplained ==
    ASSUME NEW p, NEW l0, NEW a, NEW x, Explained(p, l0, a, x)
    PROVE  Explained(p, l0, a, [x EXCEPT !.ok = FALSE])
BY DEF Explained, StagedStates

LEMMA MergeFromKeeps ==
    ASSUME NEW p \in Players, NEW l0 \in Ledgers, NEW a \in Inventories,
           NEW x, Explained(p, l0, a, x),
           NEW t \in Requested(a), Held(l0, p)[t] # NoItem,
           NEW s \in Requested(Held(l0, p))
    PROVE  Explained(p, l0, a, MergeFrom(p, Held(l0, p), a, t, x, s))
<1> DEFINE c == Held(l0, p)
           requestedCount == CountOf(a, s)
           available == c[s].count - requestedCount
           moved == Smaller(x.remaining, available)
           skipped == \/ ~x.ok
                      \/ x.remaining = 0
                      \/ s = t
                      \/ ~Stackable(c[s], a[t])
                      \/ requestedCount > c[s].count
                      \/ moved = 0
           y == [x EXCEPT !.ledger = Merge(@, s, t, moved),
                          !.remaining = @ - moved,
                          !.away = IF moved = c[s].count
                                   THEN @ \cup {s} ELSE @]
           turn == MergeFrom(p, c, a, t, x, s)
<1>1. \/ turn = x
      \/ turn = [x EXCEPT !.ok = FALSE]
      \/ /\ turn = y
         /\ ~skipped
         /\ CanMerge(x.ledger, s, p, t, p, moved)
  BY DEF MergeFrom
<1>2. /\ x \in StagedStates
      /\ s \in Instances /\ t \in Instances
      /\ c \in Inventories
      /\ c[s] \in Item /\ c[t] \in Item /\ a[t] \in Item
      /\ AtLocation(l0, s, p) /\ AtLocation(l0, t, p)
      /\ c[s] = l0[s].item /\ c[t] = l0[t].item
  BY HeldTyped DEF Explained, Requested, Inventories
<1>3. ASSUME ~skipped, CanMerge(x.ledger, s, p, t, p, moved)
      PROVE  Explained(p, l0, a, y)
  <2> DEFINE m == Merge(x.ledger, s, t, moved)
  <2>1. /\ requestedCount \in Nat
        /\ a[s] = NoItem => requestedCount = 0
        /\ a[s] # NoItem => requestedCount > 0
        /\ c[s].count \in Nat /\ c[s].count > 0
    BY <1>2, MaxItemCountIsPositive DEF CountOf, Inventories, Item
  <2>2. /\ moved \in Nat
        /\ moved <= x.remaining
        /\ moved <= available
        /\ x.remaining \in Nat
    BY <1>2, <1>3, <2>1 DEF Smaller, StagedStates
  <2> HIDE DEF moved
  <2>3. /\ m \in Ledgers
        /\ m[t] = [item |-> WithCount(x.ledger[t].item,
                                      x.ledger[t].item.count + moved),
                   location |-> p]
        /\ m[t] # Unregistered
        /\ moved = x.ledger[s].item.count => m[s] = Unregistered
        /\ moved # x.ledger[s].item.count =>
             /\ m[s] = [item |-> WithCount(x.ledger[s].item,
                                           x.ledger[s].item.count - moved),
                        location |-> p]
             /\ m[s] # Unregistered
        /\ \A j \in Instances \ {s, t} : m[j] = x.ledger[j]
    BY <1>2, <1>3, <2>2, MergeTyped DEF StagedStates
  <2>4. /\ s # t
        /\ x.ledger[s] # Unregistered /\ x.ledger[t] # Unregistered
        /\ x.ledger[s].item \in Item /\ x.ledger[t].item \in Item
        /\ moved <= x.ledger[s].item.count
        /\ moved > 0
    BY <1>2, <1>3 DEF CanMerge, AtLocation, StagedStates, Ledgers, Entry
  <2>5. /\ m[t].item.definition = x.ledger[t].item.definition
        /\ m[s] # Unregistered =>
            /\ m[s].item.definition = x.ledger[s].item.definition
            /\ m[s].item.count = x.ledger[s].item.count - moved
    BY <2>3, <2>4 DEF WithCount
  <2> DEFINE gone == IF moved = c[s].count THEN x.away \cup {s} ELSE x.away
  <2> HIDE DEF m
  <2> DEFINE rest == x.remaining - moved
  <2>6. y = [x EXCEPT !.ledger = m, !.remaining = rest, !.away = gone]
    BY DEF m
  <2>7. /\ x \in StagedStates
        /\ rest \in Nat
        /\ gone \in SUBSET Instances
    BY <1>2, <2>2 DEF StagedStates
  <2> HIDE DEF y, gone, rest
  <2>8. /\ y \in StagedStates
        /\ y.ledger = m /\ y.away = gone /\ y.split = x.split
    BY <2>3, <2>6, <2>7 DEF StagedStates
  <2> USE DEF gone
  <2>9. ASSUME NEW i \in Instances
        PROVE  /\ c[i] = NoItem =>
                    \/ y.ledger[i] = l0[i]
                    \/ l0[i] = Unregistered /\ a[i] # NoItem /\ i \in y.split
               /\ i \in y.split => l0[i] = Unregistered
               /\ y.ledger[i] # Unregistered /\ l0[i] # Unregistered =>
                    y.ledger[i].item.definition = l0[i].item.definition
               /\ c[i] # NoItem /\ a[i] = NoItem =>
                    /\ i \in y.away => y.ledger[i] = Unregistered
                    /\ y.ledger[i] # Unregistered =>
                        y.ledger[i].item.count <= c[i].count
    <3> USE <2>8
    <3> HIDE DEF c
    <3>0. /\ c[i] = NoItem =>
                \/ x.ledger[i] = l0[i]
                \/ l0[i] = Unregistered /\ a[i] # NoItem /\ i \in x.split
          /\ i \in x.split => l0[i] = Unregistered
          /\ x.ledger[i] # Unregistered /\ l0[i] # Unregistered =>
                x.ledger[i].item.definition = l0[i].item.definition
          /\ c[i] # NoItem /\ a[i] = NoItem =>
                /\ i \in x.away => x.ledger[i] = Unregistered
                /\ x.ledger[i] # Unregistered =>
                    x.ledger[i].item.count <= c[i].count
      BY DEF Explained, c
    <3>1. CASE i \notin {s, t}
      BY <2>3, <3>0, <3>1
    <3>2. CASE i = t
      <4>1. c[t] # NoItem /\ a[t] # NoItem
        BY DEF Requested, c
      <4> QED
        BY <2>3, <2>4, <2>5, <3>0, <3>2, <4>1
    <3>3. CASE i = s
      <4>1. c[s] # NoItem
        BY DEF Requested, c
      <4>2. ASSUME a[s] = NoItem, y.ledger[s] # Unregistered
            PROVE  y.ledger[s].item.count <= c[s].count
        BY <2>2, <2>3, <2>4, <2>5, <3>0, <3>3, <4>1, <4>2, <2>1 DEF Item
      <4>3. ASSUME a[s] = NoItem, s \in y.away
            PROVE  y.ledger[s] = Unregistered
        <5>1. s \notin x.away
          BY <2>4, <3>0, <3>3, <4>1, <4>3
        <5>2. moved = c[s].count
          BY <4>3, <5>1
        <5>3. x.ledger[s].item.count <= c[s].count
          BY <2>4, <3>0, <3>3, <4>1, <4>3
        <5>4. moved = x.ledger[s].item.count
          BY <2>2, <2>4, <5>2, <5>3 DEF Item
        <5> QED
          BY <2>3, <5>4
      <4> QED
        BY <2>3, <2>4, <2>5, <3>0, <3>3, <4>1, <4>2, <4>3
    <3> QED
      BY <3>1, <3>2, <3>3
  <2> QED
    BY <2>8, <2>9 DEF Explained
<1> HIDE DEF turn, y, skipped
<1> QED
  BY <1>1, <1>3, RefusedStaysExplained DEF turn

\* The states that are explained, a set the loops do not leave.
ExplainedStates(p, l0, a) == {x \in StagedStates : Explained(p, l0, a, x)}

LEMMA MergeTurnsKeep ==
    ASSUME NEW p \in Players, NEW l0 \in Ledgers, NEW a \in Inventories,
           NEW s \in Orderings(Requested(Held(l0, p))),
           NEW x, Explained(p, l0, a, x),
           NEW t \in Requested(a), Held(l0, p)[t] # NoItem,
           a[t].count > Held(l0, p)[t].count
    PROVE  Explained(p, l0, a,
                     MergeTurns(p, Held(l0, p), a, s, x, t)[Len(s)])
<1> DEFINE c == Held(l0, p)
           N == Len(s)
           A == ExplainedStates(p, l0, a)
           b == [x EXCEPT !.remaining = a[t].count - c[t].count]
           F == [n \in 1..N |-> [y \in A |-> MergeFrom(p, c, a, t, y, s[n])]]
           turn == MergeTurns(p, c, a, s, x, t)
<1>1. /\ N \in Nat
      /\ \A n \in 1..N : s[n] \in Requested(c)
  BY HeldTyped, OrderingFacts
<1>2. b \in A
  <2>1. a[t].count - c[t].count \in Nat
    BY HeldTyped DEF Requested, Inventories, Item
  <2>2. b \in StagedStates /\ b.ledger = x.ledger /\ b.away = x.away
        /\ b.split = x.split
    <3> HIDE DEF c
    <3> QED
      BY <2>1 DEF Explained, StagedStates
  <2> QED
    BY <2>2 DEF Explained, ExplainedStates
<1>3. ASSUME NEW n \in 1..N, NEW y \in A
      PROVE  MergeFrom(p, c, a, t, y, s[n]) \in A
  BY <1>1, MergeFromKeeps DEF ExplainedStates, Explained
<1> HIDE DEF A, b, c, N
<1>4. F \in [1..N -> [A -> A]]
  BY <1>3
<1>5. ASSUME NEW n \in 1..N, NEW y \in A
      PROVE  F[n][y] = MergeFrom(p, c, a, t, y, s[n])
  BY <1>5
<1> HIDE DEF F
<1>6. PICK g \in [0..N -> A] :
            /\ g[0] = b
            /\ \A n \in 1..N : g[n] = F[n][g[n - 1]]
  <2>1. Turns(N, A, b, F) # {}
    BY <1>1, <1>2, <1>4, TurnsExist
  <2> QED
    BY <2>1 DEF Turns
<1>7. g = [n \in 0..N |-> IF n = 0 THEN b
                          ELSE MergeFrom(p, c, a, t, g[n - 1], s[n])]
  <2>1. ASSUME NEW n \in 0..N, n # 0
        PROVE  g[n] = MergeFrom(p, c, a, t, g[n - 1], s[n])
    <3>1. n \in 1..N /\ n - 1 \in 0..N
      BY <1>1, <2>1
    <3>2. g[n - 1] \in A
      BY <3>1
    <3> QED
      BY <1>5, <1>6, <3>1, <3>2
  <2> QED
    BY <1>6, <2>1
<1>8. turn = CHOOSE f : f = [n \in 0..N |-> IF n = 0 THEN b
                                ELSE MergeFrom(p, c, a, t, f[n - 1], s[n])]
  BY DEF MergeTurns, b, N
<1> HIDE DEF turn
<1>9. turn = [n \in 0..N |-> IF n = 0 THEN b
                             ELSE MergeFrom(p, c, a, t, turn[n - 1], s[n])]
  BY <1>7, <1>8
<1> DEFINE J == {n \in 0..N : turn[n] \in A}
<1>10. 0 \in J
  BY <1>1, <1>2, <1>9
<1>11. ASSUME NEW n \in 1..N, n - 1 \in J
       PROVE  n \in J
  BY <1>1, <1>3, <1>9, <1>11
<1> HIDE DEF J
<1>12. N \in J
  BY <1>1, <1>10, <1>11, UpTo
<1> QED
  BY <1>12 DEF J, A, ExplainedStates, turn, N, c

LEMMA MergeIntoKeeps ==
    ASSUME NEW p \in Players, NEW l0 \in Ledgers, NEW a \in Inventories,
           NEW s \in Orderings(Requested(Held(l0, p))),
           NEW x, Explained(p, l0, a, x), NEW t \in Requested(a)
    PROVE  Explained(p, l0, a, MergeInto(p, Held(l0, p), a, s, x, t))
<1> DEFINE c == Held(l0, p)
<1>1. CASE c[t] = NoItem \/ a[t].count <= CountOf(c, t)
  BY <1>1 DEF MergeInto
<1>2. CASE ~(c[t] = NoItem \/ a[t].count <= CountOf(c, t))
  <2>1. /\ MergeInto(p, c, a, s, x, t) = MergeTurns(p, c, a, s, x, t)[Len(s)]
        /\ c[t] # NoItem
        /\ a[t].count > c[t].count
    <3>1. c[t] \in Item /\ a[t] \in Item
      BY <1>2, HeldTyped DEF Inventories, Requested
    <3> QED
      BY <1>2, <3>1 DEF MergeInto, CountOf, Item
  <2> QED
    BY <2>1, MergeTurnsKeep
<1> QED
  BY <1>1, <1>2

LEMMA StartExplained ==
    ASSUME NEW p, NEW l0 \in Ledgers, NEW a
    PROVE  Explained(p, l0, a, [ledger |-> l0, remaining |-> 0, away |-> {},
                                split |-> {}, ok |-> TRUE])
<1> DEFINE b == [ledger |-> l0, remaining |-> 0, away |-> {}, split |-> {},
                 ok |-> TRUE]
<1>1. b \in StagedStates /\ b.ledger = l0 /\ b.away = {} /\ b.split = {}
  BY DEF StagedStates
<1>2. ASSUME NEW i \in Instances, Held(l0, p)[i] # NoItem
      PROVE  l0[i] # Unregistered => l0[i].item.count <= Held(l0, p)[i].count
  <2>1. AtLocation(l0, i, p) /\ Held(l0, p)[i] = l0[i].item
    BY <1>2, HeldTyped
  <2>2. l0[i].item.count \in Int
    BY <2>1 DEF AtLocation, Ledgers, Entry, Item
  <2> QED
    BY <2>1, <2>2
<1> HIDE DEF b
<1> QED
  BY <1>1, <1>2 DEF Explained, b

LEMMA MergedKeeps ==
    ASSUME NEW p \in Players, NEW l0 \in Ledgers, NEW a \in Inventories,
           NEW s \in Orderings(Requested(Held(l0, p))),
           NEW ts \in Orderings(Requested(a))
    PROVE  Explained(p, l0, a, Merged(p, l0, Held(l0, p), a, ts, s)[Len(ts)])
<1> DEFINE c == Held(l0, p)
           N == Len(ts)
           A == ExplainedStates(p, l0, a)
           b == [ledger |-> l0, remaining |-> 0, away |-> {}, split |-> {},
                 ok |-> TRUE]
           F == [n \in 1..N |-> [y \in A |-> MergeInto(p, c, a, s, y, ts[n])]]
           turn == Merged(p, l0, c, a, ts, s)
<1>1. /\ N \in Nat
      /\ \A n \in 1..N : ts[n] \in Requested(a)
  BY OrderingFacts
<1>2. b \in A
  BY StartExplained DEF ExplainedStates, Explained
<1>3. ASSUME NEW n \in 1..N, NEW y \in A
      PROVE  MergeInto(p, c, a, s, y, ts[n]) \in A
  BY <1>1, MergeIntoKeeps DEF ExplainedStates, Explained
<1>4. turn = CHOOSE f : f = [n \in 0..N |-> IF n = 0 THEN b
                                ELSE MergeInto(p, c, a, s, f[n - 1], ts[n])]
  BY DEF Merged
<1> HIDE DEF A, b, c, N, turn
<1>5. F \in [1..N -> [A -> A]]
  BY <1>3
<1>6. ASSUME NEW n \in 1..N, NEW y \in A
      PROVE  F[n][y] = MergeInto(p, c, a, s, y, ts[n])
  BY <1>6
<1> HIDE DEF F
<1>7. PICK g \in [0..N -> A] :
            /\ g[0] = b
            /\ \A n \in 1..N : g[n] = F[n][g[n - 1]]
  <2>1. Turns(N, A, b, F) # {}
    BY <1>1, <1>2, <1>5, TurnsExist
  <2> QED
    BY <2>1 DEF Turns
<1>8. g = [n \in 0..N |-> IF n = 0 THEN b
                          ELSE MergeInto(p, c, a, s, g[n - 1], ts[n])]
  <2>1. ASSUME NEW n \in 0..N, n # 0
        PROVE  g[n] = MergeInto(p, c, a, s, g[n - 1], ts[n])
    <3>1. n \in 1..N /\ n - 1 \in 0..N
      BY <1>1, <2>1
    <3>2. g[n - 1] \in A
      BY <3>1
    <3> QED
      BY <1>6, <1>7, <3>1, <3>2
  <2> QED
    BY <1>7, <2>1
<1>9. turn = [n \in 0..N |-> IF n = 0 THEN b
                             ELSE MergeInto(p, c, a, s, turn[n - 1], ts[n])]
  BY <1>4, <1>8
<1> DEFINE J == {n \in 0..N : turn[n] \in A}
<1>10. 0 \in J
  BY <1>1, <1>2, <1>9
<1>11. \A n \in 1..N : n - 1 \in J => n \in J
  BY <1>1, <1>3, <1>9
<1> HIDE DEF J
<1>12. \A n \in 0..N : n \in J
  BY <1>1, <1>10, <1>11, UpTo
<1>13. N \in J
  BY <1>1, <1>12
<1> QED
  BY <1>13 DEF J, A, ExplainedStates, turn, N, c

LEMMA SplitOffKeeps ==
    ASSUME NEW p \in Players, NEW l0 \in Ledgers, NEW a \in Inventories,
           NEW x, Explained(p, l0, a, x), NEW t \in Requested(a)
    PROVE  Explained(p, l0, a, SplitOff(p, Held(l0, p), a, x, t))
<1> DEFINE c == Held(l0, p)
           found == SplitSources(c, a, t)
           s == CHOOSE s \in found : TRUE
           count == a[t].count
           skipped == \/ ~x.ok
                      \/ c[t] # NoItem
                      \/ x.ledger[t] # Unregistered
                      \/ ~(\E r \in found : found = {r})
           m == Split(x.ledger, s, t, count, p)
           y == [x EXCEPT !.ledger = m, !.split = @ \cup {t}]
           turn == SplitOff(p, c, a, x, t)
<1>1. \/ turn = x
      \/ turn = [x EXCEPT !.ok = FALSE]
      \/ /\ turn = y
         /\ ~skipped
         /\ CanSplit(x.ledger, s, p, t, count)
  BY DEF SplitOff
<1>2. /\ x \in StagedStates
      /\ t \in Instances
      /\ c \in Inventories
      /\ a[t] \in Item /\ a[t] # NoItem
      /\ p \in Locations
  BY HeldTyped DEF Explained, Requested, Inventories, Locations
<1>3. ASSUME ~skipped, CanSplit(x.ledger, s, p, t, count)
      PROVE  Explained(p, l0, a, y)
  <2>1. s \in found
    BY <1>3
  <2> HIDE DEF s
  <2>2. s \in Instances /\ c[s] # NoItem /\ a[s] # NoItem
    BY <2>1 DEF SplitSources, Requested
  <2>3. count \in Nat
    BY <1>2 DEF Item
  <2>4. /\ m \in Ledgers
        /\ s # t
        /\ m[s] = [item |-> WithCount(x.ledger[s].item,
                                      x.ledger[s].item.count - count),
                   location |-> p]
        /\ m[t] = [item |-> WithCount(x.ledger[s].item, count),
                   location |-> p]
        /\ m[s] # Unregistered
        /\ \A j \in Instances \ {s, t} : m[j] = x.ledger[j]
    BY <1>2, <1>3, <2>2, <2>3, SplitTyped DEF StagedStates
  <2>5. /\ m[s].item.definition = x.ledger[s].item.definition
        /\ x.ledger[s] # Unregistered
    BY <1>3, <2>4 DEF WithCount, CanSplit, AtLocation
  <2>6. c[t] = NoItem /\ x.ledger[t] = Unregistered
    BY <1>3
  <2> HIDE DEF m
  <2>7. /\ y \in StagedStates
        /\ y.ledger = m /\ y.away = x.away /\ y.split = x.split \cup {t}
    BY <1>2, <2>4 DEF StagedStates
  <2> HIDE DEF y, c
  <2>8. ASSUME NEW i \in Instances
        PROVE  /\ c[i] = NoItem =>
                    \/ y.ledger[i] = l0[i]
                    \/ l0[i] = Unregistered /\ a[i] # NoItem /\ i \in y.split
               /\ i \in y.split => l0[i] = Unregistered
               /\ y.ledger[i] # Unregistered /\ l0[i] # Unregistered =>
                    y.ledger[i].item.definition = l0[i].item.definition
               /\ c[i] # NoItem /\ a[i] = NoItem =>
                    /\ i \in y.away => y.ledger[i] = Unregistered
                    /\ y.ledger[i] # Unregistered =>
                        y.ledger[i].item.count <= c[i].count
    <3> USE <2>7
    <3>0. /\ c[i] = NoItem =>
                \/ x.ledger[i] = l0[i]
                \/ l0[i] = Unregistered /\ a[i] # NoItem /\ i \in x.split
          /\ i \in x.split => l0[i] = Unregistered
          /\ x.ledger[i] # Unregistered /\ l0[i] # Unregistered =>
                x.ledger[i].item.definition = l0[i].item.definition
          /\ c[i] # NoItem /\ a[i] = NoItem =>
                /\ i \in x.away => x.ledger[i] = Unregistered
                /\ x.ledger[i] # Unregistered =>
                    x.ledger[i].item.count <= c[i].count
      BY DEF Explained, c
    <3>1. CASE i \notin {s, t}
      BY <2>4, <3>0, <3>1
    <3>2. CASE i = t
      BY <1>2, <2>4, <2>6, <3>0, <3>2
    <3>3. CASE i = s
      BY <2>2, <2>4, <2>5, <3>0, <3>3
    <3> QED
      BY <3>1, <3>2, <3>3
  <2> QED
    BY <2>7, <2>8 DEF Explained, c
<1> HIDE DEF turn, y, skipped, s
<1> QED
  BY <1>1, <1>3, RefusedStaysExplained DEF turn

LEMMA DividedKeeps ==
    ASSUME NEW p \in Players, NEW l0 \in Ledgers, NEW a \in Inventories,
           NEW ts \in Orderings(Requested(a)),
           NEW x, Explained(p, l0, a, x)
    PROVE  Explained(p, l0, a, Divided(p, Held(l0, p), a, ts, x)[Len(ts)])
<1> DEFINE c == Held(l0, p)
           N == Len(ts)
           A == ExplainedStates(p, l0, a)
           F == [n \in 1..N |-> [y \in A |-> SplitOff(p, c, a, y, ts[n])]]
           turn == Divided(p, c, a, ts, x)
<1>1. /\ N \in Nat
      /\ \A n \in 1..N : ts[n] \in Requested(a)
  BY OrderingFacts
<1>2. x \in A
  BY DEF ExplainedStates, Explained
<1>3. ASSUME NEW n \in 1..N, NEW y \in A
      PROVE  SplitOff(p, c, a, y, ts[n]) \in A
  BY <1>1, SplitOffKeeps DEF ExplainedStates, Explained
<1>4. turn = CHOOSE f : f = [n \in 0..N |-> IF n = 0 THEN x
                                ELSE SplitOff(p, c, a, f[n - 1], ts[n])]
  BY DEF Divided
<1> HIDE DEF A, c, N, turn
<1>5. F \in [1..N -> [A -> A]]
  BY <1>3
<1>6. ASSUME NEW n \in 1..N, NEW y \in A
      PROVE  F[n][y] = SplitOff(p, c, a, y, ts[n])
  BY <1>6
<1> HIDE DEF F
<1>7. PICK g \in [0..N -> A] :
            /\ g[0] = x
            /\ \A n \in 1..N : g[n] = F[n][g[n - 1]]
  <2>1. Turns(N, A, x, F) # {}
    BY <1>1, <1>2, <1>5, TurnsExist
  <2> QED
    BY <2>1 DEF Turns
<1>8. g = [n \in 0..N |-> IF n = 0 THEN x
                          ELSE SplitOff(p, c, a, g[n - 1], ts[n])]
  <2>1. ASSUME NEW n \in 0..N, n # 0
        PROVE  g[n] = SplitOff(p, c, a, g[n - 1], ts[n])
    <3>1. n \in 1..N /\ n - 1 \in 0..N
      BY <1>1, <2>1
    <3>2. g[n - 1] \in A
      BY <3>1
    <3> QED
      BY <1>6, <1>7, <3>1, <3>2
  <2> QED
    BY <1>7, <2>1
<1>9. turn = [n \in 0..N |-> IF n = 0 THEN x
                             ELSE SplitOff(p, c, a, turn[n - 1], ts[n])]
  BY <1>4, <1>8
<1> DEFINE J == {n \in 0..N : turn[n] \in A}
<1>10. 0 \in J
  BY <1>1, <1>2, <1>9
<1>11. \A n \in 1..N : n - 1 \in J => n \in J
  BY <1>1, <1>3, <1>9
<1> HIDE DEF J
<1>12. \A n \in 0..N : n \in J
  BY <1>1, <1>10, <1>11, UpTo
<1>13. N \in J
  BY <1>1, <1>12
<1> QED
  BY <1>13 DEF J, A, ExplainedStates, turn, N, c

---------------------------------------------------------------------------
(* What the third loop does to the items it has been through.              *)

\* The owner of item i lets player p have it as the request a says.
Allows(p, l0, a, i) ==
    l0[i] # Unregistered =>
        IF l0[i].location = p
        THEN l0[i].item.definition = a[i].definition
        ELSE l0[i].location \notin Players /\ SameStack(l0[i].item, a[i])

\* `d` is the state before the loop and `done` what it has been through.
SettledUpTo(p, l0, a, d, x, done) ==
    /\ x \in StagedStates
    /\ done \subseteq Instances
    /\ x.away = d.away
    /\ x.split = d.split
    /\ \A i \in Instances \ done : x.ledger[i] = d.ledger[i]
    /\ x.ok => \A i \in done : /\ x.ledger[i] = [item |-> a[i], location |-> p]
                               /\ Allows(p, l0, a, i)

LEMMA SettleKeeps ==
    ASSUME NEW p \in Players, NEW l0 \in Ledgers, NEW a \in Inventories,
           NEW d, Explained(p, l0, a, d), NEW x, NEW done,
           SettledUpTo(p, l0, a, d, x, done), NEW i \in Requested(a)
    PROVE  SettledUpTo(p, l0, a, d, Settle(p, Held(l0, p), a, x, i),
                       done \cup {i})
<1> DEFINE c == Held(l0, p)
           entry == x.ledger[i]
           turn == Settle(p, c, a, x, i)
           Writes(l) == turn = [x EXCEPT !.ledger = l]
<1>1. /\ i \in Instances /\ a[i] \in Item /\ p \in Locations
      /\ x \in StagedStates /\ x.ledger \in Ledgers
      /\ x.ok \in BOOLEAN
  BY DEF Requested, Inventories, Locations, SettledUpTo, StagedStates
<1>2. \/ turn = x /\ ~x.ok
      \/ turn = [x EXCEPT !.ok = FALSE]
      \/ /\ x.ok /\ c[i] # NoItem
         /\ CanReplace(x.ledger, i, a[i], p)
         /\ Writes(Replace(x.ledger, i, a[i]))
      \/ /\ x.ok /\ c[i] = NoItem /\ entry = Unregistered
         /\ Writes(Register(x.ledger, i, a[i], p))
      \/ /\ x.ok /\ c[i] = NoItem /\ entry # Unregistered
         /\ entry.location \in Players => i \in x.split
         /\ SameStack(entry.item, a[i])
         /\ Writes(Replace(Move(x.ledger, i, p), i, a[i]))
  BY DEF Settle
<1> HIDE DEF c, turn
<1>3. CASE turn = x /\ ~x.ok
  BY <1>1, <1>3 DEF SettledUpTo, turn, c
<1>4. CASE turn = [x EXCEPT !.ok = FALSE]
  <2>1. /\ turn \in StagedStates /\ turn.ledger = x.ledger
        /\ turn.away = x.away /\ turn.split = x.split /\ ~turn.ok
    BY <1>1, <1>4 DEF StagedStates
  <2> QED
    BY <1>1, <2>1 DEF SettledUpTo, turn, c
<1>5. ASSUME NEW l \in Ledgers, Writes(l), x.ok,
             l[i] = [item |-> a[i], location |-> p],
             \A j \in Instances \ {i} : l[j] = x.ledger[j],
             i \notin done => Allows(p, l0, a, i)
      PROVE  SettledUpTo(p, l0, a, d, turn, done \cup {i})
  <2>1. /\ turn \in StagedStates /\ turn.ledger = l
        /\ turn.away = x.away /\ turn.split = x.split /\ turn.ok = x.ok
    BY <1>1, <1>5 DEF StagedStates
  <2>2. \A j \in Instances \ (done \cup {i}) : l[j] = d.ledger[j]
    BY <1>5 DEF SettledUpTo
  <2>3. \A j \in done \cup {i} :
            l[j] = [item |-> a[j], location |-> p] /\ Allows(p, l0, a, j)
    BY <1>1, <1>5 DEF SettledUpTo
  <2>4. /\ done \cup {i} \subseteq Instances
        /\ x.away = d.away /\ x.split = d.split
    BY <1>1 DEF SettledUpTo
  <2> QED
    BY <2>1, <2>2, <2>3, <2>4 DEF SettledUpTo
<1>6. CASE /\ x.ok /\ c[i] # NoItem
           /\ CanReplace(x.ledger, i, a[i], p)
           /\ Writes(Replace(x.ledger, i, a[i]))
  <2>1. /\ x.ledger[i] \in Entry /\ x.ledger[i] # Unregistered
        /\ x.ledger[i].location = p
        /\ x.ledger[i].item.definition = a[i].definition
    BY <1>1, <1>6 DEF CanReplace, AtLocation, Ledgers
  <2> DEFINE l == Replace(x.ledger, i, a[i])
  <2>2. /\ l \in Ledgers
        /\ l[i] = [item |-> a[i], location |-> p]
        /\ \A j \in Instances \ {i} : l[j] = x.ledger[j]
    BY <1>1, <2>1, ReplaceTyped
  <2>3. ASSUME i \notin done
        PROVE  Allows(p, l0, a, i)
    <3>1. AtLocation(l0, i, p)
      BY <1>1, <1>6, HeldTyped DEF c
    <3>2. x.ledger[i] = d.ledger[i]
      BY <1>1, <2>3 DEF SettledUpTo
    <3>3. d.ledger[i].item.definition = l0[i].item.definition
      BY <1>1, <2>1, <3>1, <3>2 DEF Explained, AtLocation
    <3> QED
      BY <2>1, <3>1, <3>2, <3>3 DEF Allows, AtLocation
  <2> HIDE DEF l
  <2>4. Writes(l)
    BY <1>6 DEF l
  <2> QED
    BY <1>5, <1>6, <2>2, <2>3, <2>4 DEF turn, c
<1>7. CASE /\ x.ok /\ c[i] = NoItem /\ entry = Unregistered
           /\ Writes(Register(x.ledger, i, a[i], p))
  <2> DEFINE l == Register(x.ledger, i, a[i], p)
  <2>1. /\ l \in Ledgers
        /\ l[i] = [item |-> a[i], location |-> p]
        /\ \A j \in Instances \ {i} : l[j] = x.ledger[j]
    BY <1>1, RegisterTyped
  <2>2. ASSUME i \notin done
        PROVE  Allows(p, l0, a, i)
    <3>1. d.ledger[i] = Unregistered
      BY <1>1, <1>7, <2>2 DEF SettledUpTo
    <3>2. l0[i] = Unregistered
      BY <1>1, <1>7, <3>1 DEF Explained, c
    <3> QED
      BY <3>2 DEF Allows
  <2> HIDE DEF l
  <2>3. Writes(l)
    BY <1>7 DEF l
  <2> QED
    BY <1>5, <1>7, <2>1, <2>2, <2>3 DEF turn, c
<1>8. CASE /\ x.ok /\ c[i] = NoItem /\ entry # Unregistered
           /\ entry.location \in Players => i \in x.split
           /\ SameStack(entry.item, a[i])
           /\ Writes(Replace(Move(x.ledger, i, p), i, a[i]))
  <2> DEFINE mid == Move(x.ledger, i, p)
             l == Replace(mid, i, a[i])
  <2>1. /\ mid \in Ledgers
        /\ mid[i] \in Entry
        /\ mid[i].location = p
        /\ \A j \in Instances \ {i} : mid[j] = x.ledger[j]
    <3>1. CanMove(x.ledger, i, entry.location)
      BY <1>8 DEF CanMove, AtLocation
    <3>2. /\ mid \in Ledgers
          /\ mid[i] = [item |-> x.ledger[i].item, location |-> p]
          /\ mid[i] # Unregistered
          /\ \A j \in Instances \ {i} : mid[j] = x.ledger[j]
      BY <1>1, <3>1, MoveTyped
    <3> QED
      BY <1>1, <3>2 DEF Ledgers
  <2> HIDE DEF mid
  <2>2. /\ l \in Ledgers
        /\ l[i] = [item |-> a[i], location |-> p]
        /\ \A j \in Instances \ {i} : l[j] = x.ledger[j]
    BY <1>1, <2>1, ReplaceTyped
  <2>3. ASSUME i \notin done
        PROVE  Allows(p, l0, a, i)
    <3>1. x.ledger[i] = d.ledger[i] /\ x.split = d.split
      BY <1>1, <2>3 DEF SettledUpTo
    <3>2. SUFFICES ASSUME l0[i] # Unregistered
                   PROVE  Allows(p, l0, a, i)
      BY DEF Allows
    <3>3. d.ledger[i] = l0[i] /\ i \notin d.split
      BY <1>1, <1>8, <3>2 DEF Explained, c
    <3>4. ~AtLocation(l0, i, p)
      BY <1>1, <1>8, HeldTyped DEF c
    <3> QED
      BY <1>8, <3>1, <3>2, <3>3, <3>4 DEF Allows, AtLocation
  <2>4. Writes(l)
    BY <1>8 DEF l, mid
  <2> HIDE DEF l
  <2> QED
    BY <1>5, <1>8, <2>2, <2>3, <2>4 DEF turn, c
<1> QED
  BY <1>2, <1>3, <1>4, <1>6, <1>7, <1>8

LEMMA SettleTyped ==
    ASSUME NEW p \in Players, NEW c, NEW a \in Inventories,
           NEW y \in StagedStates, NEW i \in Requested(a)
    PROVE  Settle(p, c, a, y, i) \in StagedStates
<1>1. /\ i \in Instances /\ a[i] \in Item
      /\ p \in Locations /\ y.ledger \in Ledgers
  BY DEF Requested, Inventories, Locations, StagedStates
<1> DEFINE entry == y.ledger[i]
           step == Settle(p, c, a, y, i)
<1>2. \/ step = y
      \/ step = [y EXCEPT !.ok = FALSE]
      \/ /\ AtLocation(y.ledger, i, p)
         /\ step = [y EXCEPT !.ledger = Replace(y.ledger, i, a[i])]
      \/ step = [y EXCEPT !.ledger = Register(y.ledger, i, a[i], p)]
      \/ /\ entry # Unregistered
         /\ step = [y EXCEPT
                      !.ledger = Replace(Move(y.ledger, i, p), i, a[i])]
  BY DEF Settle, CanReplace
<1> SUFFICES step \in StagedStates
  OBVIOUS
<1> HIDE DEF step
<1>3. ASSUME NEW l \in Ledgers, step = [y EXCEPT !.ledger = l]
      PROVE  step \in StagedStates
  BY <1>3 DEF StagedStates
<1>4. CASE step = [y EXCEPT !.ok = FALSE]
  BY <1>4 DEF StagedStates
<1>5. CASE /\ AtLocation(y.ledger, i, p)
           /\ step = [y EXCEPT !.ledger = Replace(y.ledger, i, a[i])]
  <2>1. Replace(y.ledger, i, a[i]) \in Ledgers
    <3>1. y.ledger[i] \in Entry
      BY <1>1, <1>5 DEF AtLocation, Ledgers
    <3> QED
      BY <1>1, <3>1, ReplaceTyped
  <2> QED
    BY <1>3, <1>5, <2>1
<1>6. CASE step = [y EXCEPT !.ledger = Register(y.ledger, i, a[i], p)]
  <2>1. Register(y.ledger, i, a[i], p) \in Ledgers
    BY <1>1, RegisterTyped
  <2> QED
    BY <1>3, <1>6, <2>1
<1>7. CASE /\ entry # Unregistered
           /\ step = [y EXCEPT
                        !.ledger = Replace(Move(y.ledger, i, p), i, a[i])]
  <2>1. CanMove(y.ledger, i, entry.location)
    BY <1>7 DEF CanMove, AtLocation
  <2>2. Move(y.ledger, i, p) \in Ledgers /\ Move(y.ledger, i, p)[i] \in Entry
    <3>1. /\ Move(y.ledger, i, p) \in Ledgers
          /\ Move(y.ledger, i, p)[i] # Unregistered
      BY <1>1, <2>1, MoveTyped
    <3> QED
      BY <1>1, <3>1 DEF Ledgers
  <2>3. Replace(Move(y.ledger, i, p), i, a[i]) \in Ledgers
    BY <1>1, <2>2, ReplaceTyped
  <2> QED
    BY <1>3, <1>7, <2>3
<1> QED
  BY <1>1, <1>2, <1>4, <1>5, <1>6, <1>7

LEMMA SettledKeeps ==
    ASSUME NEW p \in Players, NEW l0 \in Ledgers, NEW a \in Inventories,
           NEW ts \in Orderings(Requested(a)),
           NEW d, Explained(p, l0, a, d)
    PROVE  SettledUpTo(p, l0, a, d, Settled(p, Held(l0, p), a, ts, d)[Len(ts)],
                       Requested(a))
<1> DEFINE c == Held(l0, p)
           N == Len(ts)
           A == StagedStates
           F == [n \in 1..N |-> [y \in A |-> Settle(p, c, a, y, ts[n])]]
           turn == Settled(p, c, a, ts, d)
           done(n) == {ts[m] : m \in 1..n}
<1>1. /\ N \in Nat
      /\ \A n \in 1..N : ts[n] \in Requested(a)
      /\ \A i \in Requested(a) : \E n \in 1..N : ts[n] = i
  BY OrderingFacts
<1>2. ASSUME NEW n \in 1..N, NEW y \in A
      PROVE  Settle(p, c, a, y, ts[n]) \in A
  BY <1>1, SettleTyped
<1>3. d \in A
  BY DEF Explained
<1>4. turn = CHOOSE f : f = [n \in 0..N |-> IF n = 0 THEN d
                                ELSE Settle(p, c, a, f[n - 1], ts[n])]
  BY DEF Settled
<1> HIDE DEF A, c, N, turn
<1>5. F \in [1..N -> [A -> A]]
  BY <1>2
<1>6. ASSUME NEW n \in 1..N, NEW y \in A
      PROVE  F[n][y] = Settle(p, c, a, y, ts[n])
  BY <1>6
<1> HIDE DEF F
<1>7. PICK g \in [0..N -> A] :
            /\ g[0] = d
            /\ \A n \in 1..N : g[n] = F[n][g[n - 1]]
  <2>1. Turns(N, A, d, F) # {}
    BY <1>1, <1>3, <1>5, TurnsExist
  <2> QED
    BY <2>1 DEF Turns
<1>8. g = [n \in 0..N |-> IF n = 0 THEN d
                          ELSE Settle(p, c, a, g[n - 1], ts[n])]
  <2>1. ASSUME NEW n \in 0..N, n # 0
        PROVE  g[n] = Settle(p, c, a, g[n - 1], ts[n])
    <3>1. n \in 1..N /\ n - 1 \in 0..N
      BY <1>1, <2>1
    <3>2. g[n - 1] \in A
      BY <3>1
    <3> QED
      BY <1>6, <1>7, <3>1, <3>2
  <2> QED
    BY <1>7, <2>1
<1>9. turn = [n \in 0..N |-> IF n = 0 THEN d
                             ELSE Settle(p, c, a, turn[n - 1], ts[n])]
  BY <1>4, <1>8
<1> DEFINE J == {n \in 0..N : SettledUpTo(p, l0, a, d, turn[n], done(n))}
<1>10. 0 \in J
  <2>1. turn[0] = d /\ done(0) = {}
    BY <1>1, <1>9
  <2>2. SettledUpTo(p, l0, a, d, d, {})
    BY <1>3 DEF SettledUpTo, A
  <2>3. 0 \in 0..N
    BY <1>1
  <2> QED
    BY <2>1, <2>2, <2>3, Zenon
<1>11. ASSUME NEW n \in 1..N, n - 1 \in J
       PROVE  n \in J
  <2>1. turn[n] = Settle(p, c, a, turn[n - 1], ts[n])
    BY <1>1, <1>9
  <2>2. done(n) = done(n - 1) \cup {ts[n]}
    BY <1>1
  <2>3. SettledUpTo(p, l0, a, d, turn[n - 1], done(n - 1)) /\ ts[n] \in Requested(a)
    BY <1>1, <1>11
  <2> HIDE DEF done
  <2>4. SettledUpTo(p, l0, a, d, turn[n], done(n))
    BY <2>1, <2>2, <2>3, SettleKeeps DEF c
  <2> QED
    BY <1>1, <2>4
<1>12. \A n \in 1..N : n - 1 \in J => n \in J
  BY <1>11
<1> HIDE DEF J
<1>13. \A n \in 0..N : n \in J
  BY <1>1, <1>10, <1>12, UpTo
<1>14. N \in J
  BY <1>1, <1>13
<1>15. done(N) = Requested(a)
  BY <1>1
<1> HIDE DEF done
<1> QED
  BY <1>14, <1>15 DEF J, turn, N, c

---------------------------------------------------------------------------
(* What the last loop does, after the third one left `d`.                  *)

DroppedUpTo(a, d, x, done) ==
    /\ x \in StagedStates
    /\ x.away = d.away
    /\ x.ok =>
        /\ d.ok
        /\ \A i \in Instances :
            x.ledger[i] =
                IF i \in done /\ a[i] = NoItem /\ i \notin d.away
                THEN Unregistered ELSE d.ledger[i]

LEMMA DropTyped ==
    ASSUME NEW p, NEW a, NEW x \in StagedStates, NEW i \in Instances
    PROVE  Drop(p, a, x, i) \in StagedStates
<1>1. \/ Drop(p, a, x, i) = x
      \/ Drop(p, a, x, i) = [x EXCEPT !.ledger = Erase(x.ledger, i)]
      \/ Drop(p, a, x, i) = [x EXCEPT !.ok = FALSE]
  BY DEF Drop
<1>2. Erase(x.ledger, i) \in Ledgers
  BY DEF StagedStates, Erase, Ledgers
<1> QED
  BY <1>1, <1>2 DEF StagedStates

LEMMA DropKeeps ==
    ASSUME NEW p, NEW a, NEW d, NEW x, NEW done,
           DroppedUpTo(a, d, x, done), NEW i \in Instances
    PROVE  DroppedUpTo(a, d, Drop(p, a, x, i), done \cup {i})
<1> DEFINE turn == Drop(p, a, x, i)
<1>1. x \in StagedStates /\ x.away = d.away /\ x.ok \in BOOLEAN
  BY DEF DroppedUpTo, StagedStates
<1>2. \/ turn = x /\ (~x.ok \/ a[i] # NoItem \/ i \in x.away)
      \/ turn = [x EXCEPT !.ok = FALSE]
      \/ /\ x.ok /\ a[i] = NoItem /\ i \notin x.away
         /\ turn = [x EXCEPT !.ledger = Erase(x.ledger, i)]
  BY DEF Drop
<1> HIDE DEF turn
<1>3. CASE turn = x /\ (~x.ok \/ a[i] # NoItem \/ i \in x.away)
  BY <1>1, <1>3 DEF DroppedUpTo, turn
<1>4. CASE turn = [x EXCEPT !.ok = FALSE]
  <2>1. turn \in StagedStates /\ ~turn.ok /\ turn.away = x.away
    BY <1>1, <1>4 DEF StagedStates
  <2> QED
    BY <1>1, <2>1 DEF DroppedUpTo, turn
<1>5. CASE /\ x.ok /\ a[i] = NoItem /\ i \notin x.away
           /\ turn = [x EXCEPT !.ledger = Erase(x.ledger, i)]
  <2> DEFINE l == Erase(x.ledger, i)
  <2>1. /\ l \in Ledgers
        /\ l[i] = Unregistered
        /\ \A j \in Instances \ {i} : l[j] = x.ledger[j]
    BY <1>1 DEF StagedStates, Erase, Ledgers
  <2>2. turn = [x EXCEPT !.ledger = l]
    BY <1>5
  <2> HIDE DEF l
  <2>3. /\ turn \in StagedStates /\ turn.ledger = l
        /\ turn.away = x.away /\ turn.ok = x.ok
    BY <1>1, <2>1, <2>2 DEF StagedStates
  <2>4. /\ d.ok
        /\ \A j \in Instances :
            l[j] = IF j \in done \cup {i} /\ a[j] = NoItem /\ j \notin d.away
                   THEN Unregistered ELSE d.ledger[j]
    BY <1>1, <1>5, <2>1 DEF DroppedUpTo
  <2> QED
    BY <1>1, <2>3, <2>4 DEF DroppedUpTo, turn
<1> QED
  BY <1>2, <1>3, <1>4, <1>5

LEMMA DroppedKeeps ==
    ASSUME NEW p, NEW a, NEW c \in Inventories,
           NEW s \in Orderings(Requested(c)), NEW d \in StagedStates
    PROVE  DroppedUpTo(a, d, Dropped(p, a, s, d)[Len(s)], Requested(c))
<1> DEFINE N == Len(s)
           A == StagedStates
           F == [n \in 1..N |-> [y \in A |-> Drop(p, a, y, s[n])]]
           turn == Dropped(p, a, s, d)
           done(n) == {s[m] : m \in 1..n}
<1>1. /\ N \in Nat
      /\ \A n \in 1..N : s[n] \in Requested(c) /\ s[n] \in Instances
      /\ \A i \in Requested(c) : \E n \in 1..N : s[n] = i
  BY OrderingFacts DEF Requested
<1>2. ASSUME NEW n \in 1..N, NEW y \in A
      PROVE  Drop(p, a, y, s[n]) \in A
  BY <1>1, DropTyped
<1>3. turn = CHOOSE f : f = [n \in 0..N |-> IF n = 0 THEN d
                                ELSE Drop(p, a, f[n - 1], s[n])]
  BY DEF Dropped
<1> HIDE DEF A, N, turn
<1>4. F \in [1..N -> [A -> A]]
  BY <1>2
<1>5. ASSUME NEW n \in 1..N, NEW y \in A
      PROVE  F[n][y] = Drop(p, a, y, s[n])
  BY <1>5
<1> HIDE DEF F
<1>6. d \in A
  BY DEF A
<1>7. PICK g \in [0..N -> A] :
            /\ g[0] = d
            /\ \A n \in 1..N : g[n] = F[n][g[n - 1]]
  <2>1. Turns(N, A, d, F) # {}
    BY <1>1, <1>4, <1>6, TurnsExist
  <2> QED
    BY <2>1 DEF Turns
<1>8. g = [n \in 0..N |-> IF n = 0 THEN d ELSE Drop(p, a, g[n - 1], s[n])]
  <2>1. ASSUME NEW n \in 0..N, n # 0
        PROVE  g[n] = Drop(p, a, g[n - 1], s[n])
    <3>1. n \in 1..N /\ n - 1 \in 0..N
      BY <1>1, <2>1
    <3>2. g[n - 1] \in A
      BY <3>1
    <3> QED
      BY <1>5, <1>7, <3>1, <3>2
  <2> QED
    BY <1>7, <2>1
<1>9. turn = [n \in 0..N |-> IF n = 0 THEN d
                             ELSE Drop(p, a, turn[n - 1], s[n])]
  BY <1>3, <1>8
<1> DEFINE J == {n \in 0..N : DroppedUpTo(a, d, turn[n], done(n))}
<1>10. 0 \in J
  <2>1. turn[0] = d /\ done(0) = {}
    BY <1>1, <1>9
  <2>2. DroppedUpTo(a, d, d, {})
    BY DEF DroppedUpTo
  <2>3. 0 \in 0..N
    BY <1>1
  <2> QED
    BY <2>1, <2>2, <2>3, Zenon
<1>11. ASSUME NEW n \in 1..N, n - 1 \in J
       PROVE  n \in J
  <2>1. turn[n] = Drop(p, a, turn[n - 1], s[n])
    BY <1>1, <1>9
  <2>2. done(n) = done(n - 1) \cup {s[n]}
    BY <1>1
  <2>3. DroppedUpTo(a, d, turn[n - 1], done(n - 1)) /\ s[n] \in Instances
    BY <1>1, <1>11
  <2> HIDE DEF done
  <2>4. DroppedUpTo(a, d, turn[n], done(n))
    BY <2>1, <2>2, <2>3, DropKeeps
  <2> QED
    BY <1>1, <2>4
<1>12. \A n \in 1..N : n - 1 \in J => n \in J
  BY <1>11
<1> HIDE DEF J
<1>13. \A n \in 0..N : n \in J
  BY <1>1, <1>10, <1>12, UpTo
<1>14. N \in J
  BY <1>1, <1>13
<1>15. done(N) = Requested(c)
  BY <1>1
<1> HIDE DEF done
<1> QED
  BY <1>14, <1>15 DEF J, turn, N

---------------------------------------------------------------------------
(* The four loops together.                                                *)

\* Whatever ledger, request and order of the two fields: if no call is
\* refused, the loops leave the sender the accepted inventory and everybody
\* else what the request does not list, and every owner allows it.
LEMMA StagedSettles ==
    ASSUME NEW p \in Players, NEW l0 \in Ledgers, NEW a \in Inventories,
           NEW ts \in Orderings(Requested(a)),
           NEW s \in Orderings(Requested(Held(l0, p))),
           Staged(p, l0, Held(l0, p), a, ts, s).ok
    PROVE  /\ Staged(p, l0, Held(l0, p), a, ts, s).ledger =
                SettledLedger(p, l0, a)
           /\ OwnershipAllows(p, l0, a)
<1> DEFINE c == Held(l0, p)
           d1 == Merged(p, l0, c, a, ts, s)[Len(ts)]
           d2 == Divided(p, c, a, ts, d1)[Len(ts)]
           d3 == Settled(p, c, a, ts, d2)[Len(ts)]
           d4 == Dropped(p, a, s, d3)[Len(s)]
<1>1. c \in Inventories
  BY HeldTyped
<1>2. Explained(p, l0, a, d1)
  BY MergedKeeps
<1> HIDE DEF d1
<1>3. Explained(p, l0, a, d2)
  BY <1>2, DividedKeeps
<1> HIDE DEF d2
<1>4. SettledUpTo(p, l0, a, d2, d3, Requested(a))
  BY <1>3, SettledKeeps
<1> HIDE DEF d3
<1>5. DroppedUpTo(a, d3, d4, Requested(c))
  <2>1. d3 \in StagedStates
    BY <1>4 DEF SettledUpTo
  <2> QED
    BY <1>1, <2>1, DroppedKeeps
<1>6. Staged(p, l0, c, a, ts, s) = d4
  BY DEF Staged, d1, d2, d3
<1> HIDE DEF d4
<1>7. /\ d3.ok /\ d3.away = d2.away /\ d4.ledger \in Ledgers
      /\ \A i \in Instances :
            d4.ledger[i] =
                IF i \in Requested(c) /\ a[i] = NoItem /\ i \notin d2.away
                THEN Unregistered ELSE d3.ledger[i]
  BY <1>4, <1>5, <1>6 DEF DroppedUpTo, SettledUpTo, StagedStates
<1>8. /\ \A i \in Requested(a) : /\ d3.ledger[i] = [item |-> a[i], location |-> p]
                                 /\ Allows(p, l0, a, i)
      /\ \A i \in Instances : a[i] = NoItem => d3.ledger[i] = d2.ledger[i]
  BY <1>4, <1>7 DEF SettledUpTo, Requested
<1>9. ASSUME NEW i \in Instances
      PROVE  d4.ledger[i] = SettledLedger(p, l0, a)[i]
  <2>1. CASE a[i] # NoItem
    <3>1. d4.ledger[i] = [item |-> a[i], location |-> p]
      BY <1>7, <1>8, <2>1 DEF Requested
    <3> QED
      BY <2>1, <3>1 DEF SettledLedger
  <2>2. CASE a[i] = NoItem /\ ~AtLocation(l0, i, p)
    <3>1. c[i] = NoItem
      BY <2>2, HeldTyped
    <3>2. d2.ledger[i] = l0[i]
      BY <1>3, <2>2, <3>1 DEF Explained
    <3>3. d4.ledger[i] = l0[i]
      BY <1>7, <1>8, <2>2, <3>1, <3>2 DEF Requested
    <3> QED
      BY <2>2, <3>3 DEF SettledLedger
  <2>3. CASE a[i] = NoItem /\ AtLocation(l0, i, p)
    <3>1. c[i] # NoItem
      BY <2>3, HeldTyped
    <3>2. i \in d2.away => d2.ledger[i] = Unregistered
      BY <1>3, <2>3, <3>1 DEF Explained
    <3>3. d4.ledger[i] = Unregistered
      BY <1>7, <1>8, <2>3, <3>1, <3>2 DEF Requested
    <3> QED
      BY <2>3, <3>3 DEF SettledLedger
  <2> QED
    BY <2>1, <2>2, <2>3
<1>10. d4.ledger = SettledLedger(p, l0, a)
  BY <1>7, <1>9 DEF Ledgers, SettledLedger
<1>11. OwnershipAllows(p, l0, a)
  BY <1>8 DEF OwnershipAllows, Allows
<1> QED
  BY <1>6, <1>10, <1>11

\* The abstract update is the code's: HandleProfileUpdate gives the server
\* the ledger that every order of the fields with which the loops finish
\* leaves (server_core::handle_profile_update).
UpdateRunsLoops ==
    [][\A p \in Players, accepted \in Inventories :
        HandleProfileUpdate(p, accepted) =>
            \A targets \in Orderings(Requested(accepted)),
               sources \in Orderings(Requested(profile[p].inventory)) :
                LET staged == Staged(p, items, profile[p].inventory, accepted,
                                     targets, sources)
                IN  staged.ok => items' = staged.ledger]_vars

\* So every profile update of every behaviour does what the loops of
\* server_core::handle_profile_update do, in whatever order they run.
THEOREM UpdatesAreTheLoops == Spec => UpdateRunsLoops
<1>1. ASSUME IInv, [Next]_vars
      PROVE  [\A p \in Players, accepted \in Inventories :
                HandleProfileUpdate(p, accepted) =>
                    \A targets \in Orderings(Requested(accepted)),
                       sources \in Orderings(Requested(profile[p].inventory)) :
                        LET staged == Staged(p, items, profile[p].inventory,
                                             accepted, targets, sources)
                        IN  staged.ok => items' = staged.ledger]_vars
  <2> SUFFICES ASSUME NEW p \in Players, NEW accepted \in Inventories,
                      HandleProfileUpdate(p, accepted),
                      NEW targets \in Orderings(Requested(accepted)),
                      NEW sources \in Orderings(Requested(profile[p].inventory)),
                      Staged(p, items, profile[p].inventory, accepted,
                             targets, sources).ok
               PROVE  items' = Staged(p, items, profile[p].inventory, accepted,
                                      targets, sources).ledger
    OBVIOUS
  <2>1. items \in Ledgers /\ up
    BY <1>1 DEF IInv, TypeOK, HandleProfileUpdate, Idle
  <2>2. profile[p].inventory = Held(items, p)
    <3>1. profile[p].inventory \in Inventories
      BY <1>1 DEF IInv, TypeOK, ProfileRecord
    <3>2. \A i \in Instances : profile[p].inventory[i] = Held(items, p)[i]
      BY <1>1, <2>1 DEF IInv, LedgerAgrees
    <3> QED
      BY <3>1, <3>2, <2>1, HeldTyped DEF Inventories
  <2>3. items' = SettledLedger(p, items, accepted)
    BY DEF HandleProfileUpdate
  <2> QED
    BY <2>1, <2>2, <2>3, StagedSettles
<1> QED
  BY <1>1, Invariance, PTL DEF Spec, UpdateRunsLoops

---------------------------------------------------------------------------
(* ProfileLoops.                                                           *)

LoopInv ==
    /\ known \in Ledgers
    /\ wanted \in Inventories
    /\ wantedOrder \in Orderings(Requested(wanted))
    /\ heldOrder \in Orderings(Requested(HeldBySender))
    /\ \/ outcome = NotRun
       \/ outcome = Staged(Sender, known, HeldBySender, wanted,
                           wantedOrder, heldOrder)

LEMMA LoopInvariance == LoopSpec => []LoopInv
<1>1. LoopInit => LoopInv
  BY DEF LoopInit, LoopInv
<1>2. LoopInv /\ [RunLoops]_loopVars => LoopInv'
  BY DEF LoopInv, RunLoops, loopVars, HeldBySender
<1> QED
  BY <1>1, <1>2, PTL DEF LoopSpec

LEMMA RunSettles ==
    ASSUME LoopInv, outcome.ok
    PROVE  LoopsSettle /\ LoopsRespectOwners
<1>1. HeldBySender = Held(known, Sender)
  BY DEF HeldBySender, Held
<1>2. outcome = Staged(Sender, known, Held(known, Sender), wanted,
                       wantedOrder, heldOrder)
  BY <1>1 DEF LoopInv, NotRun
<1>3. heldOrder \in Orderings(Requested(Held(known, Sender)))
  BY <1>1 DEF LoopInv
<1> QED
  BY <1>2, <1>3, SenderIsPlayer, StagedSettles
  DEF LoopInv, LoopsSettle, LoopsRespectOwners

\* Whatever the ledger, the request and the order of the fields, the loops of
\* handle_profile_update leave what SettledLedger says.
THEOREM LoopsAmountToSettled == LoopSpec => []LoopsSettle
<1>1. LoopInv => LoopsSettle
  BY RunSettles DEF LoopsSettle
<1> QED
  BY <1>1, LoopInvariance, PTL

\* And they finish only if every owner allows what the request asks for.
THEOREM LoopsAskOwners == LoopSpec => []LoopsRespectOwners
<1>1. LoopInv => LoopsRespectOwners
  BY RunSettles DEF LoopsRespectOwners
<1> QED
  BY <1>1, LoopInvariance, PTL

---------------------------------------------------------------------------
(* How many items there are.                                               *)

LEMMA UnitsFinite ==
    ASSUME NEW ledger, NEW d
    PROVE  IsFiniteSet(Units(ledger, d))
<1>1. IsFiniteSet(1..MaxItemCount)
  BY FS_Interval, MaxItemCountIsPositive
<1>2. IsFiniteSet(Instances \X (1..MaxItemCount))
  BY <1>1, InstancesAreFinite, FS_Product
<1>3. Units(ledger, d) \in SUBSET (Instances \X (1..MaxItemCount))
  BY DEF Units
<1> QED
  BY <1>2, <1>3, FS_Subset

LEMMA CountInTyped ==
    ASSUME NEW ledger \in Ledgers, NEW d, NEW i \in Instances
    PROVE  CountIn(ledger, d, i) \in 0..MaxItemCount
BY MaxItemCountIsPositive DEF CountIn, Ledgers, Entry, Item

LEMMA SameCountsSameTotal ==
    ASSUME NEW old, NEW new, NEW d,
           \A i \in Instances : CountIn(new, d, i) = CountIn(old, d, i)
    PROVE  Total(new, d) = Total(old, d)
<1>1. Units(new, d) = Units(old, d)
  BY DEF Units
<1> QED
  BY <1>1 DEF Total

\* Items that pass from one stack to another are as many as before: the last n
\* items of the source become the last n of the target.
LEMMA ShiftConserves ==
    ASSUME NEW old \in Ledgers, NEW new \in Ledgers, NEW d,
           NEW s \in Instances, NEW t \in Instances, s # t, NEW n \in Nat,
           CountIn(new, d, s) = CountIn(old, d, s) - n,
           CountIn(new, d, t) = CountIn(old, d, t) + n,
           \A i \in Instances \ {s, t} : CountIn(new, d, i) = CountIn(old, d, i)
    PROVE  Total(new, d) = Total(old, d)
<1> DEFINE rest == CountIn(new, d, s)
           base == CountIn(old, d, t)
           U == Units(old, d)
           V == Units(new, d)
           f == [u \in U |-> IF u[1] = s /\ u[2] > rest
                             THEN <<t, base + (u[2] - rest)>> ELSE u]
<1>1. /\ rest \in 0..MaxItemCount /\ base \in 0..MaxItemCount
      /\ CountIn(old, d, s) = rest + n /\ CountIn(new, d, t) = base + n
      /\ rest + n \in 0..MaxItemCount /\ base + n \in 0..MaxItemCount
      /\ MaxItemCount \in Nat
  BY CountInTyped, MaxItemCountIsPositive
<1>2. /\ \A u \in U : /\ u = <<u[1], u[2]>> /\ u[1] \in Instances
                      /\ u[2] \in 1..MaxItemCount
                      /\ u[2] <= CountIn(old, d, u[1])
      /\ \A i \in Instances, k \in 1..MaxItemCount :
            /\ k <= CountIn(old, d, i) => <<i, k>> \in U
            /\ k <= CountIn(new, d, i) => <<i, k>> \in V
      /\ \A v \in V : /\ v = <<v[1], v[2]>> /\ v[1] \in Instances
                      /\ v[2] \in 1..MaxItemCount
                      /\ v[2] <= CountIn(new, d, v[1])
  BY DEF Units
<1> HIDE DEF rest, base, U, V
<1>3. ASSUME NEW u \in U
      PROVE  f[u] \in V
  <2>1. CASE u[1] = s /\ u[2] > rest
    <3>1. /\ base + (u[2] - rest) \in 1..MaxItemCount
          /\ base + (u[2] - rest) <= CountIn(new, d, t)
      BY <1>1, <1>2, <2>1
    <3> QED
      BY <1>2, <2>1, <3>1
  <2>2. CASE ~(u[1] = s /\ u[2] > rest)
    <3>1. u[2] <= CountIn(new, d, u[1])
      <4>1. CASE u[1] = s
        BY <1>1, <1>2, <2>2, <4>1 DEF rest
      <4>2. CASE u[1] = t
        BY <1>1, <1>2, <4>2 DEF base
      <4>3. CASE u[1] \notin {s, t}
        BY <1>2, <4>3
      <4> QED
        BY <4>1, <4>2, <4>3
    <3>2. f[u] = <<u[1], u[2]>>
      BY <1>2, <2>2
    <3> QED
      BY <1>2, <3>1, <3>2
  <2> QED
    BY <2>1, <2>2
<1>4. ASSUME NEW u \in U, NEW w \in U, f[u] = f[w]
      PROVE  u = w
  <2>1. ASSUME NEW x \in U, x[1] = s, x[2] > rest, NEW y \in U,
               ~(y[1] = s /\ y[2] > rest)
        PROVE  f[x] # f[y]
    <3>1. f[x] = <<t, base + (x[2] - rest)>> /\ f[y] = y
      BY <2>1
    <3>2. SUFFICES ASSUME y = <<t, base + (x[2] - rest)>>
                   PROVE  FALSE
      BY <3>1
    <3>3. y[1] = t /\ y[2] = base + (x[2] - rest)
      BY <3>2
    <3>4. y[2] <= base
      BY <1>2, <3>3 DEF base
    <3> QED
      BY <1>1, <1>2, <2>1, <3>3, <3>4
  <2>2. CASE (u[1] = s /\ u[2] > rest) /\ (w[1] = s /\ w[2] > rest)
    <3>1. <<t, base + (u[2] - rest)>> = <<t, base + (w[2] - rest)>>
      BY <1>4, <2>2
    <3>2. base + (u[2] - rest) = base + (w[2] - rest)
      BY <3>1
    <3>3. u[2] = w[2]
      BY <1>1, <1>2, <3>2
    <3> QED
      BY <1>2, <2>2, <3>3
  <2>3. CASE ~(u[1] = s /\ u[2] > rest) /\ ~(w[1] = s /\ w[2] > rest)
    BY <1>4, <2>3
  <2> QED
    BY <1>4, <2>1, <2>2, <2>3
<1>5. ASSUME NEW v \in V
      PROVE  \E u \in U : f[u] = v
  <2>1. CASE v[1] = t /\ v[2] > base
    <3> DEFINE k == rest + (v[2] - base)
    <3>1. k \in 1..MaxItemCount /\ k <= CountIn(old, d, s) /\ k > rest
      BY <1>1, <1>2, <2>1
    <3>2. <<s, k>> \in U
      BY <1>2, <3>1
    <3>3. f[<<s, k>>] = <<t, base + (k - rest)>>
      BY <3>1, <3>2
    <3>4. base + (k - rest) = v[2]
      BY <1>1, <1>2
    <3>5. v = <<t, v[2]>>
      BY <1>2, <2>1
    <3> HIDE DEF f, k
    <3> QED
      BY <3>2, <3>3, <3>4, <3>5
  <2>2. CASE ~(v[1] = t /\ v[2] > base)
    <3>1. v[2] <= CountIn(old, d, v[1]) /\ ~(v[1] = s /\ v[2] > rest)
      <4>1. CASE v[1] = s
        <5>1. v[2] <= rest /\ v[2] \in Nat
          BY <1>2, <4>1 DEF rest
        <5>2. v[2] <= rest + n
          BY <1>1, <5>1
        <5> QED
          BY <1>1, <4>1, <5>1, <5>2
      <4>2. CASE v[1] = t
        BY <1>1, <1>2, <2>2, <4>2 DEF base
      <4>3. CASE v[1] \notin {s, t}
        BY <1>2, <4>3
      <4> QED
        BY <4>1, <4>2, <4>3
    <3>2. v \in U
      BY <1>2, <3>1
    <3>3. f[v] = v
      BY <3>1, <3>2
    <3> HIDE DEF f
    <3> QED
      BY <3>2, <3>3
  <2> QED
    BY <2>1, <2>2
<1>6. f \in Bijection(U, V)
  <2>1. f \in [U -> V]
    BY <1>3
  <2>2. \A u, w \in U : f[u] = f[w] => u = w
    BY <1>4
  <2>3. \A v \in V : \E u \in U : f[u] = v
    BY <1>5
  <2> HIDE DEF f
  <2> QED
    BY <2>1, <2>2, <2>3 DEF Bijection, Injection, Surjection, IsInjective
<1> HIDE DEF f
<1>7. ExistsBijection(U, V)
  BY <1>6 DEF ExistsBijection
<1>8. IsFiniteSet(U)
  BY UnitsFinite DEF U
<1>9. Cardinality(V) = Cardinality(U)
  BY <1>7, <1>8, FS_Bijection
<1> QED
  BY <1>9 DEF Total, U, V

LEMMA MergeConserves ==
    ASSUME NEW ledger \in Ledgers, NEW s \in Instances, NEW t \in Instances,
           NEW sl, NEW tl, NEW n \in Nat,
           CanMerge(ledger, s, sl, t, tl, n), NEW d
    PROVE  Total(Merge(ledger, s, t, n), d) = Total(ledger, d)
<1> DEFINE new == Merge(ledger, s, t, n)
<1>1. /\ new \in Ledgers
      /\ new[t] = [item |-> WithCount(ledger[t].item, ledger[t].item.count + n),
                   location |-> tl]
      /\ new[t] # Unregistered
      /\ n = ledger[s].item.count => new[s] = Unregistered
      /\ n # ledger[s].item.count =>
            /\ new[s] = [item |-> WithCount(ledger[s].item,
                                            ledger[s].item.count - n),
                         location |-> sl]
            /\ new[s] # Unregistered
      /\ \A j \in Instances \ {s, t} : new[j] = ledger[j]
  BY MergeTyped
<1>2. /\ s # t
      /\ ledger[s] # Unregistered /\ ledger[t] # Unregistered
      /\ ledger[s].item \in Item /\ ledger[t].item \in Item
      /\ ledger[s].item.definition = ledger[t].item.definition
      /\ ledger[s].item.count \in Nat /\ ledger[t].item.count \in Nat
  BY MaxItemCountIsPositive
  DEF CanMerge, AtLocation, Ledgers, Entry, Item, Stackable
<1> HIDE DEF new
<1>3. \A j \in Instances \ {s, t} : CountIn(new, d, j) = CountIn(ledger, d, j)
  BY <1>1 DEF CountIn
<1>4. CASE ledger[s].item.definition = d
  <2>1. CountIn(new, d, t) = CountIn(ledger, d, t) + n
    BY <1>1, <1>2, <1>4 DEF CountIn, WithCount
  <2>2. CountIn(new, d, s) = CountIn(ledger, d, s) - n
    BY <1>1, <1>2, <1>4 DEF CountIn, WithCount
  <2> QED
    BY <1>1, <1>2, <1>3, <2>1, <2>2, ShiftConserves DEF new
<1>5. CASE ledger[s].item.definition # d
  <2>1. /\ CountIn(new, d, s) = CountIn(ledger, d, s)
        /\ CountIn(new, d, t) = CountIn(ledger, d, t)
    BY <1>1, <1>2, <1>5 DEF CountIn, WithCount
  <2>2. \A j \in Instances : CountIn(new, d, j) = CountIn(ledger, d, j)
    BY <1>3, <2>1
  <2> QED
    BY <2>2, SameCountsSameTotal DEF new
<1> QED
  BY <1>4, <1>5

LEMMA SplitConserves ==
    ASSUME NEW ledger \in Ledgers, NEW s \in Instances, NEW t \in Instances,
           NEW sl, NEW n \in Nat, NEW destination \in Locations,
           CanSplit(ledger, s, sl, t, n), NEW d
    PROVE  Total(Split(ledger, s, t, n, destination), d) = Total(ledger, d)
<1> DEFINE new == Split(ledger, s, t, n, destination)
<1>1. /\ new \in Ledgers
      /\ s # t
      /\ new[s] = [item |-> WithCount(ledger[s].item, ledger[s].item.count - n),
                   location |-> sl]
      /\ new[t] = [item |-> WithCount(ledger[s].item, n),
                   location |-> destination]
      /\ new[s] # Unregistered /\ new[t] # Unregistered
      /\ \A j \in Instances \ {s, t} : new[j] = ledger[j]
  BY SplitTyped
<1>2. /\ ledger[s] # Unregistered /\ ledger[t] = Unregistered
      /\ ledger[s].item.count \in Nat
  BY MaxItemCountIsPositive DEF CanSplit, AtLocation, Ledgers, Entry, Item
<1> HIDE DEF new
<1>3. \A j \in Instances \ {s, t} : CountIn(new, d, j) = CountIn(ledger, d, j)
  BY <1>1 DEF CountIn
<1>4. CASE ledger[s].item.definition = d
  <2>1. CountIn(new, d, t) = CountIn(ledger, d, t) + n
    BY <1>1, <1>2, <1>4 DEF CountIn, WithCount
  <2>2. CountIn(new, d, s) = CountIn(ledger, d, s) - n
    BY <1>1, <1>2, <1>4 DEF CountIn, WithCount
  <2> QED
    BY <1>1, <1>3, <2>1, <2>2, ShiftConserves DEF new
<1>5. CASE ledger[s].item.definition # d
  <2>1. /\ CountIn(new, d, s) = CountIn(ledger, d, s)
        /\ CountIn(new, d, t) = CountIn(ledger, d, t)
    BY <1>1, <1>2, <1>5 DEF CountIn, WithCount
  <2>2. \A j \in Instances : CountIn(new, d, j) = CountIn(ledger, d, j)
    BY <1>3, <2>1
  <2> QED
    BY <2>2, SameCountsSameTotal DEF new
<1> QED
  BY <1>4, <1>5

LEMMA MoveConserves ==
    ASSUME NEW ledger \in Ledgers, NEW i \in Instances, NEW sl,
           NEW destination \in Locations, CanMove(ledger, i, sl), NEW d
    PROVE  Total(Move(ledger, i, destination), d) = Total(ledger, d)
<1> DEFINE new == Move(ledger, i, destination)
<1>1. /\ new[i] = [item |-> ledger[i].item, location |-> destination]
      /\ new[i] # Unregistered /\ ledger[i] # Unregistered
      /\ \A j \in Instances \ {i} : new[j] = ledger[j]
  BY MoveTyped DEF CanMove, AtLocation
<1> HIDE DEF new
<1>2. CountIn(new, d, i) = CountIn(ledger, d, i)
  BY <1>1 DEF CountIn
<1>3. \A j \in Instances \ {i} : CountIn(new, d, j) = CountIn(ledger, d, j)
  BY <1>1 DEF CountIn
<1>4. \A j \in Instances : CountIn(new, d, j) = CountIn(ledger, d, j)
  BY <1>2, <1>3
<1> QED
  BY <1>4, SameCountsSameTotal DEF new

LEMMA ReplaceConserves ==
    ASSUME NEW ledger \in Ledgers, NEW i \in Instances, NEW item \in Item,
           ledger[i] \in Entry, SameStack(ledger[i].item, item), NEW d
    PROVE  Total(Replace(ledger, i, item), d) = Total(ledger, d)
<1> DEFINE new == Replace(ledger, i, item)
<1>1. /\ new[i] = [item |-> item, location |-> ledger[i].location]
      /\ new[i] # Unregistered /\ ledger[i] # Unregistered
      /\ \A j \in Instances \ {i} : new[j] = ledger[j]
  BY ReplaceTyped, UnregisteredIsNoEntry
<1> HIDE DEF new
<1>2. CountIn(new, d, i) = CountIn(ledger, d, i)
  BY <1>1 DEF CountIn, SameStack, Stackable
<1>3. \A j \in Instances \ {i} : CountIn(new, d, j) = CountIn(ledger, d, j)
  BY <1>1 DEF CountIn
<1>4. \A j \in Instances : CountIn(new, d, j) = CountIn(ledger, d, j)
  BY <1>2, <1>3
<1> QED
  BY <1>4, SameCountsSameTotal DEF new

---------------------------------------------------------------------------
(* A running update of a known container stages no more and no fewer items *)
(* than the server has: its turns only split, merge and move.              *)

StagedConserves ==
    tx # NoTransaction /\ object[tx.guid].revision # 0 =>
        \A d \in Definitions : Total(tx.ledger, d) = Total(items, d)

LEMMA TurnConserves ==
    ASSUME IInv, tx # NoTransaction, StagedConserves,
           NEW i \in tx.todo \cup tx.leaving,
           NEW ledger, NEW inventory, NEW changed,
           Done(i, ledger, inventory, changed), KeepsRest,
           object[tx.guid].revision # 0 =>
                \A d \in Definitions : Total(ledger, d) = Total(tx.ledger, d)
    PROVE  StagedConserves'
<1>1. tx \in Transactions
  BY DEF IInv, TypeOK
<1>2. /\ tx'.guid = tx.guid /\ tx'.ledger = ledger
      /\ object' = object /\ items' = items
  BY <1>1 DEF Done, Transactions, KeepsRest, memory
<1>3. \A d : Total(tx.ledger, d)' = Total(tx'.ledger, d)
  OBVIOUS
<1> QED
  BY <1>2, <1>3 DEF StagedConserves

LEMMA TakeConserves ==
    ASSUME IInv, StagedConserves, TakeItem
    PROVE  StagedConserves'
<1>1. tx # NoTransaction
  BY DEF TakeItem, InObjectUpdate
<1>2. PICK i \in tx.todo :
        \/ \E s \in Instances : GrowContainerStack(i, s) \/ SplitIntoContainer(i, s)
        \/ RegisterContents(i)
        \/ Deposit(i)
  BY DEF TakeItem
<1>3. /\ tx.player \in Locations /\ tx.guid \in Locations
      /\ tx.ledger \in Ledgers /\ i \in Instances
      /\ tx.requested[i] \in Item
      /\ Held(tx.ledger, tx.guid)[i] = Previous(i)
  BY <1>1, StagedFacts
<1>4. ASSUME NEW s \in Instances, GrowContainerStack(i, s)
      PROVE  StagedConserves'
  <2> DEFINE n == tx.requested[i].count - Previous(i).count
  <2>1. /\ CanMerge(tx.ledger, s, tx.player, i, tx.guid, n)
        /\ Done(i, Merge(tx.ledger, s, i, n), TakenFrom(tx.inventory, s, n), TRUE)
        /\ KeepsRest
    BY <1>4 DEF GrowContainerStack, CanGrow
  <2>2. n \in Nat
    <3>1. Previous(i) \in Item
      BY <1>3, <2>1, HeldTyped DEF CanMerge
    <3> QED
      BY <1>3, <2>1, <3>1 DEF CanMerge, Item
  <2> HIDE DEF n
  <2>3. \A d : Total(Merge(tx.ledger, s, i, n), d) = Total(tx.ledger, d)
    BY <1>3, <2>1, <2>2, MergeConserves
  <2> QED
    BY <1>1, <2>1, <2>3, TurnConserves
<1>5. ASSUME NEW s \in Instances, SplitIntoContainer(i, s)
      PROVE  StagedConserves'
  <2> DEFINE n == tx.requested[i].count
  <2>1. /\ CanSplit(tx.ledger, s, tx.player, i, n)
        /\ Done(i, Split(tx.ledger, s, i, n, tx.guid),
                TakenFrom(tx.inventory, s, n), TRUE)
        /\ KeepsRest
    BY <1>5 DEF SplitIntoContainer, CanSplitInto
  <2>2. n \in Nat
    BY <1>3 DEF Item
  <2> HIDE DEF n
  <2>3. \A d : Total(Split(tx.ledger, s, i, n, tx.guid), d) = Total(tx.ledger, d)
    BY <1>3, <2>1, <2>2, SplitConserves
  <2> QED
    BY <1>1, <2>1, <2>3, TurnConserves
<1>6. CASE RegisterContents(i)
  <2>1. /\ object[tx.guid].revision = 0
        /\ Done(i, Register(tx.ledger, i, tx.requested[i], tx.guid),
                tx.inventory, tx.changed)
        /\ KeepsRest
    BY <1>6 DEF RegisterContents, CanRegisterIn
  <2> QED
    BY <1>1, <2>1, TurnConserves
<1>7. CASE Deposit(i)
  <2> DEFINE moved == Move(tx.ledger, i, tx.guid)
             placed == Replace(moved, i, tx.requested[i])
  <2>1. /\ CanMove(tx.ledger, i, tx.player)
        /\ SameStack(tx.ledger[i].item, tx.requested[i])
        /\ Done(i, placed, Without(tx.inventory, {i}), TRUE)
        /\ KeepsRest
    BY <1>7 DEF Deposit, CanDeposit, CanMove
  <2>2. /\ moved \in Ledgers /\ moved[i] # Unregistered
        /\ moved[i].item = tx.ledger[i].item
    <3>1. /\ moved \in Ledgers /\ moved[i] # Unregistered
          /\ moved[i] = [item |-> tx.ledger[i].item, location |-> tx.guid]
      BY <1>3, <2>1, MoveTyped
    <3> QED
      BY <3>1
  <2>3. moved[i] \in Entry
    BY <1>3, <2>2 DEF Ledgers
  <2>4. \A d : Total(moved, d) = Total(tx.ledger, d)
    BY <1>3, <2>1, MoveConserves
  <2> HIDE DEF moved
  <2>5. \A d : Total(placed, d) = Total(moved, d)
    BY <1>3, <2>1, <2>2, <2>3, ReplaceConserves
  <2> HIDE DEF placed
  <2> QED
    BY <1>1, <2>1, <2>4, <2>5, TurnConserves
<1> QED
  BY <1>2, <1>4, <1>5, <1>6, <1>7

LEMMA WithdrawConserves ==
    ASSUME IInv, StagedConserves, WithdrawItem
    PROVE  StagedConserves'
<1>1. tx # NoTransaction
  BY DEF WithdrawItem, InObjectUpdate
<1>2. PICK i \in tx.leaving :
        \/ \E s \in Instances : WithdrawIntoStack(i, s)
        \/ WithdrawWhole(i)
  BY DEF WithdrawItem
<1>3. /\ tx.player \in Locations /\ tx.guid \in Locations
      /\ tx.ledger \in Ledgers /\ i \in Instances
      /\ Held(tx.ledger, tx.guid)[i] = Previous(i)
  BY <1>1, StagedFacts
<1>4. ASSUME NEW s \in Instances, WithdrawIntoStack(i, s)
      PROVE  StagedConserves'
  <2> DEFINE n == Previous(i).count
  <2>1. /\ CanMerge(tx.ledger, i, tx.guid, s, tx.player, n)
        /\ Done(i, Merge(tx.ledger, i, s, n), AddedTo(tx.inventory, s, n), TRUE)
        /\ KeepsRest
    BY <1>4 DEF WithdrawIntoStack, CanWithdrawInto
  <2>2. n \in Nat
    <3>1. Previous(i) \in Item
      BY <1>3, <2>1, HeldTyped DEF CanMerge
    <3> QED
      BY <3>1 DEF Item
  <2> HIDE DEF n
  <2>3. \A d : Total(Merge(tx.ledger, i, s, n), d) = Total(tx.ledger, d)
    BY <1>3, <2>1, <2>2, MergeConserves
  <2> QED
    BY <1>1, <2>1, <2>3, TurnConserves
<1>5. CASE WithdrawWhole(i)
  <2>1. /\ CanMove(tx.ledger, i, tx.guid)
        /\ Done(i, Move(tx.ledger, i, tx.player),
                [tx.inventory EXCEPT ![i] = Previous(i)], TRUE)
        /\ KeepsRest
    BY <1>5 DEF WithdrawWhole, CanWithdrawWhole, CanMove
  <2>2. \A d : Total(Move(tx.ledger, i, tx.player), d) = Total(tx.ledger, d)
    BY <1>3, <2>1, MoveConserves
  <2> QED
    BY <1>1, <2>1, <2>2, TurnConserves
<1> QED
  BY <1>2, <1>4, <1>5

LEMMA NextConserves ==
    ASSUME IInv, StagedConserves, Next
    PROVE  StagedConserves'
<1>1. CASE tx' = NoTransaction
  BY <1>1 DEF StagedConserves
<1>2. CASE UNCHANGED <<tx, items, object>>
  BY <1>2 DEF StagedConserves
<1>3. CASE ProfileUpdates
  BY <1>1, <1>3 DEF ProfileUpdates, HandleProfileUpdate, Idle
<1>4. CASE ObjectUpdates
  <2>1. ASSUME NEW p \in Players, NEW g \in Containers,
               NEW requested \in Inventories, BeginObjectUpdate(p, g, requested)
        PROVE  StagedConserves'
    <3>1. tx'.ledger = items /\ items' = items
      BY <2>1 DEF BeginObjectUpdate, memory
    <3> QED
      BY <3>1 DEF StagedConserves
  <2>2. CASE RejectObjectUpdate \/ CommitObjectUpdate
    BY <1>1, <2>2 DEF RejectObjectUpdate, CommitObjectUpdate
  <2> QED
    BY <1>4, <2>1, <2>2, TakeConserves, WithdrawConserves DEF ObjectUpdates
<1>5. CASE WorldItemUpdates
  <2>1. PICK p \in Players, i \in Instances :
          \/ DropWhole(p, i)
          \/ \E source \in Instances, count \in 1..MaxItemCount :
                DropPart(p, source, i, count)
          \/ Reposition(p, i)
          \/ PickUp(p, i)
          \/ \E item \in Item : PickUpAuthored(p, i, item)
          \/ Retire(p, i)
    BY <1>5 DEF WorldItemUpdates
  <2>2. CASE Reposition(p, i) \/ PickUp(p, i) \/ Retire(p, i) \/ DropWhole(p, i)
    BY <1>1, <2>2 DEF Reposition, PickUp, Retire, DropWhole, AcceptsWorldItem,
                      Idle, CommitWorldItem
  <2>3. ASSUME NEW source, NEW count, DropPart(p, source, i, count)
        PROVE  StagedConserves'
    BY <1>1, <2>3 DEF DropPart, AcceptsWorldItem, Idle, CommitWorldItem
  <2>4. ASSUME NEW item, PickUpAuthored(p, i, item)
        PROVE  StagedConserves'
    BY <1>1, <2>4 DEF PickUpAuthored, AcceptsWorldItem, Idle, CommitWorldItem
  <2> QED
    BY <2>1, <2>2, <2>3, <2>4
<1>6. CASE Persistence
  <2>1. \/ UNCHANGED <<tx, items, object>>
        \/ tx' = NoTransaction
    BY <1>6 DEF Persistence, WriteProfile, WriteObjects, WriteItems, Crash,
                Restart, memory, IInv, StagedAgrees, StagedContents
  <2> QED
    BY <1>1, <1>2, <2>1
<1> QED
  BY <1>3, <1>4, <1>5, <1>6 DEF Next

LEMMA ConservationInvariance == Spec => []StagedConserves
<1>1. Init => StagedConserves
  BY DEF Init, StagedConserves
<1>2. IInv /\ StagedConserves /\ [Next]_vars => StagedConserves'
  BY NextConserves DEF vars, StagedConserves
<1> QED
  BY <1>1, <1>2, Invariance, PTL DEF Spec

\* No transfer duplicates items or loses some, however the containers and
\* stacks are shared out and in whatever order the loops take them: container
\* updates, drops and pickups keep the number of items of every definition.
THEOREM TransfersKeepTotals == Spec => TransfersConserve
<1> DEFINE Keeps == Transfer =>
                \A d \in Definitions : Total(items', d) = Total(items, d)
<1>1. IInv /\ StagedConserves /\ [Next]_vars => [Keeps]_vars
  <2> SUFFICES ASSUME IInv, StagedConserves, Transfer, NEW d \in Definitions
               PROVE  Total(items', d) = Total(items, d)
    BY DEF vars
  <2>1. items \in Ledgers
    BY DEF IInv, TypeOK
  <2>2. CASE CommitObjectUpdate /\ object[tx.guid].revision # 0
    BY <2>2 DEF CommitObjectUpdate, InObjectUpdate, StagedConserves
  <2>3. ASSUME NEW p \in Players, NEW i \in Instances, DropWhole(p, i)
        PROVE  Total(items', d) = Total(items, d)
    <3>1. /\ CanMove(items, i, p) /\ World \in Locations
          /\ items' = Move(items, i, World)
      BY <2>3 DEF DropWhole, CommitWorldItem, Locations
    <3> QED
      BY <2>1, <3>1, MoveConserves
  <2>4. ASSUME NEW p \in Players, NEW i \in Instances, NEW s \in Instances,
               NEW n \in 1..MaxItemCount, DropPart(p, s, i, n)
        PROVE  Total(items', d) = Total(items, d)
    <3>1. /\ CanSplit(items, s, p, i, n) /\ World \in Locations /\ n \in Nat
          /\ items' = Split(items, s, i, n, World)
      BY <2>4 DEF DropPart, CommitWorldItem, Locations
    <3> QED
      BY <2>1, <3>1, SplitConserves
  <2>5. ASSUME NEW p \in Players, NEW i \in Instances, PickUp(p, i)
        PROVE  Total(items', d) = Total(items, d)
    <3>1. /\ CanMove(items, i, World) /\ p \in Locations
          /\ items' = Move(items, i, p)
      BY <2>5 DEF PickUp, CommitWorldItem, Locations, CanMove
    <3> QED
      BY <2>1, <3>1, MoveConserves
  <2> QED
    BY <2>2, <2>3, <2>4, <2>5 DEF Transfer
<1> QED
  BY <1>1, Invariance, ConservationInvariance, PTL DEF Spec, TransfersConserve
===========================================================================

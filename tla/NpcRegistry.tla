----------------------------- MODULE NpcRegistry -----------------------------
(***************************************************************************)
(* Who simulates an NPC (src/src/server/npc_registry.cpp, its callers in   *)
(* server_core.cpp, and the client's side in multiplayer/client.cpp).      *)
(*                                                                         *)
(* The server keeps, for each player, the NPCs it is interested in, and    *)
(* for each NPC the one interested player that holds a lease of two        *)
(* seconds to simulate it.  Enter, leave and authority messages travel on  *)
(* a reliable stream, snapshots and the holder's updates may be lost or    *)
(* overtake what was sent before them.                                     *)
(*                                                                         *)
(* Positions are points of a line.  Lease identifiers are compared for     *)
(* equality only, so a new one is any that is nowhere in use.  Messages    *)
(* about different NPCs do not affect each other, and their order is left  *)
(* open: stream[p][n] is what is under way to p about n.  Generations are  *)
(* always 1 and are left out, and so is the gameplay half of an NPC's      *)
(* state, which decides nothing here.                                      *)
(***************************************************************************)
EXTENDS Integers, Sequences, FiniteSets

CONSTANTS
    Players,          \* player ids, positive: ties go to the smaller one
    Npcs,             \* NPC ids, positive
    Catalogued,       \* NPCs the world catalog places before anyone arrives
    Kinds,            \* categories that can be disabled
    KindOf,           \* the kind native classification gives an NPC
    Places,           \* where players may stand
    EnterRadius,      \* interest_enter_radius
    LeaveRadius,      \* interest_leave_radius
    DiscoveryRadius,  \* discovery_radius
    Leases,           \* lease ids
    NoLease,          \* the id 0 of an NPC without holder
    NpcPlaces,        \* where NPCs stand and move
    LeaseTicks,       \* lease_duration in ticks of the clock
    MaxSpeed,         \* maximum_npc_speed, places per tick
    MaxRevision,      \* bound: revisions of one NPC
    MaxStream,        \* bound: reliable messages under way to one player about one NPC
    MaxInFlight       \* bound: packets, discoveries and updates under way

ASSUME RegistryAssumption ==
    /\ Players \subseteq Nat \ {0}
    /\ Npcs \subseteq Nat \ {0}
    /\ Catalogued \subseteq Npcs
    /\ KindOf \in [Npcs -> Kinds]
    /\ Places \subseteq Int
    /\ NpcPlaces \subseteq Int
    /\ NoLease \notin Leases
    /\ LeaseTicks \in Nat \ {0}
    /\ EnterRadius \in Nat /\ LeaveRadius \in Nat /\ DiscoveryRadius \in Nat
    /\ MaxSpeed \in Nat /\ MaxRevision \in Nat \ {0}
    /\ EnterRadius < LeaveRadius /\ LeaveRadius <= DiscoveryRadius

Nobody == 0
Absent == [present |-> FALSE]

VARIABLES
    entry,     \* m_entries: what the server knows of each NPC, or Absent
    interest,  \* m_interest
    disabled,  \* kinds the server has disabled
    link,      \* up, silent (lost, the server does not know), or gone
    place,     \* transform of each player's session
    stream,    \* reliable messages under way to each client about each NPC
    packet,    \* snapshot entries under way to each client
    uplink,    \* discoveries and updates under way from each client
    known,     \* the clients' m_npcs
    off        \* NPCs of the kinds each client has been told are disabled

server == <<entry, interest, disabled>>
vars == <<entry, interest, disabled, link, place, stream, packet, uplink,
          known, off>>

Entry == [present : {TRUE}, npc : Npcs, auth : Players \cup {Nobody},
          lease : Leases \cup {NoLease}, ttl : 0..LeaseTicks,
          rev : 1..MaxRevision, at : NpcPlaces, observed : BOOLEAN]
View == [npc : Npcs, auth : Players \cup {Nobody},
         lease : Leases \cup {NoLease}, rev : 1..MaxRevision]
Message == [type : {"enter", "authority"}, view : View]
           \cup [type : {"leave"}]
           \cup [type : {"control"}, off : BOOLEAN]
Report == [type : {"discovery"}, npc : Npcs, at : NpcPlaces]
          \cup [type : {"update"}, npc : Npcs, at : NpcPlaces, lease : Leases]

TypeOK ==
    /\ \A n \in Npcs : entry[n] = Absent \/ entry[n] \in Entry
    /\ interest \in [Players -> SUBSET Npcs]
    /\ disabled \in SUBSET Kinds
    /\ link \in [Players -> {"up", "silent", "gone"}]
    /\ place \in [Players -> Places]
    /\ \A p \in Players :
           /\ stream[p] \in [Npcs -> Seq(Message)]
           /\ packet[p] \subseteq View
           /\ uplink[p] \subseteq Report
           /\ known[p] \subseteq View
           /\ off[p] \subseteq Npcs

Created(n, x, seen) ==
    [present |-> TRUE, npc |-> n, auth |-> Nobody, lease |-> NoLease,
     ttl |-> 0, rev |-> 1, at |-> x, observed |-> seen]

Init ==
    /\ disabled \in SUBSET Kinds
    /\ \E x \in NpcPlaces :
           entry = [n \in Npcs |->
                        IF n \in Catalogued /\ KindOf[n] \notin disabled
                        THEN Created(n, x, FALSE) ELSE Absent]
    /\ interest = [p \in Players |-> {}]
    /\ link = [p \in Players |-> "gone"]
    /\ place \in [Players -> Places]
    /\ stream = [p \in Players |-> [n \in Npcs |-> << >>]]
    /\ packet = [p \in Players |-> {}]
    /\ uplink = [p \in Players |-> {}]
    /\ known = [p \in Players |-> {}]
    /\ off = [p \in Players |-> {}]

----------------------------------------------------------------------------
(* The registry. Its operators take the maps they work on, because the     *)
(* callers chain them inside one handler.                                  *)

Distance(x, y) == IF x < y THEN y - x ELSE x - y

ViewOf(e) == [npc |-> e.npc, auth |-> e.auth, lease |-> e.lease, rev |-> e.rev]

(* The lease ids that occur anywhere: a new one is none of them.           *)
LeasesOf(views) == {v.lease : v \in views}

MessageLeases(s) ==
    {s[i].view.lease : i \in {j \in 1..Len(s) :
                                 s[j].type \in {"enter", "authority"}}}

LeasesInUse ==
    {entry[n].lease : n \in {m \in Npcs : entry[m].present}}
    \cup UNION {LeasesOf(known[p]) \cup LeasesOf(packet[p])
                \cup {r.lease : r \in {q \in uplink[p] : q.type = "update"}}
                \cup UNION {MessageLeases(stream[p][n]) : n \in Npcs} : p \in Players}

(* The interest of connected players after reconcile: farther NPCs stay    *)
(* until the leave radius, new ones come in at the enter radius.           *)
Radius(n, mine) == IF n \in mine THEN LeaveRadius ELSE EnterRadius

Desired(p, es) ==
    {n \in Npcs : es[n].present
        /\ Distance(place[p], es[n].at) <= Radius(n, interest[p])}

(* A lease survives while it runs and its holder is interested; the mutant *)
(* form, a lease that is not checked against the interest sets.            *)
LeaseHoldsUnseen(e, watch) == e.auth # Nobody /\ e.ttl > 0

LeaseHolds(e, watch) ==
    /\ e.auth # Nobody
    /\ e.ttl > 0
    /\ e.npc \in watch[e.auth]

Candidates(e, watch, live) == {p \in live : e.npc \in watch[p]}

(* The nearest candidate, the smallest id among equals.                    *)
Nearest(e, cs) ==
    CHOOSE p \in cs : \A q \in cs :
        \/ Distance(place[p], e.at) < Distance(place[q], e.at)
        \/ /\ Distance(place[p], e.at) = Distance(place[q], e.at)
           /\ p <= q

(* assign_authorities: leases that do not hold go to the nearest           *)
(* interested player under a new id, or to nobody.                         *)
Unheld(es, watch) == {n \in Npcs : es[n].present /\ ~LeaseHolds(es[n], watch)}

(* Mutant form: the new holder takes over the running lease id.           *)
GrantedAgain(e, watch, live, id) ==
    IF Candidates(e, watch, live) = {}
    THEN [e EXCEPT !.auth = Nobody, !.lease = NoLease, !.ttl = 0]
    ELSE [e EXCEPT !.auth = Nearest(e, Candidates(e, watch, live)),
                   !.lease = IF @ = NoLease THEN id ELSE @, !.ttl = LeaseTicks]

Granted(e, watch, live, id) ==
    IF Candidates(e, watch, live) = {}
    THEN [e EXCEPT !.auth = Nobody, !.lease = NoLease, !.ttl = 0]
    ELSE [e EXCEPT !.auth = Nearest(e, Candidates(e, watch, live)),
                   !.lease = id, !.ttl = LeaseTicks]

FreshLeases(ns) ==
    {ids \in [ns -> Leases \ LeasesInUse] :
        \A m, n \in ns : m # n => ids[m] # ids[n]}

Assigned(es, watch, live, ids) ==
    [n \in Npcs |-> IF n \in Unheld(es, watch)
                    THEN Granted(es[n], watch, live, ids[n]) ELSE es[n]]

(* What reconcile tells player p about NPC n, in the order of the code:    *)
(* leave, or authority and then, if n is new to p, the whole state.        *)
NewsOf(p, n, es, watch, after) ==
    IF n \in watch[p]
    THEN (IF n \in Unheld(es, watch)
          THEN <<[type |-> "authority", view |-> ViewOf(after[n])]>> ELSE << >>)
         \o (IF n \in interest[p] THEN << >>
             ELSE <<[type |-> "enter", view |-> ViewOf(after[n])]>>)
    ELSE IF n \in interest[p] THEN <<[type |-> "leave"]>> ELSE << >>

(* queue_npc_events: news reach the players that have a connection.        *)
Told(news(_, _)) ==
    [p \in Players |-> [n \in Npcs |->
        IF link[p] = "up" THEN stream[p][n] \o news(p, n) ELSE stream[p][n]]]

RoomOnStreams ==
    \A p \in Players, n \in Npcs : Len(stream'[p][n]) <= MaxStream

(* The bound on what is not on the reliable streams.                       *)
InFlight == Cardinality(UNION {{p} \X packet[p] : p \in Players})
            + Cardinality(UNION {{p} \X uplink[p] : p \in Players})

Connected == {p \in Players : link[p] # "gone"}

(* reconcile on the entries es: every caller tells everybody the outcome.  *)
Reconciled(es) ==
    LET watch == [p \in Players |->
                      IF p \in Connected THEN Desired(p, es) ELSE {}] IN
    \E ids \in FreshLeases(Unheld(es, watch)) :
        LET after == Assigned(es, watch, Connected, ids) IN
        LET news(p, n) == NewsOf(p, n, es, watch, after) IN
        /\ entry' = after
        /\ interest' = watch
        /\ stream' = Told(news)
        /\ RoomOnStreams

----------------------------------------------------------------------------
(* The server.                                                             *)

(* A session begins or gets its connection back: the client has cleared    *)
(* its NPCs before, the accepted message is followed by the disabled kinds. *)
(* A client that connects anew, not again, has also cleared those.         *)
Join(p) ==
    /\ link[p] = "gone"
    /\ link' = [link EXCEPT ![p] = "up"]
    /\ known' = [known EXCEPT ![p] = {}]
    /\ \E again \in BOOLEAN :
           off' = [off EXCEPT ![p] = IF again THEN @ ELSE {}]
    /\ stream' = [stream EXCEPT ![p] = [n \in Npcs |->
           <<[type |-> "control", off |-> KindOf[n] \in disabled]>>]]
    /\ UNCHANGED <<entry, interest, disabled, place, packet, uplink>>

(* handle_transform moves a session, in the model in one step wherever     *)
(* several transforms within the speed limit may bring it.                 *)
Walk(p) ==
    /\ link[p] = "up"
    /\ \E x \in Places \ {place[p]} : place' = [place EXCEPT ![p] = x]
    /\ UNCHANGED <<server, link, stream, packet, uplink, known, off>>

(* A link breaks; what was under way is lost, the server learns it later.  *)
LinkBreaks(p) ==
    /\ link[p] = "up"
    /\ link' = [link EXCEPT ![p] = "silent"]
    /\ stream' = [stream EXCEPT ![p] = [n \in Npcs |-> << >>]]
    /\ packet' = [packet EXCEPT ![p] = {}]
    /\ uplink' = [uplink EXCEPT ![p] = {}]
    /\ UNCHANGED <<server, place, known, off>>

(* on_disconnected, remove_player: the leases of the lost player end and   *)
(* are given to others at once.                                            *)
ServerNotices(p) ==
    /\ link[p] = "silent"
    /\ link' = [link EXCEPT ![p] = "gone"]
    /\ LET watch == [interest EXCEPT ![p] = {}]
           es == [n \in Npcs |->
                     IF entry[n].present /\ entry[n].auth = p
                     THEN [entry[n] EXCEPT !.ttl = 0] ELSE entry[n]] IN
       \E ids \in FreshLeases(Unheld(es, watch)) :
           LET after == Assigned(es, watch, Connected \ {p}, ids) IN
           LET news(q, n) ==
                   IF n \in watch[q] \cap Unheld(es, watch)
                   THEN <<[type |-> "authority", view |-> ViewOf(after[n])]>>
                   ELSE << >> IN
           /\ entry' = after
           /\ interest' = watch
           /\ stream' = Told(news)
           /\ RoomOnStreams
    /\ UNCHANGED <<disabled, place, packet, uplink, known, off>>

(* The clock, which ends leases.                                           *)
Tick ==
    /\ \E n \in Npcs : entry[n].present /\ entry[n].ttl > 0
    /\ entry' = [n \in Npcs |->
           IF entry[n].present /\ entry[n].ttl > 0
           THEN [entry[n] EXCEPT !.ttl = @ - 1] ELSE entry[n]]
    /\ UNCHANGED <<interest, disabled, link, place, stream, packet, uplink,
                   known, off>>

(* server_core::tick reconciles every time.                                *)
Reconcile ==
    /\ Reconciled(entry)
    /\ UNCHANGED <<disabled, link, place, packet, uplink, known, off>>

(* queue_npc_snapshots: the state of what each player is interested in.    *)
Snapshot(p) ==
    /\ link[p] = "up"
    /\ \E n \in interest[p] :
           /\ entry[n].present
           /\ packet' = [packet EXCEPT ![p] = @ \cup {ViewOf(entry[n])}]
    /\ InFlight < MaxInFlight
    /\ UNCHANGED <<server, link, place, stream, uplink, known, off>>

(* set_npc_entities_disabled: disabled kinds lose their NPCs, then every   *)
(* client is told.                                                         *)
SetDisabled(kinds) ==
    /\ kinds # disabled
    /\ disabled' = kinds
    /\ entry' = [n \in Npcs |-> IF KindOf[n] \in kinds THEN Absent ELSE entry[n]]
    /\ interest' = [p \in Players |->
                       {n \in interest[p] : KindOf[n] \notin kinds}]
    /\ LET news(p, n) ==
               (IF n \in interest[p] \ interest'[p]
                THEN <<[type |-> "leave"]>> ELSE << >>)
               \o <<[type |-> "control", off |-> KindOf[n] \in kinds]>> IN
       stream' = Told(news)
    /\ RoomOnStreams
    /\ UNCHANGED <<link, place, packet, uplink, known, off>>

(* handle_npc_discovery: observe one NPC, then reconcile.  The first       *)
(* observation of an NPC nobody simulates also corrects where it is.       *)
Observed(p, r) ==
    IF KindOf[r.npc] \in disabled
       \/ Distance(place[p], r.at) > DiscoveryRadius
    THEN entry
    ELSE IF ~entry[r.npc].present
    THEN [entry EXCEPT ![r.npc] = Created(r.npc, r.at, TRUE)]
    ELSE IF ~entry[r.npc].observed /\ entry[r.npc].auth = Nobody
            /\ entry[r.npc].rev < MaxRevision
    THEN [entry EXCEPT ![r.npc].at = r.at, ![r.npc].rev = @ + 1,
                       ![r.npc].observed = TRUE]
    ELSE entry

HandleDiscovery(p) ==
    /\ link[p] = "up"
    /\ \E r \in uplink[p] :
           /\ r.type = "discovery"
           /\ uplink' = [uplink EXCEPT ![p] = @ \ {r}]
           /\ Reconciled(Observed(p, r))
    /\ UNCHANGED <<disabled, link, place, packet, known, off>>

(* npc_registry::update: only the holder of a running lease moves its NPC, *)
(* by no more than its speed allows since the last update; that one is as  *)
(* old as the lease has run, and two with one clock reading go unchecked.  *)
Accepts(p, r, e) ==
    /\ e.present
    /\ e.auth = p /\ e.lease = r.lease /\ e.ttl > 0
    /\ LET elapsed == LeaseTicks - e.ttl IN
       elapsed > 0 => Distance(e.at, r.at) <= MaxSpeed * elapsed

HandleUpdate(p) ==
    /\ link[p] = "up"
    /\ \E r \in uplink[p] :
           /\ r.type = "update"
           /\ uplink' = [uplink EXCEPT ![p] = @ \ {r}]
           /\ IF Accepts(p, r, entry[r.npc])
              THEN /\ entry[r.npc].rev < MaxRevision
                   /\ entry' = [entry EXCEPT
                          ![r.npc].at = r.at, ![r.npc].rev = @ + 1,
                          ![r.npc].ttl = LeaseTicks]
              ELSE UNCHANGED entry
    /\ UNCHANGED <<interest, disabled, link, place, stream, packet, known, off>>

(* Packets and updates may be lost.                                        *)
LosePacket(p) ==
    /\ \/ /\ \E v \in packet[p] : packet' = [packet EXCEPT ![p] = @ \ {v}]
          /\ UNCHANGED uplink
       \/ /\ \E r \in uplink[p] :
                 /\ r.type = "update"
                 /\ uplink' = [uplink EXCEPT ![p] = @ \ {r}]
          /\ UNCHANGED packet
    /\ UNCHANGED <<server, link, place, stream, known, off>>

----------------------------------------------------------------------------
(* The client.                                                             *)

KnownNpc(p, n) == \E v \in known[p] : v.npc = n
Forgotten(p, n) == {v \in known[p] : v.npc # n}

(* handle_game_envelope on the next reliable message about n: an authority *)
(* message changes holder and lease of an NPC the client knows.            *)
Applied(p, n, m) ==
    CASE m.type = "enter" -> Forgotten(p, n) \cup {m.view}
      [] m.type = "authority" ->
            {IF v.npc = n
             THEN [v EXCEPT !.auth = m.view.auth, !.lease = m.view.lease]
             ELSE v : v \in known[p]}
      [] m.type = "leave" -> Forgotten(p, n)
      [] m.type = "control" -> IF m.off THEN Forgotten(p, n) ELSE known[p]

Receive(p, n) ==
    /\ stream[p][n] # << >>
    /\ LET m == Head(stream[p][n]) IN
       /\ known' = [known EXCEPT ![p] = Applied(p, n, m)]
       /\ off' = IF m.type # "control" THEN off
                 ELSE [off EXCEPT ![p] = IF m.off THEN @ \cup {n} ELSE @ \ {n}]
    /\ stream' = [stream EXCEPT ![p][n] = Tail(@)]
    /\ UNCHANGED <<server, link, place, packet, uplink>>

(* A snapshot entry replaces what the client knows if it is newer or comes *)
(* under another lease; it never brings in an NPC.  The mutant form does.  *)
ReceiveSnapshotOfUnknown(p) ==
    /\ \E v \in packet[p] :
           /\ packet' = [packet EXCEPT ![p] = @ \ {v}]
           /\ known' = [known EXCEPT ![p] = Forgotten(p, v.npc) \cup {v}]
    /\ UNCHANGED <<server, link, place, stream, uplink, off>>

ReceiveSnapshot(p) ==
    /\ \E v \in packet[p] :
           /\ packet' = [packet EXCEPT ![p] = @ \ {v}]
           /\ known' = [known EXCEPT ![p] =
                  IF \E k \in @ : /\ k.npc = v.npc
                                  /\ k.rev < v.rev \/ k.lease # v.lease
                  THEN Forgotten(p, v.npc) \cup {v} ELSE @]
    /\ UNCHANGED <<server, link, place, stream, uplink, off>>

(* queue_npc_observations: the client reports an NPC its game has loaded   *)
(* as a discovery while it does not know it, and as an update while it     *)
(* believes to hold the lease.                                             *)
Sample(p, n) ==
    /\ link[p] = "up" /\ n \notin off[p]
    /\ \E x \in NpcPlaces :
           \/ /\ ~KnownNpc(p, n)
              /\ uplink' = [uplink EXCEPT ![p] =
                     @ \cup {[type |-> "discovery", npc |-> n, at |-> x]}]
           \/ /\ \E v \in known[p] :
                     /\ v.npc = n /\ v.auth = p /\ v.lease # NoLease
                     /\ uplink' = [uplink EXCEPT ![p] =
                            @ \cup {[type |-> "update", npc |-> n, at |-> x,
                                     lease |-> v.lease]}]
    /\ InFlight < MaxInFlight
    /\ UNCHANGED <<server, link, place, stream, packet, known, off>>

----------------------------------------------------------------------------
Next ==
    \/ Tick
    \/ Reconcile
    \/ \E kinds \in SUBSET Kinds : SetDisabled(kinds)
    \/ \E p \in Players :
           \/ Join(p) \/ Walk(p) \/ LinkBreaks(p) \/ ServerNotices(p)
           \/ Snapshot(p) \/ HandleDiscovery(p) \/ HandleUpdate(p)
           \/ LosePacket(p) \/ ReceiveSnapshot(p)
           \/ \E n \in Npcs : Receive(p, n) \/ Sample(p, n)

Spec == Init /\ [][Next]_vars

----------------------------------------------------------------------------
(* Properties                                                              *)

(* An NPC has a holder exactly while somebody is interested in it, and the *)
(* holder is one of them, is connected for all the server knows, and has a *)
(* lease (interest, remove_player and disable_kind all have to reassign).  *)
HoldersWatch ==
    \A n \in Npcs :
        IF entry[n].present
        THEN /\ (entry[n].auth # Nobody) <=> (\E p \in Players : n \in interest[p])
             /\ (entry[n].auth # Nobody) <=> (entry[n].lease # NoLease)
             /\ entry[n].auth # Nobody =>
                    /\ n \in interest[entry[n].auth]
                    /\ link[entry[n].auth] # "gone"
        ELSE \A p \in Players : n \notin interest[p]

(* A lease id names one holder, whoever heard of it on whatever way: two   *)
(* clients never simulate one NPC under the same lease, so the server can  *)
(* tell a stale update by its lease alone.                                 *)
Views ==
    {ViewOf(entry[n]) : n \in {m \in Npcs : entry[m].present}}
    \cup UNION {known[p] \cup packet[p]
                \cup {m.view : m \in UNION {
                        {stream[p][n][i] : i \in {j \in DOMAIN stream[p][n] :
                             stream[p][n][j].type \in {"enter", "authority"}}}
                        : n \in Npcs}}
                : p \in Players}

LeaseNamesHolder ==
    /\ \A v, w \in Views :
           v.lease = w.lease /\ v.lease # NoLease =>
               v.auth = w.auth /\ v.npc = w.npc
    /\ \A p \in Players : \A r \in uplink[p] :
           r.type = "update" =>
               \A v \in Views : v.lease = r.lease => v.auth = p /\ v.npc = r.npc

(* Once nothing reliable is under way, a client shows the NPCs the server  *)
(* counts it interested in, no ghosts of disabled kinds or of an earlier   *)
(* connection, and has the right categories off.                           *)
QuietClientsAgree ==
    \A p \in Players, n \in Npcs :
        link[p] = "up" /\ stream[p][n] = << >> =>
            /\ KnownNpc(p, n) <=> n \in interest[p]
            /\ n \in off[p] <=> KindOf[n] \in disabled
=============================================================================

---------------------------- MODULE PropertyRoles ----------------------------
(***************************************************************************)
(* The roles players hold on the properties of the level                   *)
(* (src/src/property/service.cpp), the console commands that change them   *)
(* (server_core.cpp, server_main.cpp), the ledger file (world_store.cpp)   *)
(* and the home markers that follow from them on the clients' maps.        *)
(*                                                                         *)
(* Assignments form chains: an owner is named by the administrator, a      *)
(* steward by the owner, everybody else by the owner or a steward.  An     *)
(* assignment counts only as long as its whole chain does.  The clock is   *)
(* the wall clock of the server, which may be set either way.              *)
(***************************************************************************)
EXTENDS Integers, Sequences, FiniteSets

CONSTANTS
    Players,        \* persistent identities
    Properties,     \* property_id; numbers, for their order
    Parent,         \* parent_property_id of each property, or NoProperty
    NoProperty,
    Marked,         \* the properties whose home the map can show
    MaxAssignments, \* bound: assignments ever made
    MaxTime,        \* bound of the wall clock
    MaxWire         \* bound: marker updates on the way to a client

ASSUME RolesAssumption ==
    /\ Properties \subseteq Nat
    /\ NoProperty \notin Properties
    /\ Parent \in [Properties -> Properties \union {NoProperty}]
    /\ Marked \subseteq Properties
    /\ MaxAssignments \in Nat /\ MaxTime \in Nat /\ MaxWire \in Nat

Roles == {"owner", "steward", "guard", "resident", "employee", "guest"}

Capabilities == {"enter", "container", "bed", "workstation", "manage", "transfer"}

\* random_uuid_v4 never repeats: identities are counted.
Ids == 1 .. MaxAssignments
NoId == 0

Never == 0     \* expires_at_ms of an assignment that stays
Times == 1 .. MaxTime

\* An owner has no grantor: by is his own name, grantor NoId.
Assignments == [id : Ids, property : Properties, player : Players, role : Roles,
                by : Players, grantor : Ids \union {NoId},
                expires : Times \union {Never}]

NoMarker == [property |-> NoProperty, role |-> "guest"]
Markers == [property : Marked, role : {"owner", "resident"}] \union {NoMarker}

VARIABLES
    ledger,   \* m_ledger.assignments
    next,     \* the identities below it are used up
    file,     \* property_ledger.pb
    now,      \* unix_milliseconds
    online,   \* the players in a session
    marker,   \* m_home_marker of each player's native runtime
    wire      \* server_home_marker_updated on the way to each player

vars == <<ledger, next, file, now, online, marker, wire>>

TypeOK ==
    /\ ledger \subseteq Assignments
    /\ next \in 1 .. MaxAssignments + 1
    /\ file \subseteq Assignments
    /\ now \in Times
    /\ online \subseteq Players
    /\ marker \in [Players -> Markers]
    /\ wire \in [Players -> Seq(Markers)]

-----------------------------------------------------------------------------
\* Mutant: an employee is above a resident.
AuthoritySwapped(role) ==
    CASE role = "owner" -> 6
      [] role = "steward" -> 5
      [] role = "guard" -> 4
      [] role = "resident" -> 2
      [] role = "employee" -> 3
      [] role = "guest" -> 1

\* The rank of a role among those a player holds, and over those he revokes.
Authority(role) ==
    CASE role = "owner" -> 6
      [] role = "steward" -> 5
      [] role = "guard" -> 4
      [] role = "resident" -> 3
      [] role = "employee" -> 2
      [] role = "guest" -> 1

RoleHas(role) ==
    CASE role = "owner" -> Capabilities
      [] role = "steward" -> Capabilities \ {"transfer"}
      [] role = "resident" -> {"enter", "container", "bed", "workstation"}
      [] role = "employee" -> {"enter", "container", "workstation"}
      [] role \in {"guard", "guest"} -> {"enter"}

MayGrant(role) ==
    CASE role = "owner" -> Roles \ {"owner"}
      [] role = "steward" -> Roles \ {"owner", "steward"}
      [] OTHER -> {}

TimeActive(a, t) == a.expires = Never \/ t < a.expires

\* The assignment of l that a was granted under.
GrantedUnder(a, b) ==
    /\ b.id = a.grantor
    /\ b.property = a.property
    /\ b.player = a.by
    /\ a.role \in MayGrant(b.role)

\* assignment_active, level by level: stewards are named by owners and name
\* neither stewards nor owners, so that no chain is longer than three.
ActiveOwner(a, t) == a.grantor = NoId /\ a.role = "owner" /\ TimeActive(a, t)

ActiveSteward(l, a, t) ==
    /\ TimeActive(a, t)
    /\ \E b \in l : GrantedUnder(a, b) /\ ActiveOwner(b, t)

Active(l, a, t) ==
    \/ ActiveOwner(a, t)
    \/ /\ TimeActive(a, t)
       /\ \E b \in l : /\ GrantedUnder(a, b)
                       /\ ActiveOwner(b, t) \/ ActiveSteward(l, b, t)

Held(l, p, h, t) == {a \in l : a.player = p /\ a.property = h /\ Active(l, a, t)}

\* highest_assignment; which of several equals is found first is left open.
Highest(l, p, h, t) ==
    {a \in Held(l, p, h, t) :
        \A b \in Held(l, p, h, t) : Authority(b.role) <= Authority(a.role)}

Owned(l, h, t) == \E a \in l : a.property = h /\ a.role = "owner" /\ Active(l, a, t)

\* The property and those around it, each visited once.
Around(h) ==
    {g \in Properties :
        \A S \in SUBSET Properties :
            (h \in S /\ \A x \in S : Parent[x] \in S \union {NoProperty}) => g \in S}

\* service::authorize: nobody is locked out of a property nobody owns.
Authorized(l, p, h, c, t) ==
    \/ ~Owned(l, h, t)
    \/ \E g \in Around(h) : \E a \in Highest(l, p, g, t) : c \in RoleHas(a.role)

HomeRank(role) == CASE role = "owner" -> 2 [] role = "resident" -> 1 [] OTHER -> 0

\* home_marker_for: his own home first, then the one of the smaller name.
HomeMarker(l, p, t) ==
    LET homes == {a \in l : /\ a.player = p /\ a.property \in Marked
                            /\ HomeRank(a.role) > 0 /\ Active(l, a, t)}
        best == {a \in homes : \A b \in homes :
                    \/ HomeRank(b.role) < HomeRank(a.role)
                    \/ /\ HomeRank(b.role) = HomeRank(a.role)
                       /\ a.property <= b.property}
    IN  IF best = {} THEN NoMarker
        ELSE LET a == CHOOSE a \in best : TRUE
             IN  [property |-> a.property, role |-> a.role]

-----------------------------------------------------------------------------
Init ==
    /\ ledger = {}
    /\ next = 1
    /\ file = {}
    /\ now \in Times
    /\ online = {}
    /\ marker = [p \in Players |-> NoMarker]
    /\ wire = [p \in Players |-> <<>>]

\* Mutant: nothing is broadcast.
PublishQuietly(l) ==
    /\ ledger' = l
    /\ file' = l
    /\ UNCHANGED <<wire, now, online, marker>>

\* save_property_ledger and broadcast_home_markers after a change.
Publish(l) ==
    /\ ledger' = l
    /\ file' = l
    /\ \A p \in online : Len(wire[p]) < MaxWire
    /\ wire' = [p \in Players |->
                   IF p \in online THEN Append(wire[p], HomeMarker(l, p, now))
                   ELSE wire[p]]
    /\ UNCHANGED <<now, online, marker>>

\* The server ends before the change is published: the file could not be
\* written, or could be and the process died.  It comes up again with the
\* file; the clients have lost their session and take their markers down.
Die(l) ==
    /\ file' \in {file, l}
    /\ ledger' = file'
    /\ online' = {}
    /\ marker' = [p \in Players |-> NoMarker]
    /\ wire' = [p \in Players |-> <<>>]
    /\ UNCHANGED now

\* A console command leaves the ledger l.
Command(l) == Publish(l) \/ Die(l)

\* Mutant: a title is given away twice.
AssignOwnerAgain(h, p) ==
    /\ next \in Ids
    /\ next' = next + 1
    /\ Command(ledger \union
               {[id |-> next, property |-> h, player |-> p, role |-> "owner",
                 by |-> p, grantor |-> NoId, expires |-> Never]})

\* property owner: assign_property_owner.
AssignOwner(h, p) ==
    /\ ~Owned(ledger, h, now)
    /\ next \in Ids
    /\ next' = next + 1
    /\ Command(ledger \union
               {[id |-> next, property |-> h, player |-> p, role |-> "owner",
                 by |-> p, grantor |-> NoId, expires |-> Never]})

\* property grant: grant_property_role.
Grant(actor, h, p, role, expires) ==
    /\ role # "owner"
    /\ expires = Never \/ expires > now
    /\ \E a \in Highest(ledger, actor, h, now) :
        /\ "manage" \in RoleHas(a.role)
        /\ role \in MayGrant(a.role)
        /\ \A b \in Held(ledger, p, h, now) : b.role # role
        /\ next \in Ids
        /\ next' = next + 1
        /\ Command(ledger \union
                   {[id |-> next, property |-> h, player |-> p, role |-> role,
                     by |-> actor, grantor |-> a.id, expires |-> expires]})

\* Mutant: only what was granted right under it goes with it.
CascadeOnce(l, a) == {b \in l : b.id # a.id /\ b.grantor # a.id}

\* The assignment and whatever was granted under it, however indirectly.
GrantedBy(l, ids) == {a.id : a \in {b \in l : b.grantor \in ids}}

Cascade(l, a) ==
    LET once == GrantedBy(l, {a.id})
        removed == {a.id} \union once \union GrantedBy(l, once)
    IN  {b \in l : b.id \notin removed}

\* property revoke <actor>: revoke_property_role.
Revoke(actor, a) ==
    /\ \E b \in Highest(ledger, actor, a.property, now) :
        /\ "manage" \in RoleHas(b.role)
        /\ Authority(b.role) > Authority(a.role)
    /\ Command(Cascade(ledger, a))
    /\ UNCHANGED next

\* property revoke system: system_revoke_property_role.
SystemRevoke(a) == Command(Cascade(ledger, a)) /\ UNCHANGED next

\* Somebody sets the clock, or time passes.
SetClock ==
    /\ now' \in Times \ {now}
    /\ UNCHANGED <<ledger, next, file, online, marker, wire>>

\* ServerAccepted carries the marker of the moment (send_accepted).
Join(p) ==
    /\ p \notin online
    /\ online' = online \union {p}
    /\ wire' = [wire EXCEPT ![p] = <<HomeMarker(ledger, p, now)>>]
    /\ UNCHANGED <<ledger, next, file, now, marker>>

\* end_sandbox takes the marker down.
Quit(p) ==
    /\ p \in online
    /\ online' = online \ {p}
    /\ marker' = [marker EXCEPT ![p] = NoMarker]
    /\ wire' = [wire EXCEPT ![p] = <<>>]
    /\ UNCHANGED <<ledger, next, file, now>>

\* set_home_marker.
ShowMarker(p) ==
    /\ wire[p] # <<>>
    /\ marker' = [marker EXCEPT ![p] = Head(wire[p])]
    /\ wire' = [wire EXCEPT ![p] = Tail(wire[p])]
    /\ UNCHANGED <<ledger, next, file, now, online>>

Next ==
    \/ \E h \in Properties, p \in Players : AssignOwner(h, p)
    \/ \E actor, p \in Players, h \in Properties, role \in Roles,
          expires \in Times \union {Never} : Grant(actor, h, p, role, expires)
    \/ \E actor \in Players, a \in ledger : Revoke(actor, a)
    \/ \E a \in ledger : SystemRevoke(a)
    \/ SetClock
    \/ \E p \in Players : Join(p) \/ Quit(p) \/ ShowMarker(p)

Spec == Init /\ [][Next]_vars

-----------------------------------------------------------------------------
\* valid_property_ledger accepts what it is asked to write and, after any end
\* of the server, to load: identities are unique and nobody is left with a
\* role whose grantor is gone.
LedgerIsLoadable ==
    \A l \in {ledger, file} :
        /\ \A a, b \in l : a.id = b.id => a = b
        /\ \A a \in l : a.role = "owner" <=> a.grantor = NoId
        /\ \A a \in l : a.role # "owner" => \E b \in l : b.id = a.grantor

\* A property has one title, and all of its roles derive from it: none
\* survives, to come back to life, from an earlier owner's time.
OneTitle ==
    \A a \in ledger :
        \E o \in ledger :
            /\ o.property = a.property
            /\ o.role = "owner"
            /\ \A b \in ledger : b.property = a.property /\ b.role = "owner" => b = o
            /\ \/ a = o
               \/ a.grantor = o.id
               \/ \E b \in ledger : a.grantor = b.id /\ b.grantor = o.id

\* Naming, granting and restarting take no access from anybody, but for two
\* cases: the owner of a property nobody owned locks the others out, and a
\* resident or employee made guard has the rank of a guard, who may only
\* enter (highest_assignment, role_has).
GrantsTakeNothing ==
    [][(now' = now /\ ledger \subseteq ledger' /\ ledger' # ledger) =>
        \A p \in Players, h \in Properties, c \in Capabilities :
            \/ ~Authorized(ledger, p, h, c, now)
            \/ Authorized(ledger', p, h, c, now)
            \/ ~Owned(ledger, h, now)
            \/ \E a \in ledger' \ ledger : a.player = p /\ a.role = "guard"]_vars

\* Once its updates have arrived, a map shows a home only to the player who
\* holds it, or held it until a time that has passed since (an expiry is not
\* broadcast), and never the home of a role that was revoked.
MarkersAreClaims ==
    \A p \in online :
        (wire[p] = <<>> /\ marker[p] # NoMarker) =>
            \E a \in ledger : /\ a.player = p
                              /\ a.property = marker[p].property
                              /\ a.role = marker[p].role
============================================================================

-------------------------- MODULE NpcRegistryProofs --------------------------
(***************************************************************************)
(* Theorems about NpcRegistry, for any players, NPCs, kinds, places and    *)
(* bounds: whoever is interested in an NPC has a holder of its lease, a    *)
(* lease names one holder wherever it is known, and a client that has      *)
(* heard everything shows the NPCs the server counts it interested in.     *)
(***************************************************************************)
EXTENDS NpcRegistry, SequenceTheorems, WellFoundedInduction, TLAPS

Entries == Entry \cup {Absent}

\* m_entries: an entry is about its own NPC.
Registered(es) ==
    /\ es \in [Npcs -> Entries]
    /\ \A n \in Npcs : es[n].present => es[n].npc = n

\* A holder has a lease, and a lease has a holder.
Leased(es) ==
    \A n \in Npcs : es[n].present => (es[n].auth # Nobody <=> es[n].lease # NoLease)

\* HoldersWatch, of any entries, interest sets and connected players.
Held(es, watch, live) ==
    \A n \in Npcs :
        IF es[n].present
        THEN /\ (es[n].auth # Nobody) <=> (\E p \in Players : n \in watch[p])
             /\ (es[n].auth # Nobody) <=> (es[n].lease # NoLease)
             /\ es[n].auth # Nobody => n \in watch[es[n].auth] /\ es[n].auth \in live
        ELSE \A p \in Players : n \notin watch[p]

Types ==
    /\ Registered(entry)
    /\ interest \in [Players -> SUBSET Npcs]
    /\ disabled \in SUBSET Kinds
    /\ link \in [Players -> {"up", "silent", "gone"}]
    /\ place \in [Players -> Places]
    /\ stream \in [Players -> [Npcs -> Seq(Message)]]
    /\ packet \in [Players -> SUBSET View]
    /\ uplink \in [Players -> SUBSET Report]
    /\ known \in [Players -> SUBSET View]
    /\ off \in [Players -> SUBSET Npcs]

\* Every lease was granted once: h says to whom and for which NPC.  What is
\* known or under way anywhere is in accordance with that.
Grants == (Players \cup {Nobody}) \X (Npcs \cup {0})

Vouched(h) == {v \in View : v.lease # NoLease => h[v.lease] = <<v.auth, v.npc>>}

MessagesAbout(h, n) ==
    {m \in Message : m.type \in {"enter", "authority"} =>
                         m.view \in Vouched(h) /\ m.view.npc = n}

ReportsOf(h, p) ==
    {r \in Report : r.type = "update" => h[r.lease] = <<p, r.npc>>}

EntriesAccord(h, es) ==
    \A n \in Npcs : es[n].present /\ es[n].lease # NoLease =>
        h[es[n].lease] = <<es[n].auth, n>>

Accords(h) ==
    /\ EntriesAccord(h, entry)
    /\ \A p \in Players :
           /\ known[p] \cup packet[p] \subseteq Vouched(h)
           /\ uplink[p] \subseteq ReportsOf(h, p)
           /\ \A n \in Npcs : stream[p][n] \in Seq(MessagesAbout(h, n))

\* The inductive invariant.
Watched ==
    /\ Held(entry, interest, Connected)
    /\ \A p \in Players : interest[p] # {} => p \in Connected

IInv == Types /\ Watched /\ \E h \in [Leases -> Grants] : Accords(h)

-----------------------------------------------------------------------------
LEMMA EntryFacts ==
    ASSUME NEW es, Registered(es), NEW n \in Npcs, es[n].present
    PROVE  /\ es[n] \in Entry /\ es[n].npc = n
           /\ es[n].auth \in Players \cup {Nobody}
           /\ es[n].lease \in Leases \cup {NoLease}
<1>1. es[n] \in Entries /\ es[n].npc = n
  BY DEF Registered
<1>2. es[n] # Absent
  BY DEF Absent
<1> QED
  BY <1>1, <1>2 DEF Entries, Entry

LEMMA LeastNumber ==
    ASSUME NEW S, S \subseteq Nat, S # {}
    PROVE  \E x \in S : \A y \in S : x <= y
<1>1. PICK x \in S : \A y \in S : ~(<<y, x>> \in OpToRel(<, Nat))
  BY WFMin, NatLessThanWellFounded
<1>2. \A y \in S : x <= y
  <2> TAKE y \in S
  <2>1. ~(y < x)
    BY <1>1 DEF OpToRel
  <2> QED
    BY <2>1
<1> QED
  BY <1>2

\* Among interested players there is always a nearest one, however many.
LEMMA NearestIsCandidate ==
    ASSUME NEW e, e.at \in NpcPlaces, NEW cs, cs \subseteq Players, cs # {},
           place \in [Players -> Places]
    PROVE  Nearest(e, cs) \in cs
<1> DEFINE D(p) == Distance(place[p], e.at)
           ds == {D(p) : p \in cs}
<1>1. \A p \in cs : D(p) \in Nat /\ p \in Nat
  <2>1. \A x, y \in Int : Distance(x, y) \in Nat
    BY DEF Distance
  <2>2. e.at \in Int /\ \A p \in cs : place[p] \in Int /\ p \in Nat
    BY RegistryAssumption
  <2> QED
    BY <2>1, <2>2
<1>2. PICK p \in cs : \A q \in cs : D(p) <= D(q)
  <2>1. ds \subseteq Nat /\ ds # {}
    BY <1>1
  <2> HIDE DEF D
  <2>2. PICK d \in ds : \A y \in ds : d <= y
    BY <2>1, LeastNumber
  <2> QED
    BY <2>2
<1> DEFINE ns == {q \in cs : D(q) = D(p)}
<1>3. PICK r \in ns : \A q \in ns : r <= q
  <2>1. ns \subseteq Nat /\ ns # {}
    BY <1>1
  <2> QED
    BY <2>1, LeastNumber
<1> HIDE DEF D
<1>4. \A q \in cs : D(r) < D(q) \/ (D(r) = D(q) /\ r <= q)
  <2> TAKE q \in cs
  <2>1. r \in cs /\ D(r) = D(p) /\ D(p) <= D(q) /\ D(p) \in Nat /\ D(q) \in Nat
    BY <1>1, <1>2, <1>3
  <2>2. CASE D(q) = D(p)
    BY <1>3, <2>1, <2>2
  <2>3. CASE D(q) # D(p)
    BY <2>1, <2>3
  <2> QED
    BY <2>2, <2>3
<1> QED
  BY <1>3, <1>4 DEF Nearest, D

LEMMA FreshLeaseFacts ==
    ASSUME NEW ns, NEW ids \in FreshLeases(ns), NEW n \in ns
    PROVE  ids[n] \in Leases /\ ids[n] # NoLease /\ ids[n] \notin LeasesInUse
BY RegistryAssumption DEF FreshLeases

\* An entry under another lease.
Given(e, a, i, t) == [e EXCEPT !.auth = a, !.lease = i, !.ttl = t]

LEMMA GivenFacts ==
    ASSUME NEW e \in Entry, NEW a \in Players \cup {Nobody},
           NEW i \in Leases \cup {NoLease}, NEW t \in 0 .. LeaseTicks
    PROVE  /\ Given(e, a, i, t) \in Entry
           /\ Given(e, a, i, t).present /\ Given(e, a, i, t).npc = e.npc
           /\ Given(e, a, i, t).auth = a /\ Given(e, a, i, t).lease = i
BY DEF Entry, Given

\* assign_authorities leaves no NPC that is watched without a holder, and none
\* with a holder that does not watch it.
LEMMA AssignedIsHeld ==
    ASSUME NEW es, Registered(es), Leased(es), place \in [Players -> Places],
           NEW live, live \subseteq Players,
           NEW watch \in [Players -> SUBSET Npcs],
           \A p \in Players : watch[p] # {} => p \in live,
           \A p \in Players : \A n \in watch[p] : es[n].present,
           NEW ids \in FreshLeases(Unheld(es, watch))
    PROVE  /\ Registered(Assigned(es, watch, live, ids))
           /\ Held(Assigned(es, watch, live, ids), watch, live)
<1> DEFINE after == Assigned(es, watch, live, ids)
<1>1. ASSUME NEW n \in Npcs, n \notin Unheld(es, watch)
      PROVE  /\ after[n] = es[n] /\ after[n] \in Entries
             /\ after[n].present =>
                    /\ after[n].npc = n
                    /\ after[n].auth # Nobody /\ after[n].lease # NoLease
                    /\ after[n].auth \in Players /\ n \in watch[after[n].auth]
  <2>1. after[n] = es[n]
    BY <1>1 DEF Assigned
  <2>2. es[n] \in Entries /\ (es[n].present => es[n].npc = n)
    BY DEF Registered
  <2>3. es[n].present => LeaseHolds(es[n], watch)
    BY <1>1 DEF Unheld
  <2>4. es[n].present => es[n] \in Entry
    BY <2>2 DEF Entries, Absent
  <2> QED
    BY <2>1, <2>2, <2>3, <2>4 DEF LeaseHolds, Leased, Entry
<1>2. ASSUME NEW n \in Unheld(es, watch)
      PROVE  /\ after[n] \in Entry /\ after[n].present /\ after[n].npc = n
             /\ \/ /\ \A p \in Players : n \notin watch[p]
                   /\ after[n].auth = Nobody /\ after[n].lease = NoLease
                \/ /\ after[n].auth \in live /\ n \in watch[after[n].auth]
                   /\ after[n].auth # Nobody /\ after[n].lease # NoLease
  <2>1. n \in Npcs /\ es[n].present
    BY DEF Unheld
  <2>2. es[n] \in Entry /\ es[n].npc = n
    BY <2>1 DEF Registered, Entries, Absent
  <2> DEFINE cs == Candidates(es[n], watch, live)
  <2>3. after[n] = Granted(es[n], watch, live, ids[n])
    BY <2>1 DEF Assigned
  <2> HIDE DEF after
  <2>4. CASE cs = {}
    <3>1. after[n] = Given(es[n], Nobody, NoLease, 0)
      BY <2>3, <2>4 DEF Granted, Given
    <3>2. \A p \in Players : n \notin watch[p]
      BY <2>2, <2>4 DEF Candidates
    <3>3. 0 \in 0 .. LeaseTicks
      BY RegistryAssumption
    <3>4. /\ after[n] \in Entry /\ after[n].present /\ after[n].npc = n
          /\ after[n].auth = Nobody /\ after[n].lease = NoLease
      BY <2>2, <3>1, <3>3, GivenFacts
    <3> QED
      BY <3>2, <3>4
  <2>5. CASE cs # {}
    <3> DEFINE q == Nearest(es[n], cs)
    <3>1. after[n] = Given(es[n], q, ids[n], LeaseTicks)
      BY <2>3, <2>5 DEF Granted, Given
    <3>2. cs \subseteq Players /\ es[n].at \in NpcPlaces
      BY <2>2 DEF Candidates, Entry
    <3> HIDE DEF cs
    <3>3. q \in cs
      BY <2>5, <3>2, NearestIsCandidate
    <3> HIDE DEF q
    <3>4. q \in live /\ n \in watch[q] /\ q \in Players /\ q # Nobody
      BY <2>2, <3>2, <3>3, RegistryAssumption DEF cs, Candidates, Nobody
    <3>5. ids[n] \in Leases /\ ids[n] # NoLease /\ LeaseTicks \in 0 .. LeaseTicks
      BY FreshLeaseFacts, RegistryAssumption
    <3>6. /\ after[n] \in Entry /\ after[n].present /\ after[n].npc = n
          /\ after[n].auth = q /\ after[n].lease = ids[n]
      BY <2>2, <3>1, <3>4, <3>5, GivenFacts
    <3> QED
      BY <3>4, <3>5, <3>6
  <2> QED
    BY <2>4, <2>5
<1>3. DOMAIN after = Npcs /\ after = [n \in Npcs |-> after[n]]
  BY DEF Assigned
<1> HIDE DEF after
<1>4. Unheld(es, watch) \subseteq Npcs
  BY DEF Unheld
<1>5. Registered(after)
  BY <1>1, <1>2, <1>3 DEF Registered, Entries
<1>6. Held(after, watch, live)
  <2> SUFFICES ASSUME NEW n \in Npcs
               PROVE  IF after[n].present
                      THEN /\ (after[n].auth # Nobody) <=> (\E p \in Players : n \in watch[p])
                           /\ (after[n].auth # Nobody) <=> (after[n].lease # NoLease)
                           /\ after[n].auth # Nobody =>
                                  n \in watch[after[n].auth] /\ after[n].auth \in live
                      ELSE \A p \in Players : n \notin watch[p]
    BY DEF Held
  <2>1. CASE n \in Unheld(es, watch)
    BY <1>2, <2>1
  <2>2. CASE n \notin Unheld(es, watch)
    BY <1>1, <2>2
  <2> QED
    BY <2>1, <2>2
<1> QED
  BY <1>5, <1>6 DEF after

-----------------------------------------------------------------------------
\* A lease in use means what it meant: the grants of others may be added.
LEMMA LeasesOfStream ==
    ASSUME NEW h, NEW g, NEW n, NEW s \in Seq(MessagesAbout(h, n)),
           \A l \in MessageLeases(s) : l # NoLease => g[l] = h[l]
    PROVE  s \in Seq(MessagesAbout(g, n))
<1>1. /\ Len(s) \in Nat /\ DOMAIN s = 1 .. Len(s) /\ s = [i \in 1 .. Len(s) |-> s[i]]
      /\ \A i \in 1 .. Len(s) : s[i] \in MessagesAbout(h, n)
  BY LenProperties
<1>2. ASSUME NEW i \in 1 .. Len(s)
      PROVE  s[i] \in MessagesAbout(g, n)
  <2>1. s[i] \in Message
    BY <1>1 DEF MessagesAbout
  <2>2. ASSUME s[i].type \in {"enter", "authority"}
        PROVE  s[i].view \in Vouched(g) /\ s[i].view.npc = n
    <3>1. s[i].view \in Vouched(h) /\ s[i].view.npc = n
      BY <1>1, <2>2 DEF MessagesAbout
    <3>2. s[i].view.lease \in MessageLeases(s)
      BY <2>2 DEF MessageLeases
    <3> QED
      BY <3>1, <3>2 DEF Vouched
  <2> QED
    BY <2>1, <2>2 DEF MessagesAbout
<1>3. \E k \in Nat : s \in [1 .. k -> MessagesAbout(g, n)]
  BY <1>1, <1>2
<1> QED
  BY <1>3, SeqDef

LEMMA OldLeasesStand ==
    ASSUME Types, NEW h \in [Leases -> Grants], Accords(h), NEW g,
           \A l \in LeasesInUse : l # NoLease => g[l] = h[l]
    PROVE  Accords(g)
<1>1. EntriesAccord(g, entry)
  <2> SUFFICES ASSUME NEW n \in Npcs, entry[n].present, entry[n].lease # NoLease
               PROVE  g[entry[n].lease] = <<entry[n].auth, n>>
    BY DEF EntriesAccord
  <2>1. entry[n].lease \in LeasesInUse
    BY DEF LeasesInUse
  <2> QED
    BY <2>1 DEF Accords, EntriesAccord
<1>2. ASSUME NEW p \in Players
      PROVE  known[p] \cup packet[p] \subseteq Vouched(g)
  <2> SUFFICES ASSUME NEW v \in known[p] \cup packet[p]
               PROVE  v \in Vouched(g)
    OBVIOUS
  <2>1. v.lease \in LeasesInUse
    BY DEF LeasesInUse, LeasesOf
  <2>2. v \in Vouched(h)
    BY DEF Accords
  <2> QED
    BY <2>1, <2>2 DEF Vouched
<1>3. ASSUME NEW p \in Players
      PROVE  uplink[p] \subseteq ReportsOf(g, p)
  <2> SUFFICES ASSUME NEW r \in uplink[p]
               PROVE  r \in ReportsOf(g, p)
    OBVIOUS
  <2>1. r \in ReportsOf(h, p)
    BY DEF Accords
  <2>2. CASE r.type = "update"
    <3>1. r.lease \in LeasesInUse
      BY <2>2 DEF LeasesInUse
    <3>2. r.lease \in Leases
      BY <2>1, <2>2 DEF ReportsOf, Report
    <3> QED
      BY <2>1, <3>1, <3>2, RegistryAssumption DEF ReportsOf
  <2>3. CASE r.type # "update"
    BY <2>1, <2>3 DEF ReportsOf
  <2> QED
    BY <2>2, <2>3
<1>4. ASSUME NEW p \in Players, NEW n \in Npcs
      PROVE  stream[p][n] \in Seq(MessagesAbout(g, n))
  <2>1. MessageLeases(stream[p][n]) \subseteq LeasesInUse
    BY DEF LeasesInUse
  <2>2. stream[p][n] \in Seq(MessagesAbout(h, n))
    BY DEF Accords
  <2> QED
    BY <2>1, <2>2, LeasesOfStream
<1> QED
  BY <1>1, <1>2, <1>3, <1>4 DEF Accords

-----------------------------------------------------------------------------
\* The types that views and messages about n are made of.
LEMMA ViewFacts ==
    ASSUME NEW e \in Entry, NEW h, NEW n, e.npc = n,
           e.lease # NoLease => h[e.lease] = <<e.auth, n>>
    PROVE  /\ ViewOf(e) \in View /\ ViewOf(e) \in Vouched(h)
           /\ [type |-> "enter", view |-> ViewOf(e)] \in MessagesAbout(h, n)
           /\ [type |-> "authority", view |-> ViewOf(e)] \in MessagesAbout(h, n)
<1>1. ViewOf(e) \in View
  BY DEF ViewOf, View, Entry
<1>2. ViewOf(e) \in Vouched(h) /\ ViewOf(e).npc = n
  BY <1>1 DEF Vouched, ViewOf
<1>3. ASSUME NEW t \in {"enter", "authority"}
      PROVE  [type |-> t, view |-> ViewOf(e)] \in MessagesAbout(h, n)
  BY <1>1, <1>2 DEF MessagesAbout, Message
<1> QED
  BY <1>1, <1>2, <1>3

LEMMA PlainMessages ==
    ASSUME NEW h, NEW n, NEW b \in BOOLEAN
    PROVE  /\ [type |-> "leave"] \in MessagesAbout(h, n)
           /\ [type |-> "control", off |-> b] \in MessagesAbout(h, n)
BY DEF MessagesAbout, Message

LEMMA MessagesAreMessages ==
    ASSUME NEW h, NEW n, NEW s \in Seq(MessagesAbout(h, n))
    PROVE  s \in Seq(Message)
BY SeqMonotonic DEF MessagesAbout

-----------------------------------------------------------------------------
\* The entries a handler reconciles have no leases but those in memory.
SameLeases(es) ==
    \A n \in Npcs : es[n].present /\ es[n].lease # NoLease =>
        entry[n].present /\ es[n].lease = entry[n].lease /\ es[n].auth = entry[n].auth

LEMMA GrantedLease ==
    ASSUME NEW e \in Entry, NEW watch, NEW live, NEW id
    PROVE  /\ Granted(e, watch, live, id).present
           /\ Granted(e, watch, live, id).lease \in {NoLease, id}
BY DEF Granted, Entry

LEMMA LeasesAreLeases ==
    ASSUME Types
    PROVE  LeasesInUse \subseteq Leases \cup {NoLease}
<1>1. \A n \in Npcs : entry[n].present => entry[n].lease \in Leases \cup {NoLease}
  BY EntryFacts DEF Types
<1>2. \A p \in Players : \A v \in known[p] \cup packet[p] : v.lease \in Leases \cup {NoLease}
  BY DEF Types, View
<1>3. \A p \in Players : \A r \in uplink[p] : r.type = "update" => r.lease \in Leases
  BY DEF Types, Report
<1>4. ASSUME NEW p \in Players, NEW n \in Npcs
      PROVE  MessageLeases(stream[p][n]) \subseteq Leases \cup {NoLease}
  <2>1. stream[p][n] \in Seq(Message)
    BY DEF Types
  <2>2. \A i \in 1 .. Len(stream[p][n]) : stream[p][n][i] \in Message
    BY <2>1, LenProperties
  <2>3. \A m \in Message : m.type \in {"enter", "authority"} =>
                              m.view.lease \in Leases \cup {NoLease}
    BY DEF Message, View
  <2> QED
    BY <2>2, <2>3 DEF MessageLeases
<1> QED
  BY <1>1, <1>2, <1>3, <1>4 DEF LeasesInUse, LeasesOf

\* New leases are new grants, of ids that mean nothing to anybody.
LEMMA GrantsExtend ==
    ASSUME Types, NEW h \in [Leases -> Grants], Accords(h),
           NEW es, Registered(es), SameLeases(es), NEW live,
           NEW watch, NEW ids \in FreshLeases(Unheld(es, watch)),
           NEW after, after = Assigned(es, watch, live, ids), Registered(after)
    PROVE  \E g \in [Leases -> Grants] : Accords(g) /\ EntriesAccord(g, after)
<1> DEFINE ns == Unheld(es, watch)
           Owner(l) == CHOOSE n \in ns : ids[n] = l
           g == [l \in Leases |-> IF \E n \in ns : ids[n] = l
                                  THEN <<after[Owner(l)].auth, Owner(l)>> ELSE h[l]]
<1>1. ns \subseteq Npcs
  BY DEF Unheld
<1>2. \A n \in ns : ids[n] \in Leases /\ ids[n] # NoLease /\ ids[n] \notin LeasesInUse
  BY FreshLeaseFacts
<1>3. \A m, n \in ns : ids[m] = ids[n] => m = n
  BY DEF FreshLeases
<1> HIDE DEF ns
<1>4. \A n \in ns : Owner(ids[n]) = n
  BY <1>3
<1> HIDE DEF Owner
<1>5. \A n \in Npcs : after[n].present => after[n].auth \in Players \cup {Nobody}
  BY EntryFacts
<1>6. \A n \in ns : after[n].present /\ after[n].lease \in {NoLease, ids[n]}
  <2> TAKE n \in ns
  <2>1. es[n].present /\ n \in Npcs
    BY <1>1 DEF ns, Unheld
  <2>2. after[n] = Granted(es[n], watch, live, ids[n])
    BY <2>1 DEF Assigned, ns
  <2>3. es[n] \in Entry
    BY <2>1, EntryFacts
  <2> QED
    BY <2>2, <2>3, GrantedLease
<1>7. g \in [Leases -> Grants]
  <2> SUFFICES ASSUME NEW l \in Leases, NEW n \in ns, ids[n] = l
               PROVE  <<after[Owner(l)].auth, Owner(l)>> \in Grants
    OBVIOUS
  <2>1. Owner(l) = n
    BY <1>4
  <2> QED
    BY <1>1, <1>5, <1>6, <2>1 DEF Grants
<1>8. \A l \in LeasesInUse : l # NoLease => g[l] = h[l]
  <2> SUFFICES ASSUME NEW l \in LeasesInUse, l # NoLease
               PROVE  g[l] = h[l]
    OBVIOUS
  <2>1. l \in Leases
    BY LeasesAreLeases
  <2> QED
    BY <1>2, <2>1
<1>9. Accords(g)
  BY <1>8, OldLeasesStand
<1>10. EntriesAccord(g, after)
  <2> SUFFICES ASSUME NEW n \in Npcs, after[n].present, after[n].lease # NoLease
               PROVE  g[after[n].lease] = <<after[n].auth, n>>
    BY DEF EntriesAccord
  <2>1. CASE n \in ns
    <3>1. after[n].lease = ids[n] /\ ids[n] \in Leases
      BY <1>2, <1>6, <2>1
    <3> QED
      BY <1>4, <2>1, <3>1
  <2>2. CASE n \notin ns
    <3>1. after[n] = es[n]
      BY <2>2 DEF Assigned, ns
    <3>2. /\ entry[n].present /\ after[n].lease = entry[n].lease
          /\ after[n].auth = entry[n].auth
      BY <3>1 DEF SameLeases
    <3>3. entry[n].lease \in LeasesInUse
      BY <3>2 DEF LeasesInUse
    <3>4. h[entry[n].lease] = <<entry[n].auth, n>>
      BY <3>2 DEF Accords, EntriesAccord
    <3> QED
      BY <1>8, <3>2, <3>3, <3>4
  <2> QED
    BY <2>1, <2>2
<1> QED
  BY <1>7, <1>9, <1>10

-----------------------------------------------------------------------------
\* What follows for the state after a handler that reassigned leases, sent
\* news of that, and took at most something off the uplinks.
LEMMA NewsKeepAccord ==
    ASSUME Types, NEW h \in [Leases -> Grants], Accords(h),
           NEW after, Registered(after), EntriesAccord(h, after), entry' = after,
           UNCHANGED <<known, packet>>,
           uplink' \in [Players -> SUBSET Report],
           \A p \in Players : uplink'[p] \subseteq uplink[p],
           stream' = [p \in Players |-> [n \in Npcs |-> stream'[p][n]]],
           \A p \in Players, n \in Npcs :
               \/ stream'[p][n] = stream[p][n]
               \/ \E s \in Seq(MessagesAbout(h, n)) : stream'[p][n] = stream[p][n] \o s
    PROVE  stream' \in [Players -> [Npcs -> Seq(Message)]] /\ Accords(h)'
<1>1. \A p \in Players, n \in Npcs : stream[p][n] \in Seq(MessagesAbout(h, n))
  BY DEF Accords
<1>2. \A p \in Players, n \in Npcs : stream'[p][n] \in Seq(MessagesAbout(h, n))
  <2> TAKE p \in Players, n \in Npcs
  <2> DEFINE M == MessagesAbout(h, n)
  <2>1. stream[p][n] \in Seq(M)
    BY <1>1
  <2> HIDE DEF M
  <2>2. \A s \in Seq(M) : stream[p][n] \o s \in Seq(M)
    BY <2>1, ConcatProperties
  <2> QED
    BY <2>1, <2>2 DEF M
<1>3. \A p \in Players, n \in Npcs : stream'[p][n] \in Seq(Message)
  BY <1>2, MessagesAreMessages
<1>4. stream' \in [Players -> [Npcs -> Seq(Message)]]
  BY <1>3
<1>5. \A p \in Players : uplink'[p] \subseteq ReportsOf(h, p)
  BY DEF Accords
<1> QED
  BY <1>2, <1>4, <1>5 DEF Accords

Watching(es, watch, live) ==
    /\ live \subseteq Players
    /\ watch \in [Players -> SUBSET Npcs]
    /\ \A p \in Players : watch[p] # {} => p \in live
    /\ \A p \in Players : \A n \in watch[p] : es[n].present

UplinksShrink ==
    /\ uplink' \in [Players -> SUBSET Report]
    /\ \A p \in Players : uplink'[p] \subseteq uplink[p]

NewsAreTrue ==
    /\ stream' = [p \in Players |-> [n \in Npcs |-> stream'[p][n]]]
    /\ \A p \in Players, n \in Npcs, h \in [Leases -> Grants] :
           Registered(entry') /\ EntriesAccord(h, entry') =>
               \/ stream'[p][n] = stream[p][n]
               \/ \E s \in Seq(MessagesAbout(h, n)) : stream'[p][n] = stream[p][n] \o s

LEMMA AssignmentKeeps ==
    ASSUME IInv, NEW es, Registered(es), Leased(es), SameLeases(es),
           NEW live, NEW watch, Watching(es, watch, live),
           NEW ids \in FreshLeases(Unheld(es, watch)),
           entry' = Assigned(es, watch, live, ids), interest' = watch, Connected' = live,
           link' \in [Players -> {"up", "silent", "gone"}],
           UNCHANGED <<disabled, place, known, packet, off>>,
           UplinksShrink, NewsAreTrue
    PROVE  IInv'
<1>1. Types /\ place \in [Players -> Places]
  BY DEF IInv, Types
<1> DEFINE after == Assigned(es, watch, live, ids)
<1>2. Registered(after) /\ Held(after, watch, live)
  BY <1>1, AssignedIsHeld DEF Watching
<1>3. entry' = after
  OBVIOUS
<1>4. PICK h \in [Leases -> Grants] : Accords(h)
  BY DEF IInv
<1> HIDE DEF after
<1>5. PICK g \in [Leases -> Grants] : Accords(g) /\ EntriesAccord(g, after)
  BY <1>1, <1>2, <1>4, GrantsExtend DEF after
<1>6. stream' \in [Players -> [Npcs -> Seq(Message)]] /\ Accords(g)'
  BY <1>1, <1>2, <1>3, <1>5, NewsKeepAccord DEF UplinksShrink, NewsAreTrue
<1>7. Types'
  BY <1>1, <1>2, <1>3, <1>6 DEF Types, Watching, UplinksShrink
<1>8. Watched'
  BY <1>2, <1>3 DEF Watched, Watching
<1> QED
  BY <1>6, <1>7, <1>8 DEF IInv

\* reconcile tells each player what is in accordance with the new entries.
LEMMA NewsAccord ==
    ASSUME NEW es, NEW watch \in [Players -> SUBSET Npcs], NEW after, Registered(after),
           NEW h, EntriesAccord(h, after), NEW p \in Players, NEW n \in Npcs,
           \A m \in watch[p] : after[m].present
    PROVE  NewsOf(p, n, es, watch, after) \in Seq(MessagesAbout(h, n))
<1> DEFINE M == MessagesAbout(h, n)
           old == <<[type |-> "authority", view |-> ViewOf(after[n])]>>
           new == <<[type |-> "enter", view |-> ViewOf(after[n])]>>
<1>1. <<>> \in Seq(M)
  BY EmptySeq
<1>2. CASE n \in watch[p]
  <2>1. /\ after[n] \in Entry /\ after[n].npc = n
        /\ after[n].lease # NoLease => h[after[n].lease] = <<after[n].auth, n>>
    BY <1>2, EntryFacts DEF EntriesAccord
  <2>2. /\ [type |-> "authority", view |-> ViewOf(after[n])] \in M
        /\ [type |-> "enter", view |-> ViewOf(after[n])] \in M
    BY <2>1, ViewFacts
  <2> HIDE DEF M
  <2>3. old \in Seq(M) /\ new \in Seq(M)
    BY <2>2
  <2> HIDE DEF old, new
  <2>4. \A s, t \in Seq(M) : s \o t \in Seq(M)
    BY ConcatProperties
  <2>5. NewsOf(p, n, es, watch, after) =
            (IF n \in Unheld(es, watch) THEN old ELSE <<>>)
            \o (IF n \in interest[p] THEN <<>> ELSE new)
    BY <1>2 DEF NewsOf, old, new
  <2> QED
    BY <1>1, <2>3, <2>4, <2>5 DEF M
<1>3. CASE n \notin watch[p]
  <2>1. [type |-> "leave"] \in M
    BY PlainMessages
  <2>2. NewsOf(p, n, es, watch, after) \in {<<[type |-> "leave"]>>, <<>>}
    BY <1>3 DEF NewsOf
  <2> HIDE DEF M
  <2>3. <<[type |-> "leave"]>> \in Seq(M)
    BY <2>1
  <2> QED
    BY <1>1, <2>2, <2>3 DEF M
<1> QED
  BY <1>2, <1>3

LEMMA ReconciledKeeps ==
    ASSUME IInv, NEW es, Registered(es), Leased(es), SameLeases(es), Reconciled(es),
           UNCHANGED <<disabled, link, place, known, packet, off>>,
           UplinksShrink
    PROVE  IInv'
<1> DEFINE watch == [p \in Players |-> IF p \in Connected THEN Desired(p, es) ELSE {}]
<1>1. PICK ids \in FreshLeases(Unheld(es, watch)) :
          /\ entry' = Assigned(es, watch, Connected, ids)
          /\ interest' = watch
          /\ stream' = [p \in Players |-> [n \in Npcs |->
                           IF link[p] = "up"
                           THEN stream[p][n] \o NewsOf(p, n, es, watch,
                                                      Assigned(es, watch, Connected, ids))
                           ELSE stream[p][n]]]
  BY DEF Reconciled, Told
<1>2. /\ watch \in [Players -> SUBSET Npcs]
      /\ \A p \in Players : watch[p] # {} => p \in Connected
      /\ \A p \in Players : \A n \in watch[p] : es[n].present
  BY DEF Desired
<1> HIDE DEF watch
<1> DEFINE after == Assigned(es, watch, Connected, ids)
<1>3. Connected \subseteq Players /\ Connected' = Connected
  BY DEF Connected
<1>4. Types /\ link' \in [Players -> {"up", "silent", "gone"}] /\ place \in [Players -> Places]
  BY DEF IInv, Types
<1>5. Held(after, watch, Connected)
  BY <1>2, <1>3, <1>4, AssignedIsHeld
<1> HIDE DEF after
<1>6. \A p \in Players : \A n \in watch[p] : after[n].present
  BY <1>2, <1>5 DEF Held
<1>7. \A p \in Players, n \in Npcs, h \in [Leases -> Grants] :
          Registered(after) /\ EntriesAccord(h, after) =>
              \/ stream'[p][n] = stream[p][n]
              \/ \E s \in Seq(MessagesAbout(h, n)) : stream'[p][n] = stream[p][n] \o s
  <2> SUFFICES ASSUME NEW p \in Players, NEW n \in Npcs, NEW h \in [Leases -> Grants],
                      Registered(after), EntriesAccord(h, after)
               PROVE  \/ stream'[p][n] = stream[p][n]
                      \/ \E s \in Seq(MessagesAbout(h, n)) : stream'[p][n] = stream[p][n] \o s
    OBVIOUS
  <2>1. NewsOf(p, n, es, watch, after) \in Seq(MessagesAbout(h, n))
    BY <1>2, <1>6, NewsAccord
  <2>2. \/ stream'[p][n] = stream[p][n]
        \/ stream'[p][n] = stream[p][n] \o NewsOf(p, n, es, watch, after)
    BY <1>1 DEF after
  <2> QED
    BY <2>1, <2>2
<1>8. stream' = [p \in Players |-> [n \in Npcs |-> stream'[p][n]]]
  BY <1>1
<1>9. entry' = Assigned(es, watch, Connected, ids) /\ entry' = after
  BY <1>1 DEF after
<1>10. NewsAreTrue
  BY <1>7, <1>8, <1>9 DEF NewsAreTrue
<1>11. Watching(es, watch, Connected)
  BY <1>2, <1>3 DEF Watching
<1>12. interest' = watch
  BY <1>1
<1> QED
  BY <1>3, <1>4, <1>9, <1>10, <1>11, <1>12, AssignmentKeeps

-----------------------------------------------------------------------------
\* The handlers that reassign leases.
LEMMA EntryIsSound ==
    ASSUME IInv
    PROVE  Registered(entry) /\ Leased(entry) /\ SameLeases(entry)
BY DEF IInv, Types, Watched, Held, Leased, SameLeases

LEMMA ReconcileKeeps == IInv /\ Reconcile => IInv'
<1> SUFFICES ASSUME IInv, Reconcile
             PROVE  IInv'
  OBVIOUS
<1>1. UplinksShrink
  BY DEF Reconcile, UplinksShrink, IInv, Types
<1> QED
  BY <1>1, EntryIsSound, ReconciledKeeps DEF Reconcile

\* What handlers change in an entry without changing who holds it.
Ended(e, t) == [e EXCEPT !.ttl = t]
Corrected(e, x) == [e EXCEPT !.at = x, !.rev = @ + 1, !.observed = TRUE]
Updated(e, x) == [e EXCEPT !.at = x, !.rev = @ + 1, !.ttl = LeaseTicks]

SameHolder(e, f) ==
    f \in Entry /\ f.present /\ f.npc = e.npc /\ f.auth = e.auth /\ f.lease = e.lease

LEMMA EndedHolds ==
    ASSUME NEW e \in Entry, NEW t \in 0 .. LeaseTicks
    PROVE  SameHolder(e, Ended(e, t))
BY DEF Entry, Ended, SameHolder

LEMMA CorrectedHolds ==
    ASSUME NEW e \in Entry, NEW x \in NpcPlaces, e.rev < MaxRevision
    PROVE  SameHolder(e, Corrected(e, x))
<1>1. e.rev + 1 \in 1 .. MaxRevision
  BY RegistryAssumption DEF Entry
<1> DEFINE r == e.rev + 1
<1>2. Corrected(e, x) = [e EXCEPT !.at = x, !.rev = r, !.observed = TRUE]
  BY DEF Corrected
<1> HIDE DEF r
<1>3. r \in 1 .. MaxRevision
  BY <1>1 DEF r
<1> QED
  BY <1>2, <1>3 DEF Entry, SameHolder

LEMMA UpdatedHolds ==
    ASSUME NEW e \in Entry, NEW x \in NpcPlaces, e.rev < MaxRevision
    PROVE  SameHolder(e, Updated(e, x))
<1>1. e.rev + 1 \in 1 .. MaxRevision /\ LeaseTicks \in 0 .. LeaseTicks
  BY RegistryAssumption DEF Entry
<1> DEFINE r == e.rev + 1
<1>2. Updated(e, x) = [e EXCEPT !.at = x, !.rev = r, !.ttl = LeaseTicks]
  BY DEF Updated
<1> HIDE DEF r
<1>3. r \in 1 .. MaxRevision
  BY <1>1 DEF r
<1> QED
  BY <1>1, <1>2, <1>3 DEF Entry, SameHolder

LEMMA SameHolders ==
    ASSUME IInv, NEW es, es = [n \in Npcs |-> es[n]],
           \A n \in Npcs : \/ es[n] = entry[n]
                           \/ entry[n].present /\ SameHolder(entry[n], es[n])
    PROVE  /\ Registered(es) /\ Leased(es) /\ SameLeases(es)
           /\ Held(es, interest, Connected)
           /\ \A h : EntriesAccord(h, entry) => EntriesAccord(h, es)
<1>1. Registered(entry) /\ Leased(entry) /\ SameLeases(entry) /\ Held(entry, interest, Connected)
  BY EntryIsSound DEF IInv, Watched
<1>2. \A n \in Npcs : /\ es[n].present = entry[n].present
                      /\ es[n].present => /\ es[n].npc = n /\ entry[n].npc = n
                                          /\ es[n].auth = entry[n].auth
                                          /\ es[n].lease = entry[n].lease
                      /\ es[n] \in Entries
  <2> TAKE n \in Npcs
  <2>1. entry[n] \in Entries /\ (entry[n].present => entry[n].npc = n)
    BY <1>1 DEF Registered
  <2>2. CASE es[n] = entry[n]
    BY <2>1, <2>2
  <2>3. CASE entry[n].present /\ SameHolder(entry[n], es[n])
    BY <2>1, <2>3 DEF SameHolder, Entries
  <2> QED
    BY <2>2, <2>3
<1>3. Registered(es)
  BY <1>2 DEF Registered
<1>4. Leased(es)
  BY <1>1, <1>2 DEF Leased
<1>5. SameLeases(es)
  BY <1>1, <1>2 DEF SameLeases
<1>6. Held(es, interest, Connected)
  <2> SUFFICES ASSUME NEW n \in Npcs
               PROVE  IF es[n].present
                      THEN /\ (es[n].auth # Nobody) <=> (\E p \in Players : n \in interest[p])
                           /\ (es[n].auth # Nobody) <=> (es[n].lease # NoLease)
                           /\ es[n].auth # Nobody =>
                                  n \in interest[es[n].auth] /\ es[n].auth \in Connected
                      ELSE \A p \in Players : n \notin interest[p]
    BY DEF Held
  <2>1. CASE es[n].present
    <3>1. entry[n].present /\ es[n].auth = entry[n].auth /\ es[n].lease = entry[n].lease
      BY <1>2, <2>1
    <3> QED
      BY <1>1, <2>1, <3>1 DEF Held
  <2>2. CASE ~es[n].present
    <3>1. ~entry[n].present
      BY <1>2, <2>2
    <3> QED
      BY <1>1, <2>2, <3>1 DEF Held
  <2> QED
    BY <2>1, <2>2
<1>7. ASSUME NEW h, EntriesAccord(h, entry)
      PROVE  EntriesAccord(h, es)
  BY <1>2, <1>7 DEF EntriesAccord
<1> QED
  BY <1>3, <1>4, <1>5, <1>6, <1>7

LEMMA ObservedIsSound ==
    ASSUME IInv, NEW p \in Players, NEW r \in Report
    PROVE  /\ Registered(Observed(p, r)) /\ Leased(Observed(p, r))
           /\ SameLeases(Observed(p, r))
<1>1. /\ Registered(entry) /\ Leased(entry) /\ SameLeases(entry)
      /\ entry \in [Npcs -> Entries]
  BY EntryIsSound DEF Registered
<1>2. r.npc \in Npcs /\ r.at \in NpcPlaces
  BY DEF Report
<1> DEFINE n == r.npc
           made == Created(n, r.at, TRUE)
           moved == Corrected(entry[n], r.at)
<1>3. \/ Observed(p, r) = entry
      \/ Observed(p, r) = [entry EXCEPT ![n] = made]
      \/ /\ entry[n].present /\ entry[n].rev < MaxRevision
         /\ Observed(p, r) = [entry EXCEPT ![n] = moved]
  BY <1>1, <1>2 DEF Observed, Corrected
<1>4. CASE Observed(p, r) = entry
  BY <1>1, <1>4
<1>5. CASE Observed(p, r) = [entry EXCEPT ![n] = made]
  <2>1. made \in Entry /\ made.npc = n /\ made.auth = Nobody /\ made.lease = NoLease
    BY <1>2, RegistryAssumption DEF Created, Entry
  <2> HIDE DEF made
  <2>2. /\ Observed(p, r) \in [Npcs -> Entries]
        /\ Observed(p, r)[n] = made
        /\ \A m \in Npcs : m # n => Observed(p, r)[m] = entry[m]
    BY <1>1, <1>2, <1>5, <2>1 DEF Entries
  <2> QED
    BY <1>1, <2>1, <2>2 DEF Registered, Leased, SameLeases
<1>6. CASE /\ entry[n].present /\ entry[n].rev < MaxRevision
           /\ Observed(p, r) = [entry EXCEPT ![n] = moved]
  <2>1. entry[n] \in Entry
    BY <1>1, <1>2, <1>6, EntryFacts
  <2>2. SameHolder(entry[n], moved)
    BY <1>2, <1>6, <2>1, CorrectedHolds
  <2> HIDE DEF moved
  <2>3. /\ Observed(p, r) = [m \in Npcs |-> Observed(p, r)[m]]
        /\ Observed(p, r)[n] = moved
        /\ \A m \in Npcs : m # n => Observed(p, r)[m] = entry[m]
    BY <1>1, <1>2, <1>6
  <2>4. \A m \in Npcs : \/ Observed(p, r)[m] = entry[m]
                        \/ entry[m].present /\ SameHolder(entry[m], Observed(p, r)[m])
    <3> TAKE m \in Npcs
    <3>1. CASE m = n
      BY <1>6, <2>2, <2>3, <3>1
    <3>2. CASE m # n
      BY <2>3, <3>2
    <3> QED
      BY <3>1, <3>2
  <2> QED
    BY <2>3, <2>4, SameHolders
<1> QED
  BY <1>3, <1>4, <1>5, <1>6

LEMMA HandleDiscoveryKeeps ==
    ASSUME IInv, NEW p \in Players, HandleDiscovery(p)
    PROVE  IInv'
<1>1. PICK r \in uplink[p] : /\ uplink' = [uplink EXCEPT ![p] = @ \ {r}]
                             /\ Reconciled(Observed(p, r))
  BY DEF HandleDiscovery
<1>2. uplink \in [Players -> SUBSET Report] /\ r \in Report
  BY DEF IInv, Types
<1>3. UplinksShrink
  BY <1>1, <1>2 DEF UplinksShrink
<1>4. UNCHANGED <<disabled, link, place, known, packet, off>>
  BY DEF HandleDiscovery
<1> QED
  BY <1>1, <1>2, <1>3, <1>4, ObservedIsSound, ReconciledKeeps

LEMMA ServerNoticesKeeps ==
    ASSUME IInv, NEW p \in Players, ServerNotices(p)
    PROVE  IInv'
<1> DEFINE watch == [interest EXCEPT ![p] = {}]
           es == [n \in Npcs |->
                     IF entry[n].present /\ entry[n].auth = p
                     THEN Ended(entry[n], 0) ELSE entry[n]]
           live == Connected \ {p}
           after(ids) == Assigned(es, watch, live, ids)
<1>1. PICK ids \in FreshLeases(Unheld(es, watch)) :
          /\ entry' = after(ids)
          /\ interest' = watch
          /\ stream' = [q \in Players |-> [n \in Npcs |->
                 IF link[q] = "up"
                 THEN stream[q][n] \o
                      (IF n \in watch[q] \cap Unheld(es, watch)
                       THEN <<[type |-> "authority", view |-> ViewOf(after(ids)[n])]>>
                       ELSE << >>)
                 ELSE stream[q][n]]]
  BY DEF ServerNotices, Told, Ended
<1>2. /\ interest \in [Players -> SUBSET Npcs]
      /\ link \in [Players -> {"up", "silent", "gone"}]
      /\ Registered(entry) /\ Leased(entry) /\ SameLeases(entry)
      /\ Held(entry, interest, Connected)
      /\ \A q \in Players : interest[q] # {} => q \in Connected
      /\ place \in [Players -> Places]
  BY EntryIsSound DEF IInv, Types, Watched
<1>3. \A n \in Npcs : \/ es[n] = entry[n]
                      \/ entry[n].present /\ SameHolder(entry[n], es[n])
  <2> TAKE n \in Npcs
  <2>1. CASE entry[n].present /\ entry[n].auth = p
    <3>1. entry[n] \in Entry /\ 0 \in 0 .. LeaseTicks
      BY <1>2, <2>1, EntryFacts, RegistryAssumption
    <3>2. SameHolder(entry[n], Ended(entry[n], 0))
      BY <3>1, EndedHolds
    <3> QED
      BY <2>1, <3>2
  <2>2. CASE ~(entry[n].present /\ entry[n].auth = p)
    BY <2>2
  <2> QED
    BY <2>1, <2>2
<1>4. es = [n \in Npcs |-> es[n]]
  OBVIOUS
<1> HIDE DEF es
<1>5. Registered(es) /\ Leased(es) /\ SameLeases(es) /\ Held(es, interest, Connected)
  BY <1>3, <1>4, SameHolders
<1>6. Watching(es, watch, live)
  BY <1>2, <1>5 DEF Watching, Held, Connected
<1>7. link' = [link EXCEPT ![p] = "gone"] /\ Connected' = live
  BY <1>2 DEF ServerNotices, Connected
<1> HIDE DEF watch, live
<1>8. Held(after(ids), watch, live)
  BY <1>2, <1>5, <1>6, AssignedIsHeld DEF Watching
<1> DEFINE done == after(ids)
<1> HIDE DEF done
<1>10. NewsAreTrue
  <2>1. ASSUME NEW q \in Players, NEW n \in Npcs, NEW h \in [Leases -> Grants],
               Registered(done), EntriesAccord(h, done)
        PROVE  \/ stream'[q][n] = stream[q][n]
               \/ \E s \in Seq(MessagesAbout(h, n)) : stream'[q][n] = stream[q][n] \o s
    <3>1. CASE link[q] # "up"
      BY <1>1, <3>1
    <3>2. CASE link[q] = "up" /\ n \in watch[q] \cap Unheld(es, watch)
      <4>1. done[n].present
        BY <1>8, <3>2 DEF Held, done
      <4>2. /\ done[n] \in Entry /\ done[n].npc = n
            /\ done[n].lease # NoLease => h[done[n].lease] = <<done[n].auth, n>>
        BY <2>1, <4>1, EntryFacts DEF EntriesAccord
      <4>3. [type |-> "authority", view |-> ViewOf(done[n])] \in MessagesAbout(h, n)
        BY <4>2, ViewFacts
      <4>4. stream'[q][n] = stream[q][n] \o <<[type |-> "authority", view |-> ViewOf(done[n])]>>
        BY <1>1, <3>2 DEF done
      <4>5. <<[type |-> "authority", view |-> ViewOf(done[n])]>> \in Seq(MessagesAbout(h, n))
        BY <4>3
      <4> QED
        BY <4>4, <4>5
    <3>3. CASE link[q] = "up" /\ n \notin watch[q] \cap Unheld(es, watch)
      <4>1. stream'[q][n] = stream[q][n] \o <<>>
        BY <1>1, <3>3
      <4>2. <<>> \in Seq(MessagesAbout(h, n))
        BY EmptySeq
      <4> QED
        BY <4>1, <4>2
    <3> QED
      BY <3>1, <3>2, <3>3
  <2>2. stream' = [q \in Players |-> [n \in Npcs |-> stream'[q][n]]]
    BY <1>1
  <2>3. entry' = done
    BY <1>1 DEF done
  <2> QED
    BY <2>1, <2>2, <2>3 DEF NewsAreTrue
<1>11. UplinksShrink /\ UNCHANGED <<disabled, place, known, packet, off>>
  BY DEF ServerNotices, UplinksShrink, IInv, Types
<1>12. link' \in [Players -> {"up", "silent", "gone"}]
  BY <1>2, <1>7
<1>13. entry' = Assigned(es, watch, live, ids) /\ interest' = watch
  BY <1>1
<1> QED
  BY <1>5, <1>6, <1>7, <1>10, <1>11, <1>12, <1>13, AssignmentKeeps

-----------------------------------------------------------------------------
\* The invariant taken apart: the server's side, and what is under way.
Stations ==
    /\ Registered(entry)
    /\ interest \in [Players -> SUBSET Npcs]
    /\ disabled \in SUBSET Kinds
    /\ link \in [Players -> {"up", "silent", "gone"}]
    /\ place \in [Players -> Places]
    /\ off \in [Players -> SUBSET Npcs]

Shapes ==
    /\ known = [p \in Players |-> known[p]]
    /\ packet = [p \in Players |-> packet[p]]
    /\ uplink = [p \in Players |-> uplink[p]]
    /\ stream = [p \in Players |-> [n \in Npcs |-> stream[p][n]]]

Traffic(h) ==
    \A p \in Players :
        /\ known[p] \subseteq Vouched(h) /\ packet[p] \subseteq Vouched(h)
        /\ uplink[p] \subseteq ReportsOf(h, p)
        /\ \A n \in Npcs : stream[p][n] \in Seq(MessagesAbout(h, n))

LEMMA Apart ==
    ASSUME IInv
    PROVE  /\ Stations /\ Shapes /\ Watched
           /\ \E h \in [Leases -> Grants] : EntriesAccord(h, entry) /\ Traffic(h)
<1>1. Stations /\ Watched
  BY DEF IInv, Types, Stations
<1>2. Shapes
  <2>1. /\ stream = [p \in Players |-> stream[p]]
        /\ \A p \in Players : stream[p] = [n \in Npcs |-> stream[p][n]]
    BY DEF IInv, Types
  <2>2. stream = [p \in Players |-> [n \in Npcs |-> stream[p][n]]]
    BY <2>1
  <2>3. /\ known = [p \in Players |-> known[p]]
        /\ packet = [p \in Players |-> packet[p]]
        /\ uplink = [p \in Players |-> uplink[p]]
    BY DEF IInv, Types
  <2> QED
    BY <2>2, <2>3 DEF Shapes
<1>3. \A h : Accords(h) => EntriesAccord(h, entry) /\ Traffic(h)
  BY DEF Accords, Traffic
<1> QED
  BY <1>1, <1>2, <1>3 DEF IInv

LEMMA Together ==
    ASSUME Stations, Shapes, Watched,
           NEW h \in [Leases -> Grants], EntriesAccord(h, entry), Traffic(h)
    PROVE  IInv
<1>1. Accords(h)
  BY DEF Accords, Traffic
<1>2. \A p \in Players : /\ known[p] \in SUBSET View /\ packet[p] \in SUBSET View
                         /\ uplink[p] \in SUBSET Report
  BY DEF Traffic, Vouched, ReportsOf
<1>3. \A p \in Players, n \in Npcs : stream[p][n] \in Seq(Message)
  BY MessagesAreMessages DEF Traffic
<1>4. stream \in [Players -> [Npcs -> Seq(Message)]]
  BY <1>3 DEF Shapes
<1>5. /\ known \in [Players -> SUBSET View] /\ packet \in [Players -> SUBSET View]
      /\ uplink \in [Players -> SUBSET Report]
  BY <1>2 DEF Shapes
<1>6. Types
  BY <1>4, <1>5 DEF Types, Stations
<1> QED
  BY <1>1, <1>6 DEF IInv

Whole ==
    /\ Stations /\ Shapes /\ Watched
    /\ \E h \in [Leases -> Grants] : EntriesAccord(h, entry) /\ Traffic(h)

LEMMA WholeHolds == Whole => IInv
BY Together DEF Whole

LEMMA WholeNext == Whole' => IInv'
BY WholeHolds, PTL

LEMMA TogetherNext ==
    ASSUME Stations', Shapes', Watched',
           NEW h \in [Leases -> Grants], EntriesAccord(h, entry)', Traffic(h)'
    PROVE  IInv'
<1>1. Whole'
  BY DEF Whole
<1> QED
  BY <1>1, WholeNext

LEMMA InitHolds == Init => IInv
<1> SUFFICES ASSUME Init
             PROVE  IInv
  OBVIOUS
<1>1. PICK x \in NpcPlaces :
          entry = [n \in Npcs |-> IF n \in Catalogued /\ KindOf[n] \notin disabled
                                  THEN Created(n, x, FALSE) ELSE Absent]
  BY DEF Init
<1>2. \A n \in Npcs : /\ Created(n, x, FALSE) \in Entry
                      /\ Created(n, x, FALSE).npc = n
                      /\ Created(n, x, FALSE).auth = Nobody
                      /\ Created(n, x, FALSE).lease = NoLease
  BY RegistryAssumption DEF Created, Entry
<1>3. \A n \in Npcs : \/ entry[n] = Created(n, x, FALSE)
                      \/ entry[n] = Absent
  BY <1>1
<1>4. \A n \in Npcs : ~Absent.present
  BY DEF Absent
<1>5. Registered(entry)
  BY <1>1, <1>2, <1>3, <1>4 DEF Registered, Entries
<1>6. Stations
  BY <1>5 DEF Init, Stations
<1>7. Shapes
  BY DEF Init, Shapes
<1>8. Held(entry, interest, Connected)
  <2> SUFFICES ASSUME NEW n \in Npcs
               PROVE  /\ \A p \in Players : n \notin interest[p]
                      /\ entry[n].present => entry[n].auth = Nobody /\ entry[n].lease = NoLease
    BY DEF Held
  <2> QED
    BY <1>2, <1>3, <1>4 DEF Init
<1>9. Watched
  BY <1>8 DEF Watched, Init
<1> DEFINE h == [l \in Leases |-> <<Nobody, 0>>]
<1>10. h \in [Leases -> Grants]
  BY DEF Grants
<1> HIDE DEF h
<1>11. EntriesAccord(h, entry)
  BY <1>2, <1>3, <1>4 DEF EntriesAccord
<1>12. Traffic(h)
  <2>1. \A n : << >> \in Seq(MessagesAbout(h, n))
    BY EmptySeq
  <2> QED
    BY <2>1 DEF Init, Traffic
<1> QED
  BY <1>6, <1>7, <1>9, <1>10, <1>11, <1>12, Together

-----------------------------------------------------------------------------
\* Steps that leave entries and interests alone.
LEMMA TrafficKeeps ==
    ASSUME IInv, UNCHANGED server, Connected \subseteq Connected',
           link' \in [Players -> {"up", "silent", "gone"}],
           place' \in [Players -> Places], off' \in [Players -> SUBSET Npcs],
           Shapes',
           \A h \in [Leases -> Grants] :
               EntriesAccord(h, entry) /\ Traffic(h) => Traffic(h)'
    PROVE  IInv'
<1>1. PICK h \in [Leases -> Grants] : EntriesAccord(h, entry) /\ Traffic(h)
  BY Apart
<1>2. entry' = entry /\ interest' = interest /\ disabled' = disabled
  BY DEF server
<1>3. Stations'
  BY <1>2, Apart DEF Stations
<1>4. Watched'
  <2>1. Held(entry, interest, Connected) /\ \A p \in Players : interest[p] # {} => p \in Connected
    BY Apart DEF Watched
  <2> DEFINE live == Connected'
  <2>2. Held(entry, interest, live)
    <3> HIDE DEF live
    <3>1. Connected \subseteq live
      BY DEF live
    <3> QED
      BY <2>1, <3>1 DEF Held
  <2> QED
    BY <1>2, <2>1, <2>2 DEF Watched
<1>5. EntriesAccord(h, entry)' /\ Traffic(h)'
  BY <1>1, <1>2
<1> QED
  BY <1>1, <1>3, <1>4, <1>5, TogetherNext

LEMMA JoinKeeps == ASSUME IInv, NEW p \in Players, Join(p) PROVE IInv'
<1>1. Stations /\ Shapes
  BY Apart
<1>2. Connected \subseteq Connected' /\ link' \in [Players -> {"up", "silent", "gone"}]
  BY <1>1 DEF Join, Stations, Connected
<1>3. off' \in [Players -> SUBSET Npcs]
  BY <1>1 DEF Join, Stations
<1> DEFINE told == [n \in Npcs |-> <<[type |-> "control", off |-> KindOf[n] \in disabled]>>]
<1>4. /\ known' = [known EXCEPT ![p] = {}] /\ packet' = packet /\ uplink' = uplink
      /\ stream' = [stream EXCEPT ![p] = told]
  BY DEF Join
<1>5. \A h : \A n \in Npcs : told[n] \in Seq(MessagesAbout(h, n))
  <2> TAKE h
  <2> TAKE n \in Npcs
  <2> DEFINE M == MessagesAbout(h, n)
             b == KindOf[n] \in disabled
  <2>1. b \in BOOLEAN
    OBVIOUS
  <2>2. told[n] = <<[type |-> "control", off |-> b]>>
    OBVIOUS
  <2> HIDE DEF b, told
  <2>3. [type |-> "control", off |-> b] \in M
    BY <2>1, PlainMessages
  <2> HIDE DEF M
  <2>4. <<[type |-> "control", off |-> b]>> \in Seq(M)
    BY <2>3
  <2> QED
    BY <2>2, <2>4 DEF M
<1>6. told = [n \in Npcs |-> told[n]]
  OBVIOUS
<1> HIDE DEF told
<1>7. \A q \in Players : /\ known'[q] = IF q = p THEN {} ELSE known[q]
                         /\ stream'[q] = IF q = p THEN told ELSE stream[q]
  BY <1>1, <1>4 DEF Shapes
<1>8. Shapes'
  <2>1. known' = [q \in Players |-> known'[q]] /\ stream' = [q \in Players |-> stream'[q]]
    BY <1>1, <1>4 DEF Shapes
  <2>2. \A q \in Players : stream'[q] = [n \in Npcs |-> stream'[q][n]]
    BY <1>1, <1>6, <1>7 DEF Shapes
  <2>3. stream' = [q \in Players |-> [n \in Npcs |-> stream'[q][n]]]
    BY <2>1, <2>2
  <2> QED
    BY <1>1, <1>4, <2>1, <2>3 DEF Shapes
<1>9. \A h : Traffic(h) => Traffic(h)'
  BY <1>4, <1>5, <1>7 DEF Traffic
<1>10. UNCHANGED server /\ place' \in [Players -> Places]
  BY <1>1 DEF Join, server, Stations
<1> QED
  BY <1>2, <1>3, <1>8, <1>9, <1>10, TrafficKeeps

LEMMA WalkKeeps == ASSUME IInv, NEW p \in Players, Walk(p) PROVE IInv'
<1>1. Stations /\ Shapes
  BY Apart
<1>2. place' \in [Players -> Places]
  BY <1>1 DEF Walk, Stations
<1>3. UNCHANGED server /\ UNCHANGED <<link, stream, packet, uplink, known, off>>
  BY DEF Walk
<1>4. Shapes' /\ Connected' = Connected /\ \A h : Traffic(h) => Traffic(h)'
  BY <1>1, <1>3 DEF Shapes, Connected, Traffic
<1> QED
  BY <1>1, <1>2, <1>3, <1>4, TrafficKeeps DEF Stations

LEMMA LinkBreaksKeeps == ASSUME IInv, NEW p \in Players, LinkBreaks(p) PROVE IInv'
<1>1. Stations /\ Shapes
  BY Apart
<1>2. Connected \subseteq Connected' /\ link' \in [Players -> {"up", "silent", "gone"}]
  BY <1>1 DEF LinkBreaks, Stations, Connected
<1>3. /\ UNCHANGED server /\ UNCHANGED <<place, known, off>>
      /\ stream' = [stream EXCEPT ![p] = [n \in Npcs |-> << >>]]
      /\ packet' = [packet EXCEPT ![p] = {}]
      /\ uplink' = [uplink EXCEPT ![p] = {}]
  BY DEF LinkBreaks
<1>4. \A q \in Players :
          /\ packet'[q] = IF q = p THEN {} ELSE packet[q]
          /\ uplink'[q] = IF q = p THEN {} ELSE uplink[q]
          /\ stream'[q] = IF q = p THEN [n \in Npcs |-> << >>] ELSE stream[q]
  BY <1>1, <1>3 DEF Shapes
<1>5. Shapes'
  <2>1. /\ packet' = [q \in Players |-> packet'[q]] /\ uplink' = [q \in Players |-> uplink'[q]]
        /\ stream' = [q \in Players |-> stream'[q]]
    BY <1>1, <1>3 DEF Shapes
  <2>2. \A q \in Players : stream'[q] = [n \in Npcs |-> stream'[q][n]]
    BY <1>1, <1>4 DEF Shapes
  <2>3. stream' = [q \in Players |-> [n \in Npcs |-> stream'[q][n]]]
    BY <2>1, <2>2
  <2> QED
    BY <1>1, <1>3, <2>1, <2>3 DEF Shapes
<1>6. ASSUME NEW h, Traffic(h)
      PROVE  Traffic(h)'
  <2>1. \A n \in Npcs : << >> \in Seq(MessagesAbout(h, n))
    BY EmptySeq
  <2> QED
    BY <1>3, <1>4, <1>6, <2>1 DEF Traffic
<1> QED
  BY <1>1, <1>2, <1>3, <1>5, <1>6, TrafficKeeps DEF Stations

\* Handing a set of p's packets or reports on, with at most one added.
LEMMA SnapshotKeeps == ASSUME IInv, NEW p \in Players, Snapshot(p) PROVE IInv'
<1>1. Stations /\ Shapes
  BY Apart
<1>2. PICK n \in interest[p] : /\ entry[n].present
                               /\ packet' = [packet EXCEPT ![p] = @ \cup {ViewOf(entry[n])}]
  BY DEF Snapshot
<1>3. UNCHANGED server /\ UNCHANGED <<link, place, stream, uplink, known, off>>
  BY DEF Snapshot
<1>4. n \in Npcs /\ entry[n] \in Entry /\ entry[n].npc = n
  BY <1>1, <1>2, EntryFacts DEF Stations
<1> DEFINE sent == ViewOf(entry[n])
<1>5. \A h : EntriesAccord(h, entry) => sent \in Vouched(h)
  <2> TAKE h
  <2> HAVE EntriesAccord(h, entry)
  <2>1. entry[n].lease # NoLease => h[entry[n].lease] = <<entry[n].auth, n>>
    BY <1>2, <1>4 DEF EntriesAccord
  <2> QED
    BY <1>4, <2>1, ViewFacts
<1> HIDE DEF sent
<1>6. \A q \in Players : packet'[q] = IF q = p THEN packet[q] \cup {sent} ELSE packet[q]
  BY <1>1, <1>2 DEF Shapes, sent
<1>7. Shapes' /\ Connected' = Connected
  BY <1>1, <1>2, <1>3 DEF Shapes, Connected
<1>8. \A h : EntriesAccord(h, entry) /\ Traffic(h) => Traffic(h)'
  BY <1>3, <1>5, <1>6 DEF Traffic
<1> QED
  BY <1>1, <1>3, <1>7, <1>8, TrafficKeeps DEF Stations

LEMMA LosePacketKeeps == ASSUME IInv, NEW p \in Players, LosePacket(p) PROVE IInv'
<1>1. Stations /\ Shapes
  BY Apart
<1>2. UNCHANGED server /\ UNCHANGED <<link, place, stream, known, off>>
  BY DEF LosePacket
<1>3. CASE UNCHANGED uplink /\ \E v \in packet[p] : packet' = [packet EXCEPT ![p] = @ \ {v}]
  <2>1. PICK v \in packet[p] : packet' = [packet EXCEPT ![p] = @ \ {v}]
    BY <1>3
  <2>2. \A q \in Players : packet'[q] \subseteq packet[q]
    BY <1>1, <2>1 DEF Shapes
  <2>3. Shapes' /\ Connected' = Connected
    BY <1>1, <1>2, <1>3, <2>1 DEF Shapes, Connected
  <2>4. \A h : Traffic(h) => Traffic(h)'
    BY <1>2, <1>3, <2>2 DEF Traffic
  <2> QED
    BY <1>1, <1>2, <2>3, <2>4, TrafficKeeps DEF Stations
<1>4. CASE /\ UNCHANGED packet
           /\ \E r \in uplink[p] : uplink' = [uplink EXCEPT ![p] = @ \ {r}]
  <2>1. PICK r \in uplink[p] : uplink' = [uplink EXCEPT ![p] = @ \ {r}]
    BY <1>4
  <2>2. \A q \in Players : uplink'[q] \subseteq uplink[q]
    BY <1>1, <2>1 DEF Shapes
  <2>3. Shapes' /\ Connected' = Connected
    BY <1>1, <1>2, <1>4, <2>1 DEF Shapes, Connected
  <2>4. \A h : Traffic(h) => Traffic(h)'
    BY <1>2, <1>4, <2>2 DEF Traffic
  <2> QED
    BY <1>1, <1>2, <2>3, <2>4, TrafficKeeps DEF Stations
<1> QED
  BY <1>3, <1>4 DEF LosePacket

LEMMA ReceiveSnapshotKeeps ==
    ASSUME IInv, NEW p \in Players, ReceiveSnapshot(p)
    PROVE  IInv'
<1>1. Stations /\ Shapes
  BY Apart
<1>2. UNCHANGED server /\ UNCHANGED <<link, place, stream, uplink, off>>
  BY DEF ReceiveSnapshot
<1>3. PICK v \in packet[p] :
          /\ packet' = [packet EXCEPT ![p] = @ \ {v}]
          /\ \/ known' = [known EXCEPT ![p] = Forgotten(p, v.npc) \cup {v}]
             \/ known' = [known EXCEPT ![p] = known[p]]
  BY DEF ReceiveSnapshot
<1>4. \A q \in Players : /\ packet'[q] \subseteq packet[q]
                         /\ known'[q] \subseteq known[q] \cup packet[q]
  BY <1>1, <1>3 DEF Shapes, Forgotten
<1>5. Shapes' /\ Connected' = Connected
  BY <1>1, <1>2, <1>3 DEF Shapes, Connected
<1>6. \A h : Traffic(h) => Traffic(h)'
  <2> SUFFICES ASSUME NEW h, Traffic(h), NEW q \in Players
               PROVE  /\ known'[q] \subseteq Vouched(h) /\ packet'[q] \subseteq Vouched(h)
                      /\ uplink'[q] \subseteq ReportsOf(h, q)
                      /\ \A n \in Npcs : stream'[q][n] \in Seq(MessagesAbout(h, n))
    BY DEF Traffic
  <2> QED
    BY <1>2, <1>4 DEF Traffic
<1> QED
  BY <1>1, <1>2, <1>5, <1>6, TrafficKeeps DEF Stations

LEMMA SampleKeeps ==
    ASSUME IInv, NEW p \in Players, NEW n \in Npcs, Sample(p, n)
    PROVE  IInv'
<1>1. Stations /\ Shapes
  BY Apart
<1>2. UNCHANGED server /\ UNCHANGED <<link, place, stream, packet, known, off>>
  BY DEF Sample
<1>3. PICK x \in NpcPlaces :
          \/ uplink' = [uplink EXCEPT ![p] =
                 @ \cup {[type |-> "discovery", npc |-> n, at |-> x]}]
          \/ \E v \in known[p] :
                 /\ v.npc = n /\ v.auth = p /\ v.lease # NoLease
                 /\ uplink' = [uplink EXCEPT ![p] =
                        @ \cup {[type |-> "update", npc |-> n, at |-> x, lease |-> v.lease]}]
  BY DEF Sample
<1>4. PICK r : /\ uplink' = [uplink EXCEPT ![p] = @ \cup {r}]
               /\ \A h : Traffic(h) => r \in ReportsOf(h, p)
  <2>1. CASE uplink' = [uplink EXCEPT ![p] =
                 @ \cup {[type |-> "discovery", npc |-> n, at |-> x]}]
    <3>1. \A h : [type |-> "discovery", npc |-> n, at |-> x] \in ReportsOf(h, p)
      BY DEF ReportsOf, Report
    <3> QED
      BY <2>1, <3>1
  <2>2. ASSUME NEW v \in known[p], v.npc = n, v.auth = p, v.lease # NoLease,
               uplink' = [uplink EXCEPT ![p] =
                   @ \cup {[type |-> "update", npc |-> n, at |-> x, lease |-> v.lease]}]
        PROVE  \E r : /\ uplink' = [uplink EXCEPT ![p] = @ \cup {r}]
                      /\ \A h : Traffic(h) => r \in ReportsOf(h, p)
    <3> DEFINE r == [type |-> "update", npc |-> n, at |-> x, lease |-> v.lease]
    <3>1. ASSUME NEW h, Traffic(h)
          PROVE  r \in ReportsOf(h, p)
      <4>1. v \in View /\ h[v.lease] = <<p, n>>
        BY <2>2, <3>1 DEF Traffic, Vouched
      <4>2. v.lease \in Leases
        BY <2>2, <4>1 DEF View
      <4>3. r \in Report
        BY <4>2 DEF Report
      <4> QED
        BY <4>1, <4>3 DEF ReportsOf
    <3> HIDE DEF r
    <3>2. uplink' = [uplink EXCEPT ![p] = @ \cup {r}]
      BY <2>2 DEF r
    <3> QED
      BY <3>1, <3>2
  <2> QED
    BY <1>3, <2>1, <2>2
<1>5. \A q \in Players : uplink'[q] = IF q = p THEN uplink[q] \cup {r} ELSE uplink[q]
  BY <1>1, <1>4 DEF Shapes
<1>6. Shapes' /\ Connected' = Connected
  BY <1>1, <1>2, <1>4 DEF Shapes, Connected
<1>7. \A h : Traffic(h) => Traffic(h)'
  BY <1>2, <1>4, <1>5 DEF Traffic
<1> QED
  BY <1>1, <1>2, <1>6, <1>7, TrafficKeeps DEF Stations

\* What a reliable message makes of what the client knows.
LEMMA AppliedAccords ==
    ASSUME NEW h, NEW p \in Players, known[p] \subseteq Vouched(h),
           NEW n \in Npcs, NEW m \in MessagesAbout(h, n)
    PROVE  Applied(p, n, m) \subseteq Vouched(h)
<1>1. Forgotten(p, n) \subseteq Vouched(h)
  BY DEF Forgotten
<1>2. m.type \in {"enter", "authority", "leave", "control"}
  BY DEF MessagesAbout, Message
<1>3. CASE m.type = "enter"
  BY <1>1, <1>3 DEF Applied, MessagesAbout
<1>4. CASE m.type = "authority"
  <2> DEFINE New(v) == [v EXCEPT !.auth = m.view.auth, !.lease = m.view.lease]
  <2>1. m.view \in View /\ m.view \in Vouched(h) /\ m.view.npc = n
    BY <1>4 DEF MessagesAbout, Vouched
  <2>2. ASSUME NEW v \in known[p], v.npc = n
        PROVE  New(v) \in Vouched(h)
    <3>1. v \in View
      BY DEF Vouched
    <3>2. /\ New(v) \in View /\ New(v).npc = n
          /\ New(v).auth = m.view.auth /\ New(v).lease = m.view.lease
      BY <2>1, <2>2, <3>1 DEF View
    <3> HIDE DEF New
    <3> QED
      BY <2>1, <3>2 DEF Vouched
  <2>3. Applied(p, n, m) = {IF v.npc = n THEN New(v) ELSE v : v \in known[p]}
    BY <1>4 DEF Applied
  <2> HIDE DEF New
  <2> QED
    BY <2>2, <2>3
<1>5. CASE m.type = "leave" \/ m.type = "control"
  BY <1>1, <1>5 DEF Applied
<1> QED
  BY <1>2, <1>3, <1>4, <1>5

LEMMA ReceiveKeeps ==
    ASSUME IInv, NEW p \in Players, NEW n \in Npcs, Receive(p, n)
    PROVE  IInv'
<1>1. Stations /\ Shapes
  BY Apart
<1> DEFINE m == Head(stream[p][n])
           rest == Tail(stream[p][n])
<1>2. /\ UNCHANGED server /\ UNCHANGED <<link, place, packet, uplink>>
      /\ stream[p][n] # << >>
      /\ known' = [known EXCEPT ![p] = Applied(p, n, m)]
      /\ stream' = [stream EXCEPT ![p][n] = rest]
  BY DEF Receive
<1>3. off' \in [Players -> SUBSET Npcs]
  BY <1>1 DEF Receive, Stations
<1>4. \A h : Traffic(h) => m \in MessagesAbout(h, n) /\ rest \in Seq(MessagesAbout(h, n))
  <2> SUFFICES ASSUME NEW h, Traffic(h)
               PROVE  m \in MessagesAbout(h, n) /\ rest \in Seq(MessagesAbout(h, n))
    OBVIOUS
  <2> DEFINE M == MessagesAbout(h, n)
  <2>1. stream[p][n] \in Seq(M)
    BY DEF Traffic
  <2> HIDE DEF M
  <2> QED
    BY <1>2, <2>1, HeadTailProperties DEF M
<1> HIDE DEF m, rest
<1>5. /\ \A q \in Players : known'[q] = IF q = p THEN Applied(p, n, m) ELSE known[q]
      /\ \A q \in Players, k \in Npcs :
             stream'[q][k] = IF q = p /\ k = n THEN rest ELSE stream[q][k]
  BY <1>1, <1>2 DEF Shapes
<1>6. Shapes'
  <2>1. known' = [q \in Players |-> known'[q]] /\ stream' = [q \in Players |-> stream'[q]]
    BY <1>1, <1>2 DEF Shapes
  <2>2. \A q \in Players : stream'[q] = [k \in Npcs |-> stream'[q][k]]
    BY <1>1, <1>2 DEF Shapes
  <2>3. stream' = [q \in Players |-> [k \in Npcs |-> stream'[q][k]]]
    BY <2>1, <2>2
  <2> QED
    BY <1>1, <1>2, <2>1, <2>3 DEF Shapes
<1>7. ASSUME NEW h, Traffic(h)
      PROVE  Traffic(h)'
  <2>1. Applied(p, n, m) \subseteq Vouched(h)
    BY <1>4, <1>7, AppliedAccords DEF Traffic
  <2>2. \A q \in Players : known'[q] \subseteq Vouched(h)
    BY <1>5, <1>7, <2>1 DEF Traffic
  <2>3. \A q \in Players, k \in Npcs : stream'[q][k] \in Seq(MessagesAbout(h, k))
    BY <1>4, <1>5, <1>7 DEF Traffic
  <2> QED
    BY <1>2, <1>7, <2>2, <2>3 DEF Traffic
<1>8. Connected' = Connected
  BY <1>2 DEF Connected
<1> QED
  BY <1>1, <1>2, <1>3, <1>6, <1>7, <1>8, TrafficKeeps DEF Stations

-----------------------------------------------------------------------------
\* Steps that change entries but not who holds them.
LEMMA EntriesKeep ==
    ASSUME IInv, entry' = [n \in Npcs |-> entry'[n]],
           \A n \in Npcs : \/ entry'[n] = entry[n]
                           \/ entry[n].present /\ SameHolder(entry[n], entry'[n]),
           UNCHANGED <<interest, disabled, link, place, off>>,
           Shapes', \A h : Traffic(h) => Traffic(h)'
    PROVE  IInv'
<1> DEFINE es == entry'
<1>1. /\ es = [n \in Npcs |-> es[n]]
      /\ \A n \in Npcs : \/ es[n] = entry[n]
                         \/ entry[n].present /\ SameHolder(entry[n], es[n])
  OBVIOUS
<1> HIDE DEF es
<1>2. /\ Registered(es) /\ Held(es, interest, Connected)
      /\ \A h : EntriesAccord(h, entry) => EntriesAccord(h, es)
  BY <1>1, SameHolders
<1>3. Connected' = Connected /\ es = entry'
  BY DEF Connected, es
<1>4. PICK h \in [Leases -> Grants] : EntriesAccord(h, entry) /\ Traffic(h)
  BY Apart
<1>5. Stations' /\ Watched'
  BY <1>2, <1>3, Apart DEF Stations, Watched
<1>6. EntriesAccord(h, entry)' /\ Traffic(h)'
  BY <1>2, <1>3, <1>4
<1> QED
  BY <1>4, <1>5, <1>6, TogetherNext

LEMMA TickKeeps == IInv /\ Tick => IInv'
<1> SUFFICES ASSUME IInv, Tick
             PROVE  IInv'
  OBVIOUS
<1>1. Stations /\ Shapes
  BY Apart
<1>2. \A n \in Npcs : \/ entry'[n] = entry[n]
                      \/ entry[n].present /\ SameHolder(entry[n], entry'[n])
  <2> TAKE n \in Npcs
  <2>1. CASE entry[n].present /\ entry[n].ttl > 0
    <3>1. entry[n] \in Entry
      BY <1>1, <2>1, EntryFacts DEF Stations
    <3> DEFINE t == entry[n].ttl - 1
    <3>2. t \in 0 .. LeaseTicks
      <4>1. LeaseTicks \in Nat /\ entry[n].ttl \in 0 .. LeaseTicks
        BY <3>1, RegistryAssumption DEF Entry
      <4>2. \A x \in 0 .. LeaseTicks : x > 0 => x - 1 \in 0 .. LeaseTicks
        BY <4>1
      <4> QED
        BY <2>1, <4>1, <4>2
    <3>3. entry'[n] = Ended(entry[n], t)
      BY <2>1 DEF Tick, Ended
    <3> HIDE DEF t
    <3> QED
      BY <2>1, <3>1, <3>2, <3>3, EndedHolds
  <2>2. CASE ~(entry[n].present /\ entry[n].ttl > 0)
    BY <2>2 DEF Tick
  <2> QED
    BY <2>1, <2>2
<1>3. entry' = [n \in Npcs |-> entry'[n]]
  BY DEF Tick
<1>4. Shapes' /\ \A h : Traffic(h) => Traffic(h)'
  BY <1>1 DEF Tick, Shapes, Traffic
<1> QED
  BY <1>2, <1>3, <1>4, EntriesKeep DEF Tick

LEMMA HandleUpdateKeeps ==
    ASSUME IInv, NEW p \in Players, HandleUpdate(p)
    PROVE  IInv'
<1>1. Stations /\ Shapes
  BY Apart
<1>2. UNCHANGED <<interest, disabled, link, place, stream, packet, known, off>>
  BY DEF HandleUpdate
<1>3. PICK r \in uplink[p] :
          /\ uplink' = [uplink EXCEPT ![p] = @ \ {r}]
          /\ \/ /\ Accepts(p, r, entry[r.npc]) /\ entry[r.npc].rev < MaxRevision
                /\ entry' = [entry EXCEPT ![r.npc].at = r.at, ![r.npc].rev = @ + 1,
                                          ![r.npc].ttl = LeaseTicks]
             \/ ~Accepts(p, r, entry[r.npc]) /\ entry' = entry
  BY DEF HandleUpdate
<1>4. r \in Report /\ r.npc \in Npcs /\ r.at \in NpcPlaces
  <2>1. r \in Report
    BY DEF IInv, Types
  <2> QED
    BY <2>1 DEF Report
<1>5. entry' = [n \in Npcs |-> entry'[n]]
  BY <1>1, <1>3 DEF Stations, Registered
<1>6. \A n \in Npcs : \/ entry'[n] = entry[n]
                      \/ entry[n].present /\ SameHolder(entry[n], entry'[n])
  <2>1. CASE entry' = entry
    BY <2>1
  <2>2. CASE /\ Accepts(p, r, entry[r.npc]) /\ entry[r.npc].rev < MaxRevision
             /\ entry' = [entry EXCEPT ![r.npc].at = r.at, ![r.npc].rev = @ + 1,
                                       ![r.npc].ttl = LeaseTicks]
    <3>1. entry[r.npc].present /\ entry[r.npc] \in Entry
      BY <1>1, <1>4, <2>2, EntryFacts DEF Accepts, Stations
    <3>2. SameHolder(entry[r.npc], Updated(entry[r.npc], r.at))
      BY <1>4, <2>2, <3>1, UpdatedHolds
    <3>3. \A n \in Npcs : entry'[n] = IF n = r.npc THEN Updated(entry[n], r.at) ELSE entry[n]
      BY <1>1, <1>4, <2>2 DEF Stations, Registered, Updated
    <3> TAKE n \in Npcs
    <3>4. CASE n = r.npc
      BY <3>1, <3>2, <3>3, <3>4
    <3>5. CASE n # r.npc
      BY <3>3, <3>5
    <3> QED
      BY <3>4, <3>5
  <2> QED
    BY <1>3, <2>1, <2>2
<1>7. \A q \in Players : uplink'[q] \subseteq uplink[q]
  BY <1>1, <1>3 DEF Shapes
<1>8. Shapes'
  BY <1>1, <1>2, <1>3 DEF Shapes
<1>9. \A h : Traffic(h) => Traffic(h)'
  BY <1>2, <1>7 DEF Traffic
<1> QED
  BY <1>2, <1>5, <1>6, <1>8, <1>9, EntriesKeep

LEMMA SetDisabledKeeps ==
    ASSUME IInv, NEW kinds \in SUBSET Kinds, SetDisabled(kinds)
    PROVE  IInv'
<1>1. Stations /\ Shapes /\ Watched
  BY Apart
<1> DEFINE News(p, n) ==
               (IF n \in interest[p] \ interest'[p] THEN <<[type |-> "leave"]>> ELSE << >>)
               \o <<[type |-> "control", off |-> KindOf[n] \in kinds]>>
<1>2. /\ disabled' = kinds
      /\ entry' = [n \in Npcs |-> IF KindOf[n] \in kinds THEN Absent ELSE entry[n]]
      /\ interest' = [p \in Players |-> {n \in interest[p] : KindOf[n] \notin kinds}]
      /\ UNCHANGED <<link, place, packet, uplink, known, off>>
  BY DEF SetDisabled
<1>3. stream' = [p \in Players |-> [n \in Npcs |->
          IF link[p] = "up" THEN stream[p][n] \o News(p, n) ELSE stream[p][n]]]
  BY DEF SetDisabled, Told
<1>4. ASSUME NEW h, NEW p \in Players, NEW n \in Npcs
      PROVE  News(p, n) \in Seq(MessagesAbout(h, n))
  <2> DEFINE M == MessagesAbout(h, n)
             b == KindOf[n] \in kinds
             left == IF n \in interest[p] \ interest'[p] THEN <<[type |-> "leave"]>> ELSE << >>
  <2>1. b \in BOOLEAN /\ News(p, n) = left \o <<[type |-> "control", off |-> b]>>
    OBVIOUS
  <2> HIDE DEF b
  <2>2. [type |-> "leave"] \in M /\ [type |-> "control", off |-> b] \in M
    BY <2>1, PlainMessages
  <2> HIDE DEF M, News
  <2>3. left \in Seq(M) /\ <<[type |-> "control", off |-> b]>> \in Seq(M)
    BY <2>2, EmptySeq
  <2> HIDE DEF left
  <2>4. left \o <<[type |-> "control", off |-> b]>> \in Seq(M)
    BY <2>3, ConcatProperties
  <2> QED
    BY <2>1, <2>4 DEF M
<1> HIDE DEF News
<1>5. \A n \in Npcs : /\ ~Absent.present
                      /\ \/ entry'[n] = Absent /\ KindOf[n] \in kinds
                         \/ entry'[n] = entry[n] /\ KindOf[n] \notin kinds
  BY <1>2 DEF Absent
<1>6. Connected' = Connected
  BY <1>2 DEF Connected
<1>7. Stations'
  <2>1. Registered(entry)'
    BY <1>1, <1>2, <1>5 DEF Stations, Registered, Entries
  <2>2. interest' \in [Players -> SUBSET Npcs]
    BY <1>1, <1>2 DEF Stations
  <2> QED
    BY <1>1, <1>2, <2>1, <2>2 DEF Stations
<1>8. Held(entry', interest', Connected)
  <2>1. Held(entry, interest, Connected) /\ interest \in [Players -> SUBSET Npcs]
    BY <1>1 DEF Watched, Stations
  <2>2. Registered(entry)
    BY <1>1 DEF Stations
  <2> SUFFICES ASSUME NEW n \in Npcs
               PROVE  IF entry'[n].present
                      THEN /\ (entry'[n].auth # Nobody) <=> (\E p \in Players : n \in interest'[p])
                           /\ (entry'[n].auth # Nobody) <=> (entry'[n].lease # NoLease)
                           /\ entry'[n].auth # Nobody =>
                                  n \in interest'[entry'[n].auth] /\ entry'[n].auth \in Connected
                      ELSE \A p \in Players : n \notin interest'[p]
    BY DEF Held
  <2>3. CASE entry'[n] = Absent /\ KindOf[n] \in kinds
    BY <1>2, <1>5, <2>3
  <2>4. CASE entry'[n] = entry[n] /\ KindOf[n] \notin kinds
    <3>1. \A p \in Players : n \in interest'[p] <=> n \in interest[p]
      BY <1>2, <2>4
    <3>2. entry[n].present => entry[n].auth \in Players \cup {Nobody}
      BY <2>2, EntryFacts
    <3> QED
      BY <2>1, <2>4, <3>1, <3>2 DEF Held
  <2> QED
    BY <1>5, <2>3, <2>4
<1>9. Watched'
  BY <1>1, <1>2, <1>6, <1>8 DEF Watched
<1>10. PICK h \in [Leases -> Grants] : EntriesAccord(h, entry) /\ Traffic(h)
  BY Apart
<1>11. EntriesAccord(h, entry)'
  BY <1>5, <1>10 DEF EntriesAccord
<1>12. \A p \in Players, n \in Npcs : stream'[p][n] \in Seq(MessagesAbout(h, n))
  <2> TAKE p \in Players, n \in Npcs
  <2> DEFINE M == MessagesAbout(h, n)
  <2>1. stream[p][n] \in Seq(M) /\ News(p, n) \in Seq(M)
    BY <1>4, <1>10 DEF Traffic
  <2> HIDE DEF M
  <2>2. stream[p][n] \o News(p, n) \in Seq(M)
    BY <2>1, ConcatProperties
  <2> QED
    BY <1>3, <2>1, <2>2 DEF M
<1>13. Traffic(h)'
  BY <1>2, <1>10, <1>12 DEF Traffic
<1>14. Shapes'
  <2>1. stream' = [p \in Players |-> [n \in Npcs |-> stream'[p][n]]]
    BY <1>3
  <2> QED
    BY <1>1, <1>2, <2>1 DEF Shapes
<1> QED
  BY <1>7, <1>9, <1>10, <1>11, <1>13, <1>14, TogetherNext

-----------------------------------------------------------------------------
LEMMA NextKeeps == IInv /\ [Next]_vars => IInv'
<1> SUFFICES ASSUME IInv, [Next]_vars
             PROVE  IInv'
  OBVIOUS
<1>1. CASE UNCHANGED vars
  <2>1. /\ UNCHANGED <<interest, disabled, link, place, off>> /\ entry' = entry
        /\ UNCHANGED <<stream, packet, uplink, known>>
    BY <1>1 DEF vars
  <2>2. entry = [n \in Npcs |-> entry[n]] /\ Shapes
    BY Apart DEF Stations, Registered
  <2>3. Shapes' /\ \A h : Traffic(h) => Traffic(h)'
    BY <2>1, <2>2 DEF Shapes, Traffic
  <2> QED
    BY <2>1, <2>2, <2>3, EntriesKeep
<1>2. CASE Next
  <2>1. CASE Tick
    BY <2>1, TickKeeps
  <2>2. CASE Reconcile
    BY <2>2, ReconcileKeeps
  <2>3. CASE \E kinds \in SUBSET Kinds : SetDisabled(kinds)
    BY <2>3, SetDisabledKeeps
  <2>4. ASSUME NEW p \in Players,
               \/ Join(p) \/ Walk(p) \/ LinkBreaks(p) \/ ServerNotices(p)
        PROVE  IInv'
    BY <2>4, JoinKeeps, WalkKeeps, LinkBreaksKeeps, ServerNoticesKeeps
  <2>5. ASSUME NEW p \in Players,
               \/ Snapshot(p) \/ HandleDiscovery(p) \/ HandleUpdate(p)
               \/ LosePacket(p) \/ ReceiveSnapshot(p)
        PROVE  IInv'
    BY <2>5, SnapshotKeeps, HandleDiscoveryKeeps, HandleUpdateKeeps, LosePacketKeeps,
       ReceiveSnapshotKeeps
  <2>6. ASSUME NEW p \in Players, NEW n \in Npcs, Receive(p, n) \/ Sample(p, n)
        PROVE  IInv'
    BY <2>6, ReceiveKeeps, SampleKeeps
  <2> QED
    BY <1>2, <2>1, <2>2, <2>3, <2>4, <2>5, <2>6 DEF Next
<1> QED
  BY <1>1, <1>2

LEMMA Invariance == Spec => []IInv
BY InitHolds, NextKeeps, PTL DEF Spec

-----------------------------------------------------------------------------
\* m_entries, m_interest, the messages under way and the clients' m_npcs stay
\* what they are declared as, whatever the handlers do.
THEOREM TypeCorrect == Spec => []TypeOK
<1>1. IInv => TypeOK
  BY DEF IInv, Types, TypeOK, Registered, Entries
<1> QED
  BY <1>1, Invariance, PTL

\* An NPC has a holder exactly while a player is interested in it, and the
\* holder is such a player, connected and with a lease: reconcile,
\* remove_player and disable_kind leave no NPC behind unsimulated.
THEOREM HoldersAlwaysWatch == Spec => []HoldersWatch
<1>1. IInv => HoldersWatch
  BY DEF IInv, Watched, Held, HoldersWatch, Connected
<1> QED
  BY <1>1, Invariance, PTL

\* A lease names one holder and one NPC, on the server, at the clients and in
\* every message and report under way: npc_registry::update can tell a stale
\* update by its lease alone.
THEOREM LeasesNameHolders == Spec => []LeaseNamesHolder
<1>1. ASSUME IInv
      PROVE  LeaseNamesHolder
  <2>1. PICK h \in [Leases -> Grants] : EntriesAccord(h, entry) /\ Traffic(h)
    BY <1>1, Apart
  <2>2. \A v \in Views : v.lease # NoLease => h[v.lease] = <<v.auth, v.npc>>
    <3>1. ASSUME NEW n \in Npcs, entry[n].present, entry[n].lease # NoLease
          PROVE  h[entry[n].lease] = <<entry[n].auth, entry[n].npc>>
      <4>1. entry[n].npc = n
        BY <1>1, <3>1, EntryFacts DEF IInv, Types
      <4> QED
        BY <2>1, <3>1, <4>1 DEF EntriesAccord
    <3>2. ASSUME NEW p \in Players, NEW n \in Npcs, NEW i \in DOMAIN stream[p][n],
                 stream[p][n][i].type \in {"enter", "authority"}
          PROVE  stream[p][n][i].view \in Vouched(h)
      <4>1. stream[p][n] \in Seq(MessagesAbout(h, n))
        BY <2>1 DEF Traffic
      <4> DEFINE M == MessagesAbout(h, n)
      <4>2. stream[p][n][i] \in M
        <5> HIDE DEF M
        <5>1. stream[p][n] \in Seq(M)
          BY <4>1 DEF M
        <5> QED
          BY <5>1, LenProperties
      <4> QED
        BY <3>2, <4>2 DEF MessagesAbout
    <3>3. \A p \in Players : known[p] \cup packet[p] \subseteq Vouched(h)
      BY <2>1 DEF Traffic
    <3>4. \A v \in Views : \/ \E n \in Npcs : entry[n].present /\ v = ViewOf(entry[n])
                           \/ v \in Vouched(h)
      BY <3>2, <3>3 DEF Views
    <3> QED
      BY <3>1, <3>4 DEF Vouched, ViewOf
  <2>3. \A p \in Players : \A r \in uplink[p] : r.type = "update" =>
            h[r.lease] = <<p, r.npc>> /\ r.lease # NoLease
    BY <2>1, RegistryAssumption DEF Traffic, ReportsOf, Report
  <2> QED
    BY <2>2, <2>3 DEF LeaseNamesHolder
<1> QED
  BY <1>1, Invariance, PTL

-----------------------------------------------------------------------------
\* What the messages on their way about n decide, and in the end agree with.
\* Those in D decide whether the client keeps n, those in Y that it does; K is
\* what the client has now and W what the server means it to have: the last
\* deciding message agrees with W, and K does when there is none.
Agree(s, D, Y, n, K, W) ==
    /\ \A i \in 1 .. Len(s) :
           s[i] \in D /\ (\A j \in i + 1 .. Len(s) : s[j] \notin D) =>
               (s[i] \in Y <=> n \in W)
    /\ (\A i \in 1 .. Len(s) : s[i] \notin D) => (n \in K <=> n \in W)

\* Enter, leave and the notice that a kind is disabled decide whether a client
\* shows an NPC, every notice whether it holds its kind disabled.
Entering == {m \in Message : m.type = "enter"}
Controls == {m \in Message : m.type = "control"}
Disabling == {m \in Controls : m.off}
Deciding == Entering \cup Disabling \cup {m \in Message : m.type = "leave"}

Ids(views) == {v.npc : v \in views}
NpcsOf(kinds) == {n \in Npcs : KindOf[n] \in kinds}

Shown(p, n) == Agree(stream[p][n], Deciding, Entering, n, Ids(known[p]), interest[p])
Switched(p, n) == Agree(stream[p][n], Controls, Disabling, n, off[p], NpcsOf(disabled))

Quiet == \A p \in Players, n \in Npcs : link[p] = "up" => Shown(p, n) /\ Switched(p, n)

LEMMA AgreeSame ==
    ASSUME NEW s, NEW D, NEW Y, NEW n, NEW K, NEW W, NEW K2, NEW W2,
           Agree(s, D, Y, n, K, W), n \in K <=> n \in K2, n \in W <=> n \in W2
    PROVE  Agree(s, D, Y, n, K2, W2)
BY DEF Agree

LEMMA OneMore ==
    ASSUME NEW s \in Seq(Message), NEW m \in Message
    PROVE  /\ s \o <<m>> \in Seq(Message)
           /\ Len(s) \in Nat /\ Len(s \o <<m>>) = Len(s) + 1
           /\ \A i \in 1 .. Len(s) : (s \o <<m>>)[i] = s[i]
           /\ (s \o <<m>>)[Len(s) + 1] = m
<1> DEFINE M == Message
<1>1. s \in Seq(M) /\ m \in M
  OBVIOUS
<1> HIDE DEF M
<1>2. <<m>> \in Seq(M) /\ Len(<<m>>) = 1 /\ <<m>>[1] = m
  BY <1>1
<1>3. s \o <<m>> \in Seq(M) /\ Len(s) \in Nat /\ Len(s \o <<m>>) = Len(s) + 1
  BY <1>1, <1>2, ConcatProperties, LenProperties
<1>4. \A i \in 1 .. Len(s) + 1 :
          (s \o <<m>>)[i] = IF i <= Len(s) THEN s[i] ELSE <<m>>[i - Len(s)]
  BY <1>1, <1>2, ConcatProperties
<1>5. \A i \in 1 .. Len(s) : (s \o <<m>>)[i] = s[i]
  BY <1>3, <1>4
<1>6. (s \o <<m>>)[Len(s) + 1] = m
  BY <1>2, <1>3, <1>4
<1> QED
  BY <1>3, <1>5, <1>6 DEF M

\* A message that decides nothing changes nothing, one that does decides alone.
LEMMA AgreeAside ==
    ASSUME NEW s \in Seq(Message), NEW m \in Message, NEW D, NEW Y, NEW n, NEW K, NEW W,
           Agree(s, D, Y, n, K, W), m \notin D
    PROVE  Agree(s \o <<m>>, D, Y, n, K, W)
<1> DEFINE t == s \o <<m>>
           l == Len(s)
<1>1. /\ l \in Nat /\ Len(t) = l + 1
      /\ \A i \in 1 .. l : t[i] = s[i]
      /\ t[l + 1] = m
  BY OneMore
<1> HIDE DEF t
<1>2. ASSUME NEW i \in 1 .. Len(t), t[i] \in D, \A j \in i + 1 .. Len(t) : t[j] \notin D
      PROVE  t[i] \in Y <=> n \in W
  <2>1. i \in 1 .. l
    BY <1>1, <1>2
  <2>2. \A j \in i + 1 .. l : j \in 1 .. l /\ j \in i + 1 .. Len(t)
    BY <1>1, <2>1
  <2>3. \A j \in i + 1 .. l : s[j] \notin D
    BY <1>1, <1>2, <2>2
  <2>4. s[i] \in D /\ t[i] = s[i]
    BY <1>1, <1>2, <2>1
  <2> QED
    BY <2>1, <2>3, <2>4 DEF Agree
<1>3. ASSUME \A i \in 1 .. Len(t) : t[i] \notin D
      PROVE  n \in K <=> n \in W
  <2>1. \A i \in 1 .. l : i \in 1 .. Len(t)
    BY <1>1
  <2>2. \A i \in 1 .. l : s[i] \notin D
    BY <1>1, <1>3, <2>1
  <2> QED
    BY <2>2 DEF Agree
<1>4. Agree(t, D, Y, n, K, W)
  BY <1>2, <1>3 DEF Agree
<1> QED
  BY <1>4 DEF t

LEMMA AgreeDecided ==
    ASSUME NEW s \in Seq(Message), NEW m \in Message, NEW D, NEW Y, NEW n, NEW K, NEW W,
           m \in D, m \in Y <=> n \in W
    PROVE  Agree(s \o <<m>>, D, Y, n, K, W)
<1> DEFINE t == s \o <<m>>
           l == Len(s)
<1>1. l \in Nat /\ Len(t) = l + 1 /\ t[l + 1] = m
  BY OneMore
<1> HIDE DEF t, l
<1>2. l + 1 \in 1 .. Len(t)
  BY <1>1
<1>3. ASSUME NEW i \in 1 .. Len(t), t[i] \in D, \A j \in i + 1 .. Len(t) : t[j] \notin D
      PROVE  t[i] \in Y <=> n \in W
  <2>1. CASE i = l + 1
    BY <1>1, <2>1
  <2>2. CASE i # l + 1
    <3>1. l + 1 \in i + 1 .. Len(t)
      BY <1>1, <2>2
    <3> QED
      BY <1>1, <1>3, <3>1
  <2> QED
    BY <2>1, <2>2
<1>4. Agree(t, D, Y, n, K, W)
  BY <1>1, <1>2, <1>3 DEF Agree
<1> QED
  BY <1>4 DEF t

\* The client takes the first message.
LEMMA AgreeTail ==
    ASSUME NEW s \in Seq(Message), s # << >>, NEW D, NEW Y, NEW n, NEW K, NEW W, NEW K2,
           Agree(s, D, Y, n, K, W),
           Head(s) \in D => (n \in K2 <=> Head(s) \in Y),
           Head(s) \notin D => (n \in K2 <=> n \in K)
    PROVE  Agree(Tail(s), D, Y, n, K2, W)
<1> DEFINE M == Message
           t == Tail(s)
           l == Len(t)
<1>1. /\ l \in Nat /\ Len(s) = l + 1 /\ Head(s) = s[1]
      /\ \A i \in 1 .. l : t[i] = s[i + 1]
  <2>1. s \in Seq(M)
    OBVIOUS
  <2> HIDE DEF M
  <2>2. t \in Seq(M) /\ Len(t) = Len(s) - 1 /\ Len(s) \in Nat /\ Len(t) \in Nat
    BY <2>1, HeadTailProperties, LenProperties
  <2> QED
    BY <2>1, <2>2, HeadTailProperties
<1> HIDE DEF t, l
<1>2. ASSUME NEW i \in 1 .. l, t[i] \in D, \A j \in i + 1 .. l : t[j] \notin D
      PROVE  t[i] \in Y <=> n \in W
  <2>1. i + 1 \in 1 .. Len(s) /\ s[i + 1] = t[i]
    BY <1>1
  <2>2. ASSUME NEW j \in i + 1 + 1 .. Len(s)
        PROVE  s[j] \notin D
    <3>1. j - 1 \in i + 1 .. l /\ j - 1 \in 1 .. l /\ (j - 1) + 1 = j
      BY <1>1
    <3> QED
      BY <1>1, <1>2, <3>1
  <2> DEFINE k == i + 1
  <2>3. k \in 1 .. Len(s) /\ s[k] = t[i] /\ \A j \in k + 1 .. Len(s) : s[j] \notin D
    BY <2>1, <2>2
  <2> HIDE DEF k
  <2> QED
    BY <1>2, <2>3 DEF Agree
<1>3. ASSUME \A i \in 1 .. l : t[i] \notin D
      PROVE  n \in K2 <=> n \in W
  <2>1. ASSUME NEW j \in 2 .. Len(s)
        PROVE  s[j] \notin D
    <3>1. j - 1 \in 1 .. l /\ (j - 1) + 1 = j
      BY <1>1
    <3> QED
      BY <1>1, <1>3, <3>1
  <2>2. 1 \in 1 .. Len(s) /\ 1 + 1 = 2 /\ \A j \in 1 .. Len(s) : j = 1 \/ j \in 2 .. Len(s)
    BY <1>1
  <2>3. CASE s[1] \in D
    <3>1. s[1] \in Y <=> n \in W
      BY <2>1, <2>2, <2>3 DEF Agree
    <3> QED
      BY <1>1, <2>3, <3>1
  <2>4. CASE s[1] \notin D
    <3>1. \A j \in 1 .. Len(s) : s[j] \notin D
      BY <2>1, <2>2, <2>4
    <3>2. n \in K <=> n \in W
      BY <3>1 DEF Agree
    <3> QED
      BY <1>1, <2>4, <3>2
  <2> QED
    BY <2>3, <2>4
<1>4. Agree(t, D, Y, n, K2, W)
  BY <1>2, <1>3 DEF Agree, l
<1> QED
  BY <1>4 DEF t

\* What each message decides.
LEMMA ViewDecisions ==
    ASSUME NEW v \in View
    PROVE  /\ [type |-> "authority", view |-> v] \in Message
           /\ [type |-> "authority", view |-> v] \notin Deciding \cup Controls
           /\ [type |-> "enter", view |-> v] \in Message \cap Deciding \cap Entering
           /\ [type |-> "enter", view |-> v] \notin Controls
BY DEF Message, Entering, Controls, Disabling, Deciding

LEMMA LeaveDecides ==
    /\ [type |-> "leave"] \in Message \cap Deciding
    /\ [type |-> "leave"] \notin Entering \cup Controls
BY DEF Message, Entering, Controls, Disabling, Deciding

LEMMA ControlDecides ==
    ASSUME NEW b \in BOOLEAN
    PROVE  /\ [type |-> "control", off |-> b] \in Message \cap Controls
           /\ [type |-> "control", off |-> b] \notin Entering
           /\ [type |-> "control", off |-> b] \in Disabling <=> b
           /\ [type |-> "control", off |-> b] \in Deciding <=> b
BY DEF Message, Entering, Controls, Disabling, Deciding

LEMMA StreamsAreMessages ==
    ASSUME IInv, NEW p \in Players, NEW n \in Npcs
    PROVE  stream[p][n] \in Seq(Message)
BY DEF IInv, Types

-----------------------------------------------------------------------------
\* Steps that neither send news nor change what is disabled or of interest.
LEMMA QuietStays ==
    ASSUME Quiet, UNCHANGED <<link, stream, interest, disabled, off>>,
           \A p \in Players, n \in Npcs : n \in Ids(known'[p]) <=> n \in Ids(known[p])
    PROVE  Quiet'
<1> SUFFICES ASSUME NEW p \in Players, NEW n \in Npcs, link'[p] = "up"
             PROVE  Shown(p, n)' /\ Switched(p, n)'
  BY DEF Quiet
<1>1. Shown(p, n) /\ Switched(p, n)
  BY DEF Quiet
<1>2. Agree(stream[p][n], Deciding, Entering, n, Ids(known'[p]), interest[p])
  BY <1>1, AgreeSame DEF Shown
<1> QED
  BY <1>1, <1>2 DEF Shown, Switched

LEMMA JoinQuiet ==
    ASSUME IInv, Quiet, NEW p \in Players, Join(p)
    PROVE  Quiet'
<1> SUFFICES ASSUME NEW q \in Players, NEW n \in Npcs, link'[q] = "up"
             PROVE  Shown(q, n)' /\ Switched(q, n)'
  BY DEF Quiet
<1>1. Stations /\ Shapes /\ Watched
  BY Apart
<1>2. /\ link[p] = "gone" /\ link' = [link EXCEPT ![p] = "up"]
      /\ known' = [known EXCEPT ![p] = {}]
      /\ \E x : off' = [off EXCEPT ![p] = x]
      /\ stream' = [stream EXCEPT ![p] = [k \in Npcs |->
             <<[type |-> "control", off |-> KindOf[k] \in disabled]>>]]
      /\ interest' = interest /\ disabled' = disabled
  BY DEF Join
<1>3. CASE q # p
  <2>1. /\ link[q] = "up" /\ known'[q] = known[q] /\ off'[q] = off[q]
        /\ stream'[q] = stream[q]
    BY <1>1, <1>2, <1>3 DEF Stations, Shapes
  <2>2. Shown(q, n) /\ Switched(q, n)
    BY <2>1 DEF Quiet
  <2> QED
    BY <1>2, <2>1, <2>2 DEF Shown, Switched
<1>4. CASE q = p
  <2> DEFINE b == KindOf[n] \in disabled
             m == [type |-> "control", off |-> b]
             none == << >>
  <2>1. b \in BOOLEAN /\ (b <=> n \in NpcsOf(disabled)) /\ n \notin interest[p]
    BY <1>1, <1>2 DEF Watched, Connected, NpcsOf
  <2>2. stream'[q][n] = <<m>> /\ known'[q] = {}
    BY <1>1, <1>2, <1>4 DEF Shapes
  <2>3. none \in Seq(Message) /\ none \o <<m>> = <<m>>
    <3>1. <<m>> \in Seq({m})
      OBVIOUS
    <3> HIDE DEF m
    <3> QED
      BY <3>1, EmptySeq, ConcatEmptySeq
  <2> HIDE DEF b
  <2>4. /\ m \in Message /\ m \in Controls /\ (m \in Disabling <=> b)
        /\ m \notin Entering /\ (m \in Deciding <=> b)
    BY <2>1, ControlDecides
  <2> HIDE DEF m
  <2>5. Agree(none \o <<m>>, Controls, Disabling, n, off'[q], NpcsOf(disabled))
    BY <2>1, <2>3, <2>4, AgreeDecided
  <2>6. Agree(none \o <<m>>, Deciding, Entering, n, Ids({}), interest[p])
    <3>1. CASE m \in Deciding
      BY <2>1, <2>3, <2>4, <3>1, AgreeDecided
    <3>2. CASE m \notin Deciding
      <4>1. Agree(none, Deciding, Entering, n, Ids({}), interest[p])
        BY <2>1 DEF Agree, Ids
      <4> QED
        BY <2>3, <2>4, <3>2, <4>1, AgreeAside
    <3> QED
      BY <3>1, <3>2
  <2> QED
    BY <1>2, <1>4, <2>2, <2>3, <2>5, <2>6 DEF Shown, Switched
<1> QED
  BY <1>3, <1>4

LEMMA LinkBreaksQuiet ==
    ASSUME IInv, Quiet, NEW p \in Players, LinkBreaks(p)
    PROVE  Quiet'
<1> SUFFICES ASSUME NEW q \in Players, NEW n \in Npcs, link'[q] = "up"
             PROVE  Shown(q, n)' /\ Switched(q, n)'
  BY DEF Quiet
<1>1. Stations /\ Shapes
  BY Apart
<1>2. /\ q # p /\ link[q] = "up" /\ stream'[q] = stream[q]
      /\ UNCHANGED <<interest, disabled, known, off>>
  BY <1>1 DEF LinkBreaks, server, Stations, Shapes
<1> QED
  BY <1>2 DEF Quiet, Shown, Switched

\* Leases that move are told in authority messages, which decide nothing.
LEMMA AuthorityAside ==
    ASSUME IInv, NEW p \in Players, NEW n \in Npcs, Shown(p, n), Switched(p, n),
           NEW v \in View, NEW a, a \in {<< >>, <<[type |-> "authority", view |-> v]>>}
    PROVE  /\ stream[p][n] \o a \in Seq(Message)
           /\ Agree(stream[p][n] \o a, Deciding, Entering, n, Ids(known[p]), interest[p])
           /\ Agree(stream[p][n] \o a, Controls, Disabling, n, off[p], NpcsOf(disabled))
<1> DEFINE m == [type |-> "authority", view |-> v]
<1>1. m \in Message /\ m \notin Deciding /\ m \notin Controls
  BY ViewDecisions
<1>2. a \in {<< >>, <<m>>}
  OBVIOUS
<1> HIDE DEF m
<1>3. stream[p][n] \in Seq(Message)
  BY StreamsAreMessages
<1>4. stream[p][n] \o << >> = stream[p][n]
  BY <1>3, ConcatEmptySeq
<1>5. CASE a = << >>
  BY <1>3, <1>4, <1>5 DEF Shown, Switched
<1>6. CASE a = <<m>>
  BY <1>1, <1>3, <1>6, OneMore, AgreeAside DEF Shown, Switched
<1> QED
  BY <1>2, <1>5, <1>6

\* reconcile, whose news are authority, enter and leave messages.
LEMMA ReconciledQuiet ==
    ASSUME IInv, Quiet, NEW es, Registered(es), Leased(es), Reconciled(es),
           UNCHANGED <<disabled, link, known, off>>
    PROVE  Quiet'
<1> SUFFICES ASSUME NEW p \in Players, NEW n \in Npcs, link'[p] = "up"
             PROVE  Shown(p, n)' /\ Switched(p, n)'
  BY DEF Quiet
<1> DEFINE watch == [q \in Players |-> IF q \in Connected THEN Desired(q, es) ELSE {}]
<1>1. PICK ids \in FreshLeases(Unheld(es, watch)) :
          /\ entry' = Assigned(es, watch, Connected, ids)
          /\ interest' = watch
          /\ stream' = [q \in Players |-> [k \in Npcs |->
                           IF link[q] = "up"
                           THEN stream[q][k] \o NewsOf(q, k, es, watch,
                                                      Assigned(es, watch, Connected, ids))
                           ELSE stream[q][k]]]
  BY DEF Reconciled, Told
<1>2. /\ watch \in [Players -> SUBSET Npcs]
      /\ \A q \in Players : watch[q] # {} => q \in Connected
      /\ \A q \in Players : \A k \in watch[q] : es[k].present
  BY DEF Desired
<1> HIDE DEF watch
<1> DEFINE after == Assigned(es, watch, Connected, ids)
           v == ViewOf(after[n])
           s == stream[p][n]
           a == IF n \in Unheld(es, watch)
                THEN <<[type |-> "authority", view |-> v]>> ELSE << >>
<1>3. Registered(after) /\ Held(after, watch, Connected)
  <2>1. place \in [Players -> Places] /\ Connected \subseteq Players
    BY DEF IInv, Types, Connected
  <2> QED
    BY <1>2, <2>1, AssignedIsHeld
<1>4. link[p] = "up" /\ Shown(p, n) /\ Switched(p, n)
  BY DEF Quiet
<1>5. s \in Seq(Message)
  BY StreamsAreMessages
<1>6. stream'[p][n] = s \o NewsOf(p, n, es, watch, after)
  BY <1>1, <1>4
<1> HIDE DEF after
<1> SUFFICES /\ Agree(stream'[p][n], Deciding, Entering, n, Ids(known[p]), watch[p])
             /\ Agree(stream'[p][n], Controls, Disabling, n, off[p], NpcsOf(disabled))
  BY <1>1 DEF Shown, Switched
<1>7. CASE n \in watch[p]
  <2>1. after[n].present
    BY <1>2, <1>3, <1>7 DEF Held
  <2>2. v \in View
    <3>1. after[n] \in Entry /\ after[n].npc = n
      BY <1>3, <2>1, EntryFacts
    <3> DEFINE h == [l \in {after[n].lease} |-> <<after[n].auth, n>>]
    <3>2. h[after[n].lease] = <<after[n].auth, n>>
      OBVIOUS
    <3> HIDE DEF h
    <3> QED
      BY <3>1, <3>2, ViewFacts
  <2> HIDE DEF v
  <2>3. a \in {<< >>, <<[type |-> "authority", view |-> v]>>}
    OBVIOUS
  <2> HIDE DEF a
  <2>4. /\ s \o a \in Seq(Message)
        /\ Agree(s \o a, Deciding, Entering, n, Ids(known[p]), interest[p])
        /\ Agree(s \o a, Controls, Disabling, n, off[p], NpcsOf(disabled))
    BY <1>4, <2>2, <2>3, AuthorityAside
  <2> DEFINE m == [type |-> "enter", view |-> v]
  <2>5. m \in Message /\ m \in Deciding /\ m \in Entering /\ m \notin Controls
    BY <2>2, ViewDecisions
  <2>6. NewsOf(p, n, es, watch, after) = a \o (IF n \in interest[p] THEN << >> ELSE <<m>>)
    BY <1>7 DEF NewsOf, a, v
  <2>7. a \in Seq(Message) /\ <<m>> \in Seq(Message)
    <3>1. [type |-> "authority", view |-> v] \in Message
      BY <2>2, ViewDecisions
    <3> DEFINE M == Message
               w == [type |-> "authority", view |-> v]
    <3>2. w \in M /\ m \in M /\ a \in {<< >>, <<w>>}
      BY <2>3, <2>5, <3>1
    <3> HIDE DEF M, w, m
    <3>3. <<w>> \in Seq(M) /\ <<m>> \in Seq(M) /\ << >> \in Seq(M)
      BY <3>2, EmptySeq
    <3> QED
      BY <3>2, <3>3 DEF M
  <2> HIDE DEF m
  <2>8. CASE n \in interest[p]
    <3>1. NewsOf(p, n, es, watch, after) = a
      BY <2>6, <2>7, <2>8, ConcatEmptySeq
    <3>2. Agree(s \o a, Deciding, Entering, n, Ids(known[p]), watch[p])
      BY <1>7, <2>4, <2>8, AgreeSame
    <3> QED
      BY <1>6, <2>4, <3>1, <3>2
  <2>9. CASE n \notin interest[p]
    <3>1. stream'[p][n] = (s \o a) \o <<m>>
      <4>1. stream'[p][n] = s \o (a \o <<m>>)
        BY <1>6, <2>6, <2>9
      <4> HIDE DEF s
      <4> QED
        BY <1>5, <2>7, <4>1, ConcatAssociative
    <3>2. Agree((s \o a) \o <<m>>, Deciding, Entering, n, Ids(known[p]), watch[p])
      BY <1>7, <2>4, <2>5, AgreeDecided
    <3>3. Agree((s \o a) \o <<m>>, Controls, Disabling, n, off[p], NpcsOf(disabled))
      BY <2>4, <2>5, AgreeAside
    <3> QED
      BY <3>1, <3>2, <3>3
  <2> QED
    BY <2>8, <2>9
<1>8. CASE n \notin watch[p] /\ n \in interest[p]
  <2> DEFINE m == [type |-> "leave"]
  <2>1. m \in Message /\ m \in Deciding /\ m \notin Entering /\ m \notin Controls
    BY LeaveDecides
  <2>2. stream'[p][n] = s \o <<m>>
    BY <1>6, <1>8 DEF NewsOf
  <2> HIDE DEF m
  <2>3. Agree(s \o <<m>>, Deciding, Entering, n, Ids(known[p]), watch[p])
    BY <1>5, <1>8, <2>1, AgreeDecided
  <2>4. Agree(s \o <<m>>, Controls, Disabling, n, off[p], NpcsOf(disabled))
    BY <1>4, <1>5, <2>1, AgreeAside DEF Switched
  <2> QED
    BY <2>2, <2>3, <2>4
<1>9. CASE n \notin watch[p] /\ n \notin interest[p]
  <2>1. stream'[p][n] = s
    BY <1>5, <1>6, <1>9, ConcatEmptySeq DEF NewsOf
  <2>2. Agree(s, Deciding, Entering, n, Ids(known[p]), watch[p])
    BY <1>4, <1>9, AgreeSame DEF Shown
  <2> QED
    BY <1>4, <2>1, <2>2 DEF Switched
<1> QED
  BY <1>7, <1>8, <1>9

LEMMA HandleDiscoveryQuiet ==
    ASSUME IInv, Quiet, NEW p \in Players, HandleDiscovery(p)
    PROVE  Quiet'
<1>1. PICK r \in uplink[p] : Reconciled(Observed(p, r))
  BY DEF HandleDiscovery
<1>2. r \in Report
  BY DEF IInv, Types
<1>3. UNCHANGED <<disabled, link, known, off>>
  BY DEF HandleDiscovery
<1> QED
  BY <1>1, <1>2, <1>3, ObservedIsSound, ReconciledQuiet

LEMMA ServerNoticesQuiet ==
    ASSUME IInv, Quiet, NEW p \in Players, ServerNotices(p)
    PROVE  Quiet'
<1> SUFFICES ASSUME NEW q \in Players, NEW n \in Npcs, link'[q] = "up"
             PROVE  Shown(q, n)' /\ Switched(q, n)'
  BY DEF Quiet
<1>1. Stations /\ Shapes
  BY Apart
<1>2. q # p /\ link[q] = "up" /\ UNCHANGED <<disabled, known, off>>
  BY <1>1 DEF ServerNotices, Stations
<1>3. interest' = [interest EXCEPT ![p] = {}]
  BY DEF ServerNotices
<1>4. PICK after, free :
          /\ entry' = after
          /\ stream' = [r \in Players |-> [k \in Npcs |->
                 IF link[r] = "up"
                 THEN stream[r][k] \o
                      (IF k \in interest'[r] \cap free
                       THEN <<[type |-> "authority", view |-> ViewOf(after[k])]>>
                       ELSE << >>)
                 ELSE stream[r][k]]]
  <2> DEFINE watch == [interest EXCEPT ![p] = {}]
             es == [k \in Npcs |->
                       IF entry[k].present /\ entry[k].auth = p
                       THEN [entry[k] EXCEPT !.ttl = 0] ELSE entry[k]]
             moved(ids) == Assigned(es, watch, Connected \ {p}, ids)
  <2>1. PICK ids \in FreshLeases(Unheld(es, watch)) :
            /\ entry' = moved(ids)
            /\ interest' = watch
            /\ stream' = [r \in Players |-> [k \in Npcs |->
                   IF link[r] = "up"
                   THEN stream[r][k] \o
                        (IF k \in watch[r] \cap Unheld(es, watch)
                         THEN <<[type |-> "authority", view |-> ViewOf(moved(ids)[k])]>>
                         ELSE << >>)
                   ELSE stream[r][k]]]
    BY DEF ServerNotices, Told
  <2> DEFINE done == moved(ids)
             unheld == Unheld(es, watch)
  <2> HIDE DEF watch, es
  <2>2. /\ entry' = done
        /\ stream' = [r \in Players |-> [k \in Npcs |->
               IF link[r] = "up"
               THEN stream[r][k] \o
                    (IF k \in interest'[r] \cap unheld
                     THEN <<[type |-> "authority", view |-> ViewOf(done[k])]>>
                     ELSE << >>)
               ELSE stream[r][k]]]
    BY <2>1
  <2> HIDE DEF done, unheld
  <2> QED
    BY <2>2
<1>5. interest'[q] = interest[q] /\ Shown(q, n) /\ Switched(q, n)
  BY <1>1, <1>2, <1>3 DEF Stations, Quiet
<1> DEFINE v == ViewOf(after[n])
           a == IF n \in interest'[q] \cap free
                THEN <<[type |-> "authority", view |-> v]>> ELSE << >>
           s == stream[q][n]
<1>6. stream'[q][n] = s \o a
  BY <1>2, <1>4
<1> SUFFICES /\ Agree(s \o a, Deciding, Entering, n, Ids(known[q]), interest[q])
             /\ Agree(s \o a, Controls, Disabling, n, off[q], NpcsOf(disabled))
  BY <1>2, <1>5, <1>6 DEF Shown, Switched
<1>7. CASE n \in interest'[q] \cap free
  <2>1. IInv'
    BY ServerNoticesKeeps
  <2>2. v \in View
    <3>1. /\ entry'[n] \in Entries /\ entry'[n].present
      BY <1>7, <2>1 DEF IInv, Types, Registered, Watched, Held
    <3>2. after[n] \in Entry
      BY <1>4, <3>1 DEF Entries, Absent
    <3> QED
      BY <3>2 DEF ViewOf, View, Entry
  <2> HIDE DEF v
  <2>3. a \in {<< >>, <<[type |-> "authority", view |-> v]>>}
    BY <1>7
  <2> HIDE DEF a
  <2> QED
    BY <1>5, <2>2, <2>3, AuthorityAside
<1>8. CASE n \notin interest'[q] \cap free
  <2>1. s \in Seq(Message) /\ a = << >>
    BY <1>8, StreamsAreMessages
  <2>2. s \o a = s
    BY <2>1, ConcatEmptySeq
  <2> QED
    BY <1>5, <2>2 DEF Shown, Switched
<1> QED
  BY <1>7, <1>8

\* A client is told of the NPCs it loses before the kinds that are disabled.
LEMMA SetDisabledQuiet ==
    ASSUME IInv, Quiet, NEW kinds \in SUBSET Kinds, SetDisabled(kinds)
    PROVE  Quiet'
<1> SUFFICES ASSUME NEW p \in Players, NEW n \in Npcs, link'[p] = "up"
             PROVE  Shown(p, n)' /\ Switched(p, n)'
  BY DEF Quiet
<1>1. Stations /\ Shapes
  BY Apart
<1> DEFINE b == KindOf[n] \in kinds
           m == [type |-> "control", off |-> b]
           bye == [type |-> "leave"]
           left == IF n \in interest[p] \ interest'[p] THEN <<bye>> ELSE << >>
           s == stream[p][n]
<1>2. link[p] = "up" /\ disabled' = kinds /\ UNCHANGED <<known, off>>
  BY DEF SetDisabled
<1>3. Shown(p, n) /\ Switched(p, n)
  BY <1>2 DEF Quiet
<1>4. /\ b \in BOOLEAN /\ (b <=> n \in NpcsOf(kinds))
      /\ n \in interest'[p] <=> (n \in interest[p] /\ ~b)
  <2>1. interest' = [q \in Players |-> {k \in interest[q] : KindOf[k] \notin kinds}]
    BY DEF SetDisabled
  <2>2. interest'[p] = {k \in interest[p] : KindOf[k] \notin kinds}
    BY <2>1
  <2> QED
    BY <2>2 DEF NpcsOf
<1>5. stream'[p][n] = s \o (left \o <<m>>)
  BY <1>2 DEF SetDisabled, Told
<1> HIDE DEF b
<1>6. /\ m \in Message /\ m \in Controls /\ (m \in Disabling <=> b)
      /\ m \notin Entering /\ (m \in Deciding <=> b)
  BY <1>4, ControlDecides
<1>7. bye \in Message /\ bye \in Deciding /\ bye \notin Entering /\ bye \notin Controls
  BY LeaveDecides
<1> HIDE DEF m, bye
<1>8. s \in Seq(Message)
  BY StreamsAreMessages
<1>9. /\ s \o left \in Seq(Message)
      /\ Agree(s \o left, Deciding, Entering, n, Ids(known[p]), interest'[p])
      /\ Agree(s \o left, Controls, Disabling, n, off[p], NpcsOf(disabled))
  <2>1. CASE n \in interest[p] /\ n \notin interest'[p]
    <3>1. s \o left = s \o <<bye>>
      BY <2>1
    <3>2. Agree(s \o <<bye>>, Deciding, Entering, n, Ids(known[p]), interest'[p])
      BY <1>7, <1>8, <2>1, AgreeDecided
    <3>3. Agree(s \o <<bye>>, Controls, Disabling, n, off[p], NpcsOf(disabled))
      BY <1>3, <1>7, <1>8, AgreeAside DEF Switched
    <3>4. s \o <<bye>> \in Seq(Message)
      BY <1>7, <1>8, OneMore
    <3> QED
      BY <3>1, <3>2, <3>3, <3>4
  <2>2. CASE ~(n \in interest[p] /\ n \notin interest'[p])
    <3>1. s \o left = s
      <4>1. left = << >>
        BY <2>2
      <4> QED
        BY <1>8, <4>1, ConcatEmptySeq
    <3>2. Agree(s, Deciding, Entering, n, Ids(known[p]), interest'[p])
      BY <1>3, <1>4, <2>2, AgreeSame DEF Shown
    <3> QED
      BY <1>3, <1>8, <3>1, <3>2 DEF Switched
  <2> QED
    BY <2>1, <2>2
<1>10. stream'[p][n] = (s \o left) \o <<m>>
  <2>1. left \in Seq(Message) /\ <<m>> \in Seq(Message)
    <3> DEFINE M == Message
    <3>1. bye \in M /\ m \in M /\ left \in {<< >>, <<bye>>}
      BY <1>6, <1>7
    <3> HIDE DEF M, left
    <3>2. <<bye>> \in Seq(M) /\ <<m>> \in Seq(M) /\ << >> \in Seq(M)
      BY <3>1, EmptySeq
    <3> QED
      BY <3>1, <3>2 DEF M
  <2> HIDE DEF left, s
  <2> QED
    BY <1>5, <1>8, <2>1, ConcatAssociative
<1> DEFINE t == s \o left
<1>11. t \in Seq(Message) /\ stream'[p][n] = t \o <<m>>
  BY <1>9, <1>10
<1>12. Agree(t \o <<m>>, Controls, Disabling, n, off[p], NpcsOf(kinds))
  <2> HIDE DEF t
  <2> QED
    BY <1>4, <1>6, <1>11, AgreeDecided
<1>13. Agree(t \o <<m>>, Deciding, Entering, n, Ids(known[p]), interest'[p])
  <2> HIDE DEF t
  <2>1. CASE b
    BY <1>4, <1>6, <1>11, <2>1, AgreeDecided
  <2>2. CASE ~b
    <3>1. Agree(t, Deciding, Entering, n, Ids(known[p]), interest'[p])
      BY <1>9 DEF t
    <3> QED
      BY <1>6, <1>11, <2>2, <3>1, AgreeAside
  <2> QED
    BY <2>1, <2>2
<1> QED
  BY <1>2, <1>11, <1>12, <1>13 DEF Shown, Switched

-----------------------------------------------------------------------------
\* What a reliable message about n makes of the NPCs a client knows.
LEMMA AppliedDecides ==
    ASSUME NEW p \in Players, known[p] \subseteq View, NEW n \in Npcs, NEW m \in Message,
           m.type \in {"enter", "authority"} => m.view.npc = n
    PROVE  /\ \A k \in Npcs \ {n} : k \in Ids(Applied(p, n, m)) <=> k \in Ids(known[p])
           /\ m \in Deciding => (n \in Ids(Applied(p, n, m)) <=> m \in Entering)
           /\ m \notin Deciding => (n \in Ids(Applied(p, n, m)) <=> n \in Ids(known[p]))
<1>1. /\ n \notin Ids(Forgotten(p, n))
      /\ \A k \in Npcs \ {n} : k \in Ids(Forgotten(p, n)) <=> k \in Ids(known[p])
  BY DEF Ids, Forgotten
<1>2. CASE m.type = "enter"
  <2>1. m \in Deciding /\ m \in Entering
    BY <1>2 DEF Deciding, Entering
  <2>2. Applied(p, n, m) = Forgotten(p, n) \cup {m.view}
    BY <1>2 DEF Applied
  <2> QED
    BY <1>1, <1>2, <2>1, <2>2 DEF Ids
<1>3. CASE m.type = "authority"
  <2> DEFINE New(v) == [v EXCEPT !.auth = m.view.auth, !.lease = m.view.lease]
             Next1(v) == IF v.npc = n THEN New(v) ELSE v
  <2>1. \A v \in known[p] : New(v).npc = v.npc
    BY DEF View
  <2> HIDE DEF New
  <2>2. \A v \in known[p] : Next1(v).npc = v.npc
    BY <2>1
  <2>3. Applied(p, n, m) = {Next1(v) : v \in known[p]}
    BY <1>3 DEF Applied, New
  <2> HIDE DEF Next1
  <2>4. \A k : k \in Ids(Applied(p, n, m)) <=> k \in Ids(known[p])
    BY <2>2, <2>3 DEF Ids
  <2>5. m \notin Deciding
    BY <1>3 DEF Deciding, Entering, Disabling, Controls
  <2> QED
    BY <2>4, <2>5
<1>4. CASE m.type = "leave"
  <2>1. m \in Deciding /\ m \notin Entering /\ Applied(p, n, m) = Forgotten(p, n)
    BY <1>4 DEF Deciding, Entering, Applied
  <2> QED
    BY <1>1, <2>1
<1>5. CASE m.type = "control"
  <2>1. /\ m \in Deciding <=> m.off
        /\ m \notin Entering
        /\ Applied(p, n, m) = IF m.off THEN Forgotten(p, n) ELSE known[p]
    BY <1>5 DEF Deciding, Entering, Disabling, Controls, Applied
  <2> QED
    BY <1>1, <2>1
<1> QED
  BY <1>2, <1>3, <1>4, <1>5 DEF Message

LEMMA ReceiveQuiet ==
    ASSUME IInv, Quiet, NEW p \in Players, NEW n \in Npcs, Receive(p, n)
    PROVE  Quiet'
<1> SUFFICES ASSUME NEW q \in Players, NEW k \in Npcs, link'[q] = "up"
             PROVE  Shown(q, k)' /\ Switched(q, k)'
  BY DEF Quiet
<1>1. Stations /\ Shapes /\ \E h \in [Leases -> Grants] : Traffic(h)
  BY Apart
<1> DEFINE m == Head(stream[p][n])
           s == stream[p][n]
           heard == Applied(p, n, m)
<1>2. /\ s # << >> /\ UNCHANGED <<interest, disabled, link>>
      /\ known' = [known EXCEPT ![p] = heard]
      /\ stream' = [stream EXCEPT ![p][n] = Tail(s)]
      /\ off' = IF m.type # "control" THEN off
                ELSE [off EXCEPT ![p] = IF m.off THEN @ \cup {n} ELSE @ \ {n}]
  BY DEF Receive, server
<1>3. s \in Seq(Message) /\ m \in Message
  <2> DEFINE M == Message
  <2>1. s \in Seq(M)
    BY StreamsAreMessages
  <2> HIDE DEF M
  <2>2. Head(s) \in M
    BY <1>2, <2>1, HeadTailProperties
  <2> QED
    BY <2>1, <2>2 DEF M
<1>4. m.type \in {"enter", "authority"} => m.view.npc = n
  <2> DEFINE M(h) == MessagesAbout(h, n)
  <2>1. PICK h : s \in Seq(M(h))
    BY <1>1 DEF Traffic
  <2> HIDE DEF M
  <2>2. Head(s) \in M(h)
    BY <1>2, <2>1, HeadTailProperties
  <2> QED
    BY <2>2 DEF M, MessagesAbout
<1> HIDE DEF m
<1>5. /\ \A j \in Npcs \ {n} : j \in Ids(heard) <=> j \in Ids(known[p])
      /\ m \in Deciding => (n \in Ids(heard) <=> m \in Entering)
      /\ m \notin Deciding => (n \in Ids(heard) <=> n \in Ids(known[p]))
  <2>1. known[p] \subseteq View
    BY DEF IInv, Types
  <2> QED
    BY <1>3, <1>4, <2>1, AppliedDecides
<1> HIDE DEF heard
<1>6. /\ \A r \in Players : known'[r] = IF r = p THEN heard ELSE known[r]
      /\ \A r \in Players, j \in Npcs :
             stream'[r][j] = IF r = p /\ j = n THEN Tail(s) ELSE stream[r][j]
  BY <1>1, <1>2 DEF Shapes
<1>7. /\ \A r \in Players \ {p} : off'[r] = off[r]
      /\ \A j \in Npcs \ {n} : j \in off'[p] <=> j \in off[p]
      /\ m \in Controls => (n \in off'[p] <=> m \in Disabling)
      /\ m \notin Controls => (n \in off'[p] <=> n \in off[p])
  <2>1. CASE m.type # "control"
    BY <1>2, <2>1 DEF Controls
  <2>2. CASE m.type = "control"
    <3>1. m \in Controls /\ (m \in Disabling <=> m.off)
      BY <1>3, <2>2 DEF Controls, Disabling
    <3>2. /\ off'[p] = IF m.off THEN off[p] \cup {n} ELSE off[p] \ {n}
          /\ \A r \in Players \ {p} : off'[r] = off[r]
      BY <1>1, <1>2, <2>2 DEF Stations
    <3> QED
      BY <3>1, <3>2
  <2> QED
    BY <2>1, <2>2
<1>8. Shown(q, k) /\ Switched(q, k)
  BY <1>2 DEF Quiet
<1>9. CASE q = p /\ k = n
  <2> HIDE DEF s
  <2>1. /\ Agree(s, Deciding, Entering, n, Ids(known[p]), interest[p])
        /\ Agree(s, Controls, Disabling, n, off[p], NpcsOf(disabled))
    BY <1>8, <1>9 DEF Shown, Switched, s
  <2>2. m = Head(s)
    BY DEF m, s
  <2>3. Agree(Tail(s), Deciding, Entering, n, Ids(heard), interest[p])
    BY <1>2, <1>3, <1>5, <2>1, <2>2, AgreeTail
  <2>4. Agree(Tail(s), Controls, Disabling, n, off'[p], NpcsOf(disabled))
    BY <1>2, <1>3, <1>7, <2>1, <2>2, AgreeTail
  <2> QED
    BY <1>2, <1>6, <1>9, <2>3, <2>4 DEF Shown, Switched
<1>10. CASE ~(q = p /\ k = n)
  <2> DEFINE u == stream[q][k]
  <2>1. /\ k \in Ids(known[q]) <=> k \in Ids(known'[q])
        /\ k \in off[q] <=> k \in off'[q]
    BY <1>5, <1>6, <1>7, <1>10
  <2>2. stream'[q][k] = u
    BY <1>6, <1>10
  <2>3. Agree(u, Deciding, Entering, k, Ids(known'[q]), interest[q])
    BY <1>8, <2>1, AgreeSame DEF Shown
  <2>4. Agree(u, Controls, Disabling, k, off'[q], NpcsOf(disabled))
    BY <1>8, <2>1, AgreeSame DEF Switched
  <2> QED
    BY <1>2, <2>2, <2>3, <2>4 DEF Shown, Switched
<1> QED
  BY <1>9, <1>10

\* A snapshot replaces a view of an NPC by one of the same NPC.
LEMMA ReceiveSnapshotQuiet ==
    ASSUME IInv, Quiet, NEW p \in Players, ReceiveSnapshot(p)
    PROVE  Quiet'
<1>1. Shapes
  BY Apart
<1>2. PICK v \in packet[p] :
          known' = [known EXCEPT ![p] =
                  IF \E k \in @ : /\ k.npc = v.npc
                                  /\ k.rev < v.rev \/ k.lease # v.lease
                  THEN Forgotten(p, v.npc) \cup {v} ELSE @]
  BY DEF ReceiveSnapshot
<1>3. \A q \in Players :
          \/ known'[q] = known[q]
          \/ /\ known'[q] = {w \in known[q] : w.npc # v.npc} \cup {v}
             /\ \E k \in known[q] : k.npc = v.npc
  BY <1>1, <1>2 DEF Shapes, Forgotten
<1>4. \A q \in Players, n \in Npcs : n \in Ids(known'[q]) <=> n \in Ids(known[q])
  BY <1>3 DEF Ids
<1>5. UNCHANGED <<link, stream, interest, disabled, off>>
  BY DEF ReceiveSnapshot, server
<1> QED
  BY <1>4, <1>5, QuietStays

LEMMA QuietKeeps == IInv /\ Quiet /\ [Next]_vars => Quiet'
<1> SUFFICES ASSUME IInv, Quiet, [Next]_vars
             PROVE  Quiet'
  OBVIOUS
<1>1. CASE UNCHANGED vars
  BY <1>1, QuietStays DEF vars
<1>2. CASE Tick
  BY <1>2, QuietStays DEF Tick
<1>3. CASE Reconcile
  BY <1>3, EntryIsSound, ReconciledQuiet DEF Reconcile
<1>4. CASE \E kinds \in SUBSET Kinds : SetDisabled(kinds)
  BY <1>4, SetDisabledQuiet
<1>5. ASSUME NEW p \in Players, Join(p) \/ LinkBreaks(p) \/ ServerNotices(p)
      PROVE  Quiet'
  BY <1>5, JoinQuiet, LinkBreaksQuiet, ServerNoticesQuiet
<1>6. ASSUME NEW p \in Players, Walk(p) \/ Snapshot(p) \/ HandleUpdate(p) \/ LosePacket(p)
      PROVE  Quiet'
  <2>1. UNCHANGED <<link, stream, interest, disabled, off, known>>
    BY <1>6 DEF Walk, Snapshot, HandleUpdate, LosePacket, server
  <2> QED
    BY <2>1, QuietStays
<1>7. ASSUME NEW p \in Players, HandleDiscovery(p) \/ ReceiveSnapshot(p)
      PROVE  Quiet'
  BY <1>7, HandleDiscoveryQuiet, ReceiveSnapshotQuiet
<1>8. ASSUME NEW p \in Players, NEW n \in Npcs, Receive(p, n)
      PROVE  Quiet'
  BY <1>8, ReceiveQuiet
<1>9. ASSUME NEW p \in Players, NEW n \in Npcs, Sample(p, n)
      PROVE  Quiet'
  BY <1>9, QuietStays DEF Sample, server
<1> QED
  BY <1>1, <1>2, <1>3, <1>4, <1>5, <1>6, <1>7, <1>8, <1>9 DEF Next

\* A client that has nothing reliable under way shows the NPCs the server
\* counts it interested in and has the right kinds off: what reconcile,
\* remove_player, set_npc_entities_disabled and a new connection send comes in
\* an order that leaves no ghost and no gap behind.
THEOREM QuietClientsAlwaysAgree == Spec => []QuietClientsAgree
<1>1. Init => Quiet
  BY DEF Init, Quiet
<1>2. Quiet => QuietClientsAgree
  <2> SUFFICES ASSUME Quiet, NEW p \in Players, NEW n \in Npcs,
                      link[p] = "up", stream[p][n] = << >>
               PROVE  /\ KnownNpc(p, n) <=> n \in interest[p]
                      /\ n \in off[p] <=> KindOf[n] \in disabled
    BY DEF QuietClientsAgree
  <2>1. Shown(p, n) /\ Switched(p, n) /\ \A i \in 1 .. Len(stream[p][n]) : FALSE
    BY DEF Quiet
  <2>2. n \in Ids(known[p]) <=> n \in interest[p]
    BY <2>1 DEF Shown, Agree
  <2>3. n \in off[p] <=> n \in NpcsOf(disabled)
    BY <2>1 DEF Switched, Agree
  <2> QED
    BY <2>2, <2>3 DEF KnownNpc, Ids, NpcsOf
<1> QED
  BY <1>1, <1>2, InitHolds, NextKeeps, QuietKeeps, PTL DEF Spec
=============================================================================

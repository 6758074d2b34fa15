------------------------- MODULE PropertyRolesProofs -------------------------
(***************************************************************************)
(* Theorems about PropertyRoles, for any players, properties, times and    *)
(* bounds: the ledger that the server keeps and stores is one it will load *)
(* again, every role hangs on the one title of its property, what a client *)
(* shows as a home is a claim of its player, and granting takes nothing.   *)
(***************************************************************************)
EXTENDS PropertyRoles, SequenceTheorems, TLAPS

\* An owner's assignment stands for itself and has no end.
IsTitle(a) == a.role = "owner" /\ a.grantor = NoId /\ a.expires = Never

\* One assignment was made under another, which stands.
HangsOn(a, b) == b.id = a.grantor /\ b.property = a.property

\* Chains of roles are no longer than title, steward, other role.
Chained(l) ==
    \A a \in l :
        \/ IsTitle(a)
        \/ a.role = "steward" /\ \E o \in l : IsTitle(o) /\ HangsOn(a, o)
        \/ /\ a.role \notin {"owner", "steward"}
           /\ \E b \in l : b.role \in {"owner", "steward"} /\ HangsOn(a, b)

UniqueIds(l) == \A a, b \in l : a.id = b.id => a = b

OneOwner(l) ==
    \A a, b \in l : a.role = "owner" /\ b.role = "owner" /\ a.property = b.property => a = b

Sound(l) == l \subseteq Assignments /\ Chained(l) /\ UniqueIds(l) /\ OneOwner(l)

UsedUp(l, n) == \A a \in l : a.id < n

\* What a client shows once it has read everything that is under way.
Latest(p) == IF wire[p] = <<>> THEN marker[p] ELSE wire[p][Len(wire[p])]

Claim(l, p, m) ==
    m # NoMarker => \E a \in l : /\ a.player = p
                                 /\ a.property = m.property
                                 /\ a.role = m.role

ShownAreClaims == \A p \in online : Claim(ledger, p, Latest(p))

\* The inductive invariant.
IInv ==
    /\ TypeOK
    /\ file = ledger
    /\ Sound(ledger)
    /\ UsedUp(ledger, next)
    /\ ShownAreClaims

-----------------------------------------------------------------------------
\* A home marker is one the map can show, and a claim of its player.
LEMMA HomeMarkerFacts ==
    ASSUME NEW l, l \subseteq Assignments, NEW p \in Players, NEW t
    PROVE  HomeMarker(l, p, t) \in Markers /\ Claim(l, p, HomeMarker(l, p, t))
<1> DEFINE homes == {a \in l : /\ a.player = p /\ a.property \in Marked
                               /\ HomeRank(a.role) > 0 /\ Active(l, a, t)}
           best == {a \in homes : \A b \in homes :
                       \/ HomeRank(b.role) < HomeRank(a.role)
                       \/ /\ HomeRank(b.role) = HomeRank(a.role)
                          /\ a.property <= b.property}
           c == CHOOSE a \in best : TRUE
<1>1. HomeMarker(l, p, t) = IF best = {} THEN NoMarker
                            ELSE [property |-> c.property, role |-> c.role]
  BY DEF HomeMarker
<1>2. CASE best = {}
  BY <1>1, <1>2 DEF Markers, Claim
<1>3. CASE best # {}
  <2>1. c \in best
    BY <1>3
  <2> HIDE DEF c
  <2>2. c \in l /\ c.player = p /\ c.property \in Marked /\ HomeRank(c.role) > 0
    BY <2>1
  <2>3. c.role \in {"owner", "resident"}
    BY <2>2 DEF HomeRank
  <2> HIDE DEF best
  <2>4. HomeMarker(l, p, t) = [property |-> c.property, role |-> c.role]
    BY <1>1, <1>3
  <2>5. HomeMarker(l, p, t) \in Markers
    BY <2>2, <2>3, <2>4 DEF Markers
  <2>6. Claim(l, p, HomeMarker(l, p, t))
    BY <2>2, <2>4 DEF Claim
  <2> QED
    BY <2>5, <2>6
<1> QED
  BY <1>2, <1>3

\* A new title for a property that has none.
LEMMA TitleIsSound ==
    ASSUME NEW l, Sound(l), NEW n \in Ids, UsedUp(l, n),
           NEW h \in Properties, NEW p \in Players, NEW t, ~Owned(l, h, t),
           NEW a, a = [id |-> n, property |-> h, player |-> p, role |-> "owner",
                       by |-> p, grantor |-> NoId, expires |-> Never]
    PROVE  Sound(l \union {a}) /\ UsedUp(l \union {a}, n + 1)
<1>1. a \in Assignments
  BY DEF Assignments, Roles, Ids
<1>2. l \union {a} \subseteq Assignments
  BY <1>1 DEF Sound
<1>3. Chained(l \union {a})
  BY DEF Sound, Chained, IsTitle, HangsOn
<1>4. \A b \in l : b.id \in Nat /\ b.id < n
  BY DEF Sound, Assignments, Ids, UsedUp
<1>5. UniqueIds(l \union {a})
  BY <1>4 DEF Sound, UniqueIds, Ids
<1>6. \A b \in l : ~(b.role = "owner" /\ b.property = h)
  BY DEF Sound, Chained, IsTitle, Owned, Active, ActiveOwner, TimeActive
<1>7. OneOwner(l \union {a})
  BY <1>6 DEF Sound, OneOwner
<1>8. UsedUp(l \union {a}, n + 1)
  BY <1>4 DEF UsedUp, Ids
<1> QED
  BY <1>2, <1>3, <1>5, <1>7, <1>8 DEF Sound

\* A role granted by its property's owner or steward.
LEMMA GrantIsSound ==
    ASSUME NEW l, Sound(l), NEW n \in Ids, UsedUp(l, n),
           NEW b \in l, NEW h \in Properties, b.property = h,
           NEW role \in Roles \ {"owner"}, role \in MayGrant(b.role),
           NEW p \in Players, NEW actor \in Players, NEW e \in Times \union {Never},
           NEW a, a = [id |-> n, property |-> h, player |-> p, role |-> role,
                       by |-> actor, grantor |-> b.id, expires |-> e]
    PROVE  Sound(l \union {a}) /\ UsedUp(l \union {a}, n + 1)
<1>1. b \in Assignments /\ b.id \in Ids
  BY DEF Sound, Assignments
<1>2. l \union {a} \subseteq Assignments
  BY <1>1 DEF Sound, Assignments, Ids
<1>3. HangsOn(a, b)
  BY DEF HangsOn
<1>4. \/ b.role = "owner"
      \/ b.role = "steward" /\ role \notin {"owner", "steward"}
  BY DEF MayGrant
<1>5. b.role = "owner" => IsTitle(b)
  BY DEF Sound, Chained, IsTitle
<1>6. Chained(l \union {a})
  <2> SUFFICES ASSUME NEW c \in l \union {a}
               PROVE  \/ IsTitle(c)
                      \/ /\ c.role = "steward"
                         /\ \E o \in l \union {a} : IsTitle(o) /\ HangsOn(c, o)
                      \/ /\ c.role \notin {"owner", "steward"}
                         /\ \E o \in l \union {a} : o.role \in {"owner", "steward"} /\ HangsOn(c, o)
    BY DEF Chained
  <2>1. CASE c \in l
    BY <2>1 DEF Sound, Chained
  <2>2. CASE c = a
    <3>1. c.role = role /\ role # "owner"
      BY <2>2
    <3>2. CASE role = "steward"
      BY <1>3, <1>4, <1>5, <2>2, <3>1, <3>2
    <3>3. CASE role # "steward"
      BY <1>3, <1>4, <2>2, <3>1, <3>3
    <3> QED
      BY <3>2, <3>3
  <2> QED
    BY <2>1, <2>2
<1>7. \A c \in l : c.id \in Nat /\ c.id < n
  BY DEF Sound, Assignments, Ids, UsedUp
<1>8. UniqueIds(l \union {a})
  BY <1>7 DEF Sound, UniqueIds, Ids
<1>9. OneOwner(l \union {a})
  BY DEF Sound, OneOwner
<1>10. UsedUp(l \union {a}, n + 1)
  BY <1>7 DEF UsedUp, Ids
<1> QED
  BY <1>2, <1>6, <1>8, <1>9, <1>10 DEF Sound

\* Revoking takes the whole chain: whoever is left has his grantor left.
LEMMA CascadeIsSound ==
    ASSUME NEW l, Sound(l), NEW n, UsedUp(l, n), NEW a \in l
    PROVE  Sound(Cascade(l, a)) /\ UsedUp(Cascade(l, a), n)
<1> DEFINE once == GrantedBy(l, {a.id})
           removed == {a.id} \union once \union GrantedBy(l, once)
           left == Cascade(l, a)
<1>1. left = {b \in l : b.id \notin removed}
  BY DEF Cascade
<1>2. left \subseteq l
  BY <1>1
<1>3. ASSUME NEW c \in left, NEW b \in l, c.grantor = b.id, HangsOn(c, b),
             c.role # "owner"
      PROVE  b \in left
  <2>1. c \in l /\ c.id \notin removed
    BY <1>1
  <2>2. b.id # a.id /\ b.id \notin once
    BY <1>3, <2>1 DEF GrantedBy
  <2>3. SUFFICES ASSUME b.id \in GrantedBy(l, once)
                 PROVE  FALSE
    BY <1>1, <2>2
  <2>4. PICK y \in l : y.id = b.id /\ y.grantor \in once
    BY <2>3 DEF GrantedBy
  <2>5. y = b
    BY <2>4 DEF Sound, UniqueIds
  <2>6. PICK x \in l : x.id = b.grantor /\ x.grantor = a.id
    BY <2>4, <2>5 DEF GrantedBy
  <2>7. a.id \in Ids /\ x.id \in Ids
    BY DEF Sound, Assignments
  <2>8. ~IsTitle(b) /\ ~IsTitle(x)
    BY <2>6, <2>7 DEF IsTitle, Ids, NoId
  <2>9. b.role = "steward"
    <3>1. \E z \in l : z.role \in {"owner", "steward"} /\ HangsOn(c, z)
      BY <1>3, <2>1 DEF Sound, Chained, IsTitle
    <3>2. b.role \in {"owner", "steward"}
      BY <1>3, <3>1 DEF Sound, UniqueIds, HangsOn
    <3> QED
      BY <2>8, <3>2 DEF Sound, Chained
  <2>10. \E o \in l : IsTitle(o) /\ HangsOn(b, o)
    BY <2>8, <2>9 DEF Sound, Chained
  <2> QED
    BY <2>6, <2>8, <2>10 DEF Sound, UniqueIds, HangsOn
<1> HIDE DEF left
<1>4. Chained(left)
  <2> SUFFICES ASSUME NEW c \in left
               PROVE  \/ IsTitle(c)
                      \/ /\ c.role = "steward"
                         /\ \E o \in left : IsTitle(o) /\ HangsOn(c, o)
                      \/ /\ c.role \notin {"owner", "steward"}
                         /\ \E o \in left : o.role \in {"owner", "steward"} /\ HangsOn(c, o)
    BY DEF Chained
  <2>1. c \in l
    BY <1>2
  <2>2. CASE IsTitle(c)
    BY <2>2
  <2>3. CASE c.role = "steward" /\ \E o \in l : IsTitle(o) /\ HangsOn(c, o)
    BY <1>3, <2>3 DEF HangsOn
  <2>4. CASE /\ c.role \notin {"owner", "steward"}
             /\ \E o \in l : o.role \in {"owner", "steward"} /\ HangsOn(c, o)
    BY <1>3, <2>4 DEF HangsOn
  <2> QED
    BY <2>1, <2>2, <2>3, <2>4 DEF Sound, Chained
<1>5. left \subseteq Assignments /\ UniqueIds(left) /\ OneOwner(left) /\ UsedUp(left, n)
  BY <1>2 DEF Sound, UniqueIds, OneOwner, UsedUp
<1> QED
  BY <1>4, <1>5 DEF Sound, left

-----------------------------------------------------------------------------
\* Whatever a command makes of the ledger, clients hear of it in the end.
LEMMA CommandKeeps ==
    ASSUME IInv, NEW l, Sound(l), next' \in 1 .. MaxAssignments + 1,
           next' >= next, UsedUp(l, next'), Command(l)
    PROVE  IInv'
<1>1. CASE Publish(l)
  <2>1. /\ ledger' = l /\ file' = l
        /\ wire' = [p \in Players |->
                      IF p \in online THEN Append(wire[p], HomeMarker(l, p, now))
                      ELSE wire[p]]
        /\ now' = now /\ online' = online /\ marker' = marker
    BY <1>1 DEF Publish
  <2>2. \A p \in Players : /\ HomeMarker(l, p, now) \in Markers
                           /\ Claim(l, p, HomeMarker(l, p, now))
    BY HomeMarkerFacts DEF Sound
  <2>3. wire \in [Players -> Seq(Markers)] /\ online \subseteq Players
    BY DEF IInv, TypeOK
  <2>4. TypeOK'
    BY <2>1, <2>2, <2>3 DEF IInv, TypeOK, Sound
  <2>5. ASSUME NEW p \in online'
        PROVE  Claim(ledger', p, Latest(p)')
    <3>1. p \in online /\ p \in Players
      BY <2>1, <2>3, <2>5
    <3>2. wire'[p] = Append(wire[p], HomeMarker(l, p, now)) /\ wire[p] \in Seq(Markers)
      BY <2>1, <2>3, <3>1
    <3>3. wire'[p] # <<>> /\ wire'[p][Len(wire'[p])] = HomeMarker(l, p, now)
      BY <2>2, <3>1, <3>2, AppendProperties
    <3>4. Latest(p)' = HomeMarker(l, p, now)
      BY <3>3 DEF Latest
    <3> QED
      BY <2>1, <2>2, <3>1, <3>4
  <2> QED
    BY <2>1, <2>4, <2>5 DEF IInv, ShownAreClaims
<1>2. CASE Die(l)
  <2>1. /\ ledger' \in {ledger, l} /\ file' = ledger' /\ online' = {} /\ now' = now
        /\ marker' = [p \in Players |-> NoMarker] /\ wire' = [p \in Players |-> <<>>]
    BY <1>2 DEF Die, IInv
  <2>2. Sound(ledger')
    BY <2>1 DEF IInv
  <2>3. UsedUp(ledger', next')
    <3>1. CASE ledger' = l
      BY <3>1
    <3>2. CASE ledger' = ledger
      BY <3>2 DEF IInv, TypeOK, Sound, UsedUp, Assignments, Ids
    <3> QED
      BY <2>1, <3>1, <3>2
  <2>4. TypeOK'
    BY <2>1, <2>2 DEF IInv, TypeOK, Sound, Markers
  <2> QED
    BY <2>1, <2>2, <2>3, <2>4 DEF IInv, ShownAreClaims
<1> QED
  BY <1>1, <1>2 DEF Command

-----------------------------------------------------------------------------
LEMMA InitHolds == Init => IInv
<1> SUFFICES ASSUME Init
             PROVE  IInv
  OBVIOUS
<1>1. TypeOK
  BY RolesAssumption DEF Init, TypeOK, Markers
<1>2. Sound(ledger) /\ UsedUp(ledger, next) /\ file = ledger
  BY DEF Init, Sound, Chained, UniqueIds, OneOwner, UsedUp
<1>3. ShownAreClaims
  BY DEF Init, ShownAreClaims
<1> QED
  BY <1>1, <1>2, <1>3 DEF IInv

LEMMA AssignOwnerKeeps ==
    ASSUME IInv, NEW h \in Properties, NEW p \in Players, AssignOwner(h, p)
    PROVE  IInv'
<1> DEFINE a == [id |-> next, property |-> h, player |-> p, role |-> "owner",
                 by |-> p, grantor |-> NoId, expires |-> Never]
<1>1. next \in Ids /\ next' = next + 1 /\ ~Owned(ledger, h, now) /\ Command(ledger \union {a})
  BY DEF AssignOwner
<1> HIDE DEF a
<1>2. Sound(ledger \union {a}) /\ UsedUp(ledger \union {a}, next')
  BY <1>1, TitleIsSound DEF IInv, a
<1> QED
  BY <1>1, <1>2, CommandKeeps, RolesAssumption DEF Ids

LEMMA GrantKeeps ==
    ASSUME IInv, NEW actor \in Players, NEW p \in Players, NEW h \in Properties,
           NEW role \in Roles, NEW expires \in Times \union {Never},
           Grant(actor, h, p, role, expires)
    PROVE  IInv'
<1>1. PICK b \in Highest(ledger, actor, h, now) :
          /\ role \in MayGrant(b.role)
          /\ next \in Ids
          /\ next' = next + 1
          /\ Command(ledger \union
                     {[id |-> next, property |-> h, player |-> p, role |-> role,
                       by |-> actor, grantor |-> b.id, expires |-> expires]})
  BY DEF Grant
<1> DEFINE a == [id |-> next, property |-> h, player |-> p, role |-> role,
                 by |-> actor, grantor |-> b.id, expires |-> expires]
<1>2. b \in ledger /\ b.property = h
  BY DEF Highest, Held
<1>3. role \in Roles \ {"owner"}
  BY DEF Grant
<1>4. Command(ledger \union {a})
  BY <1>1
<1> HIDE DEF a
<1>5. Sound(ledger \union {a}) /\ UsedUp(ledger \union {a}, next')
  BY <1>1, <1>2, <1>3, GrantIsSound DEF IInv, a
<1> QED
  BY <1>1, <1>4, <1>5, CommandKeeps, RolesAssumption DEF Ids

LEMMA RevokeKeeps ==
    ASSUME IInv, NEW a \in ledger, Command(Cascade(ledger, a)), UNCHANGED next
    PROVE  IInv'
<1>1. Sound(Cascade(ledger, a)) /\ UsedUp(Cascade(ledger, a), next')
  BY CascadeIsSound DEF IInv
<1>2. next' \in 1 .. MaxAssignments + 1 /\ next' >= next
  BY DEF IInv, TypeOK
<1> QED
  BY <1>1, <1>2, CommandKeeps

LEMMA SetClockKeeps == IInv /\ SetClock => IInv'
BY DEF IInv, TypeOK, SetClock, ShownAreClaims, Latest

LEMMA JoinKeeps ==
    ASSUME IInv, NEW p \in Players, Join(p)
    PROVE  IInv'
<1>1. /\ online' = online \union {p} /\ UNCHANGED <<ledger, next, file, now, marker>>
      /\ wire' = [wire EXCEPT ![p] = <<HomeMarker(ledger, p, now)>>]
  BY DEF Join
<1>2. /\ HomeMarker(ledger, p, now) \in Markers
      /\ Claim(ledger, p, HomeMarker(ledger, p, now))
  BY HomeMarkerFacts DEF IInv, Sound
<1>3. wire \in [Players -> Seq(Markers)]
  BY DEF IInv, TypeOK
<1>4. TypeOK'
  BY <1>1, <1>2, <1>3 DEF IInv, TypeOK
<1>5. ASSUME NEW q \in online'
      PROVE  Claim(ledger', q, Latest(q)')
  <2>1. CASE q = p
    <3>1. wire'[p] = <<HomeMarker(ledger, p, now)>>
      BY <1>1, <1>3
    <3>2. Latest(p)' = HomeMarker(ledger, p, now)
      BY <3>1, <1>2 DEF Latest
    <3> QED
      BY <1>1, <1>2, <2>1, <3>2
  <2>2. CASE q # p
    <3>1. /\ q \in online /\ q \in Players
          /\ wire'[q] = wire[q] /\ marker'[q] = marker[q]
      BY <1>1, <1>3, <1>5, <2>2 DEF IInv, TypeOK
    <3>2. Latest(q)' = Latest(q)
      BY <3>1 DEF Latest
    <3> QED
      BY <1>1, <3>1, <3>2 DEF IInv, ShownAreClaims
  <2> QED
    BY <2>1, <2>2
<1> QED
  BY <1>1, <1>4, <1>5 DEF IInv, ShownAreClaims

LEMMA QuitKeeps ==
    ASSUME IInv, NEW p \in Players, Quit(p)
    PROVE  IInv'
<1>1. /\ online' = online \ {p} /\ UNCHANGED <<ledger, next, file, now>>
      /\ marker' = [marker EXCEPT ![p] = NoMarker]
      /\ wire' = [wire EXCEPT ![p] = <<>>]
  BY DEF Quit
<1>2. TypeOK'
  BY <1>1 DEF IInv, TypeOK, Markers
<1>3. ASSUME NEW q \in online'
      PROVE  Claim(ledger', q, Latest(q)')
  <2>1. /\ q \in online /\ wire'[q] = wire[q] /\ marker'[q] = marker[q]
    BY <1>1, <1>3 DEF IInv, TypeOK
  <2>2. Latest(q)' = Latest(q)
    BY <2>1 DEF Latest
  <2> QED
    BY <1>1, <2>1, <2>2 DEF IInv, ShownAreClaims
<1> QED
  BY <1>1, <1>2, <1>3 DEF IInv, ShownAreClaims

LEMMA ShowMarkerKeeps ==
    ASSUME IInv, NEW p \in Players, ShowMarker(p)
    PROVE  IInv'
<1>1. /\ wire[p] # <<>> /\ UNCHANGED <<ledger, next, file, now, online>>
      /\ marker' = [marker EXCEPT ![p] = Head(wire[p])]
      /\ wire' = [wire EXCEPT ![p] = Tail(wire[p])]
  BY DEF ShowMarker
<1>2. /\ wire \in [Players -> Seq(Markers)] /\ wire[p] \in Seq(Markers)
      /\ marker \in [Players -> Markers]
  BY DEF IInv, TypeOK
<1>3. TypeOK'
  BY <1>1, <1>2 DEF IInv, TypeOK
<1>4. ASSUME NEW q \in online'
      PROVE  Latest(q)' = Latest(q)
  <2>1. CASE q = p
    <3>1. wire'[p] = Tail(wire[p]) /\ marker'[p] = Head(wire[p])
      BY <1>1, <1>2
    <3>2. CASE Len(wire[p]) = 1
      BY <1>1, <1>2, <2>1, <3>1, <3>2 DEF Latest
    <3>3. CASE Len(wire[p]) # 1
      <4>1. Len(wire[p]) \in Nat /\ Len(wire[p]) > 1
        <5>1. Len(wire[p]) \in Nat
          BY <1>2, LenProperties
        <5>2. Len(wire[p]) # 0
          BY <1>1, <1>2, EmptySeq
        <5>3. \A n \in Nat : n # 0 /\ n # 1 => n > 1
          OBVIOUS
        <5> QED
          BY <3>3, <5>1, <5>2, <5>3, Zenon
      <4>2. /\ Tail(wire[p]) # <<>> /\ Len(Tail(wire[p])) = Len(wire[p]) - 1
            /\ Tail(wire[p])[Len(wire[p]) - 1] = wire[p][Len(wire[p])]
        <5>1. /\ Tail(wire[p]) \in Seq(Markers) /\ Len(Tail(wire[p])) = Len(wire[p]) - 1
              /\ \A i \in 1 .. Len(Tail(wire[p])) : Tail(wire[p])[i] = wire[p][i + 1]
          <6>1. wire[p] \in Seq(Markers) /\ wire[p] # <<>>
            BY <1>1, <1>2
          <6> HIDE DEF Markers
          <6> QED
            BY <6>1, HeadTailProperties, ZenonT(30)
        <5>2. Tail(wire[p]) # <<>>
          BY <4>1, <5>1, EmptySeq
        <5>3. Len(wire[p]) - 1 \in 1 .. Len(Tail(wire[p])) /\ Len(wire[p]) - 1 + 1 = Len(wire[p])
          BY <4>1, <5>1
        <5> QED
          BY <5>1, <5>2, <5>3
      <4> QED
        BY <1>1, <2>1, <3>1, <4>2 DEF Latest
    <3> QED
      BY <3>2, <3>3
  <2>2. CASE q # p
    <3>1. q \in Players
      BY <1>1, <1>4 DEF IInv, TypeOK
    <3>2. wire'[q] = wire[q] /\ marker'[q] = marker[q]
      BY <1>1, <1>2, <2>2, <3>1
    <3> QED
      BY <3>2 DEF Latest
  <2> QED
    BY <2>1, <2>2
<1> QED
  BY <1>1, <1>3, <1>4 DEF IInv, ShownAreClaims

LEMMA NextKeeps == IInv /\ [Next]_vars => IInv'
<1> SUFFICES ASSUME IInv, [Next]_vars
             PROVE  IInv'
  OBVIOUS
<1>1. CASE \E h \in Properties, p \in Players : AssignOwner(h, p)
  BY <1>1, AssignOwnerKeeps
<1>2. CASE \E actor, p \in Players, h \in Properties, role \in Roles,
             expires \in Times \union {Never} : Grant(actor, h, p, role, expires)
  BY <1>2, GrantKeeps
<1>3. CASE \E actor \in Players, a \in ledger : Revoke(actor, a)
  BY <1>3, RevokeKeeps DEF Revoke
<1>4. CASE \E a \in ledger : SystemRevoke(a)
  BY <1>4, RevokeKeeps DEF SystemRevoke
<1>5. CASE SetClock
  BY <1>5, SetClockKeeps
<1>6. CASE \E p \in Players : Join(p) \/ Quit(p) \/ ShowMarker(p)
  BY <1>6, JoinKeeps, QuitKeeps, ShowMarkerKeeps
<1>7. CASE UNCHANGED vars
  BY <1>7 DEF vars, IInv, TypeOK, ShownAreClaims, Latest
<1> QED
  BY <1>1, <1>2, <1>3, <1>4, <1>5, <1>6, <1>7 DEF Next

THEOREM Invariance == Spec => []IInv
BY InitHolds, NextKeeps, PTL DEF Spec

\* Counted identities, times and markers stay what they are
\* (the types of m_ledger and of what is sent from it).
THEOREM TypeCorrect == Spec => []TypeOK
<1>1. IInv => TypeOK
  BY DEF IInv
<1> QED
  BY <1>1, Invariance, PTL

\* Whatever is granted and revoked, and wherever the server ends, the file is
\* one that valid_property_ledger accepts.
THEOREM LedgersLoad == Spec => []LedgerIsLoadable
<1>1. IInv => LedgerIsLoadable
  <2> SUFFICES ASSUME IInv, NEW l \in {ledger, file}
               PROVE  /\ \A a, b \in l : a.id = b.id => a = b
                      /\ \A a \in l : a.role = "owner" <=> a.grantor = NoId
                      /\ \A a \in l : a.role # "owner" => \E b \in l : b.id = a.grantor
    BY DEF LedgerIsLoadable
  <2>1. Sound(l)
    BY DEF IInv
  <2>2. \A a \in l : a.id \in Ids
    BY <2>1 DEF Sound, Assignments
  <2> QED
    BY <2>1, <2>2 DEF Sound, Chained, IsTitle, HangsOn, UniqueIds, Ids, NoId
<1> QED
  BY <1>1, Invariance, PTL

\* A property has one title and every role of it hangs on that
\* (may_grant, revoke_property_role).
THEOREM RolesHangOnTitle == Spec => []OneTitle
<1>1. IInv => OneTitle
  <2> SUFFICES ASSUME IInv, NEW a \in ledger
               PROVE  \E o \in ledger :
                          /\ o.property = a.property
                          /\ o.role = "owner"
                          /\ \A b \in ledger : b.property = a.property /\ b.role = "owner" => b = o
                          /\ \/ a = o
                             \/ a.grantor = o.id
                             \/ \E b \in ledger : a.grantor = b.id /\ b.grantor = o.id
    BY DEF OneTitle
  <2>1. Chained(ledger) /\ OneOwner(ledger)
    BY DEF IInv, Sound
  <2>2. CASE a.role = "owner"
    BY <2>1, <2>2 DEF OneOwner
  <2>3. CASE a.role # "owner"
    <3>1. PICK b \in ledger : b.role \in {"owner", "steward"} /\ HangsOn(a, b)
      BY <2>1, <2>3 DEF Chained, IsTitle
    <3>2. CASE b.role = "owner"
      BY <2>1, <3>1, <3>2 DEF OneOwner, HangsOn
    <3>3. CASE b.role = "steward"
      <4>1. PICK o \in ledger : IsTitle(o) /\ HangsOn(b, o)
        BY <2>1, <3>3 DEF Chained, IsTitle
      <4> QED
        BY <2>1, <3>1, <4>1 DEF OneOwner, HangsOn, IsTitle
    <3> QED
      BY <3>1, <3>2, <3>3
  <2> QED
    BY <2>2, <2>3
<1> QED
  BY <1>1, Invariance, PTL

\* A home that a quiet client shows is one its player holds, or held until a
\* time that has passed (broadcast_home_markers, send_accepted).
THEOREM HomesAreClaims == Spec => []MarkersAreClaims
<1>1. IInv => MarkersAreClaims
  BY DEF IInv, ShownAreClaims, Latest, Claim, MarkersAreClaims
<1> QED
  BY <1>1, Invariance, PTL

-----------------------------------------------------------------------------
\* A higher role may do whatever a lower one may, but for the guard's.
LEMMA HigherMayMore ==
    ASSUME NEW r \in Roles, NEW s \in Roles, Authority(r) < Authority(s), s # "guard"
    PROVE  RoleHas(r) \subseteq RoleHas(s)
<1>1. CASE s = "owner"
  BY <1>1 DEF Roles, RoleHas, Capabilities
<1>2. CASE s = "steward"
  BY <1>2 DEF Roles, RoleHas, Capabilities, Authority
<1>3. CASE s = "resident"
  BY <1>3 DEF Roles, RoleHas, Authority
<1>4. CASE s = "employee"
  BY <1>4 DEF Roles, RoleHas, Authority
<1>5. CASE s = "guest"
  BY <1>5 DEF Roles, Authority
<1> QED
  BY <1>1, <1>2, <1>3, <1>4, <1>5 DEF Roles

LEMMA AuthorityIsNumber == \A r \in Roles : Authority(r) \in Nat
BY DEF Roles, Authority

\* A new assignment changes nobody else's standing: no chain leads through it.
LEMMA OthersStay ==
    ASSUME NEW l, Sound(l), NEW a, a.id \in Ids, \A b \in l : b.id < a.id,
           NEW t, NEW b \in l
    PROVE  Active(l \union {a}, b, t) <=> Active(l, b, t)
<1>1. ASSUME NEW c \in l
      PROVE  ~GrantedUnder(c, a)
  <2>1. c.grantor = NoId \/ \E d \in l : d.id = c.grantor
    BY DEF Sound, Chained, IsTitle, HangsOn
  <2>2. \A d \in l : d.id \in Nat
    BY DEF Sound, Assignments, Ids
  <2> QED
    BY <2>1, <2>2 DEF GrantedUnder, Ids, NoId
<1>2. \A c \in l : ActiveSteward(l \union {a}, c, t) <=> ActiveSteward(l, c, t)
  BY <1>1 DEF ActiveSteward
<1> QED
  BY <1>1, <1>2 DEF Active

\* It may displace its player's highest role, by one that may do as much.
LEMMA AccessStays ==
    ASSUME NEW l, Sound(l), NEW a \in Assignments, \A b \in l : b.id < a.id,
           NEW t, NEW p, NEW h, NEW c, Owned(l, h, t), Authorized(l, p, h, c, t),
           ~(a.player = p /\ a.role = "guard")
    PROVE  Authorized(l \union {a}, p, h, c, t)
<1> DEFINE more == l \union {a}
<1>1. PICK g \in Around(h) : \E b \in Highest(l, p, g, t) : c \in RoleHas(b.role)
  BY DEF Authorized
<1>2. PICK b \in Highest(l, p, g, t) : c \in RoleHas(b.role)
  BY <1>1
<1>3. a.id \in Ids /\ a.role \in Roles
  BY DEF Assignments
<1>4. \A d \in l : Active(more, d, t) <=> Active(l, d, t)
  BY <1>3, OthersStay
<1>5. /\ Held(l, p, g, t) \subseteq Held(more, p, g, t)
      /\ Held(more, p, g, t) \subseteq Held(l, p, g, t) \union {a}
  BY <1>4 DEF Held
<1>6. /\ b \in Held(l, p, g, t)
      /\ \A d \in Held(l, p, g, t) : Authority(d.role) <= Authority(b.role)
  BY <1>2 DEF Highest
<1>7. \A d \in more : d.role \in Roles
  BY <1>3 DEF Sound, Assignments
<1>8. Held(l, p, g, t) \subseteq l /\ Held(more, p, g, t) \subseteq more
  BY DEF Held
<1> HIDE DEF more
<1>9. \A d \in Held(more, p, g, t) : Authority(d.role) \in Nat
  BY <1>7, <1>8, AuthorityIsNumber
<1>10. CASE a \in Held(more, p, g, t) /\ Authority(a.role) > Authority(b.role)
  <2>1. b.role \in Roles /\ Authority(b.role) \in Nat /\ Authority(a.role) \in Nat
    BY <1>5, <1>6, <1>7, <1>8, <1>9, <1>10
  <2>2. \A d \in Held(more, p, g, t) : Authority(d.role) <= Authority(a.role)
    BY <1>5, <1>6, <1>9, <1>10, <2>1
  <2>3. a \in Highest(more, p, g, t)
    BY <1>10, <2>2 DEF Highest
  <2>4. a.role # "guard"
    BY <1>10 DEF Held
  <2>5. c \in RoleHas(a.role)
    BY <1>2, <1>3, <1>10, <2>1, <2>4, HigherMayMore
  <2> QED
    BY <2>3, <2>5 DEF Authorized, more
<1>11. CASE ~(a \in Held(more, p, g, t) /\ Authority(a.role) > Authority(b.role))
  <2>1. \A d \in Held(more, p, g, t) : Authority(d.role) <= Authority(b.role)
    BY <1>5, <1>6, <1>9, <1>11
  <2>2. b \in Highest(more, p, g, t)
    BY <1>5, <1>6, <2>1 DEF Highest
  <2> QED
    BY <1>2, <2>2 DEF Authorized, more
<1> QED
  BY <1>10, <1>11

\* The only way for the ledger to gain: one assignment of a new identity.
LEMMA LedgerGrowsByOne ==
    ASSUME IInv, IInv', Next, ledger \subseteq ledger', ledger' # ledger
    PROVE  \E a : /\ ledger' = ledger \union {a}
                  /\ a \in Assignments
                  /\ \A b \in ledger : b.id < a.id
<1>1. ASSUME NEW a, next' = next + 1, a.id = next, Command(ledger \union {a})
      PROVE  /\ ledger' = ledger \union {a}
             /\ a \in Assignments
             /\ \A b \in ledger : b.id < a.id
  <2>1. ledger' = ledger \union {a}
    BY <1>1 DEF Command, Publish, Die, IInv
  <2> QED
    BY <1>1, <2>1 DEF IInv, Sound, UsedUp
<1>2. ASSUME NEW h \in Properties, NEW p \in Players, AssignOwner(h, p)
      PROVE  \E a : next' = next + 1 /\ a.id = next /\ Command(ledger \union {a})
  BY <1>2 DEF AssignOwner
<1>3. ASSUME NEW actor \in Players, NEW p \in Players, NEW h \in Properties,
             NEW role \in Roles, NEW expires \in Times \union {Never},
             Grant(actor, h, p, role, expires)
      PROVE  \E a : next' = next + 1 /\ a.id = next /\ Command(ledger \union {a})
  BY <1>3 DEF Grant
<1>4. ASSUME NEW a \in ledger, Command(Cascade(ledger, a))
      PROVE  FALSE
  <2>1. ledger' \subseteq ledger
    BY <1>4 DEF Command, Publish, Die, IInv, Cascade
  <2> QED
    BY <2>1
<1>5. CASE \E h \in Properties, p \in Players : AssignOwner(h, p)
  BY <1>1, <1>2, <1>5
<1>6. CASE \E actor, p \in Players, h \in Properties, role \in Roles,
             expires \in Times \union {Never} : Grant(actor, h, p, role, expires)
  BY <1>1, <1>3, <1>6
<1>7. CASE \E actor \in Players, a \in ledger : Revoke(actor, a)
  BY <1>4, <1>7 DEF Revoke
<1>8. CASE \E a \in ledger : SystemRevoke(a)
  BY <1>4, <1>8 DEF SystemRevoke
<1>9. CASE SetClock \/ \E p \in Players : Join(p) \/ Quit(p) \/ ShowMarker(p)
  BY <1>9 DEF SetClock, Join, Quit, ShowMarker
<1> QED
  BY <1>5, <1>6, <1>7, <1>8, <1>9 DEF Next

\* No grant and no restart takes access from anybody, but for the first title
\* of a property and for a resident or employee made guard
\* (highest_assignment, role_has).
THEOREM AccessIsKept == Spec => GrantsTakeNothing
<1>1. IInv /\ IInv' /\ [Next]_vars =>
          [(now' = now /\ ledger \subseteq ledger' /\ ledger' # ledger) =>
            \A p \in Players, h \in Properties, c \in Capabilities :
                \/ ~Authorized(ledger, p, h, c, now)
                \/ Authorized(ledger', p, h, c, now)
                \/ ~Owned(ledger, h, now)
                \/ \E a \in ledger' \ ledger : a.player = p /\ a.role = "guard"]_vars
  <2> SUFFICES ASSUME IInv, IInv', Next, ledger \subseteq ledger', ledger' # ledger,
                      NEW p \in Players, NEW h \in Properties, NEW c \in Capabilities,
                      Authorized(ledger, p, h, c, now), Owned(ledger, h, now),
                      ~\E a \in ledger' \ ledger : a.player = p /\ a.role = "guard"
               PROVE  Authorized(ledger', p, h, c, now)
    BY DEF vars
  <2>1. PICK a : /\ ledger' = ledger \union {a}
                 /\ a \in Assignments
                 /\ \A b \in ledger : b.id < a.id
    BY LedgerGrowsByOne
  <2>2. ~(a.player = p /\ a.role = "guard")
    BY <2>1
  <2> QED
    BY <2>1, <2>2, AccessStays DEF IInv
<1> QED
  BY <1>1, Invariance, PTL DEF Spec, GrantsTakeNothing
=============================================================================

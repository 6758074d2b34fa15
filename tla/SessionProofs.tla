--------------------------- MODULE SessionProofs ---------------------------
(***************************************************************************)
(* Theorems about Session, for every number of connections, identities and *)
(* slots: one client at a time creates the world and whoever waits has one *)
(* to wait for, an identity is held once, and the slots are respected.     *)
(***************************************************************************)
EXTENDS Session, FiniteSetTheorems, TLAPS

---------------------------------------------------------------------------
(* The inductive invariant.                                                *)

\* m_pending, m_initializer and spawn_valid fit together: what a stage says of
\* the identity, and who has the role of the initializer.
Bootstrap(p, i, valid) ==
    /\ p \in [Connections -> Pending \cup {None}]
    /\ i \in Connections \cup {None}
    /\ \A c \in Connections : p[c] # None =>
        /\ p[c].id # None <=> p[c].stage \in {"waiting_for_initializer",
                                              "loading_world"}
        /\ p[c].id # None => p[c].persisted # None
        /\ p[c].stage # "hello" => p[c].name \in Names
    /\ \A c \in Connections : i = c <=> (p[c] # None /\ p[c].initializer)
    /\ \A c \in Connections : i = c => ~valid /\ p[c].stage = "loading_world"

Waiting(p, i, valid) == Waiters(p) # {} => ~valid /\ i # None

\* Who holds a slot has a stored profile, so that enrolment never hands out
\* an identity that somebody holds.
HoldersAreStored ==
    /\ \A p \in Players : store[p] # None
    /\ \A c \in Authenticated : store[pending[c].id] # None

IInv ==
    /\ TypeOK
    /\ Bootstrap(pending, initializer, spawnValid)
    /\ Waiting(pending, initializer, spawnValid)
    /\ IdentityHeldOnce
    /\ HoldersAreStored
    /\ SlotsRespected

LEMMA InitIInv == Init => IInv
<1> SUFFICES ASSUME Init PROVE IInv
  OBVIOUS
<1> USE DEF Init
<1>1. TypeOK
  <2>1. /\ pending \in [Connections -> Pending \cup {None}]
        /\ session \in [Identities -> PlayerSession \cup {None}]
        /\ store \in [Identities -> Profile \cup {None}]
        /\ owned \in [Identities -> Starters \cup {None}]
    OBVIOUS
  <2>2. dummies \in 0..MaxDummies
    BY DummyBoundIsNatural
  <2> QED
    BY <2>1, <2>2 DEF TypeOK
<1>2. Bootstrap(pending, initializer, spawnValid)
  BY NoneIsNobody DEF Bootstrap
<1>3. Waiting(pending, initializer, spawnValid)
  BY DEF Waiting, Waiters
<1>4. IdentityHeldOnce
  BY DEF IdentityHeldOnce, Authenticated, Connected, Players
<1>5. SlotsRespected
  <2>1. Players \cup {pending[c].id : c \in Authenticated} = {}
    BY DEF Players, Authenticated
  <2> QED
    BY <2>1, FS_EmptySet, CapacityIsPositive DEF SlotsRespected
<1>6. HoldersAreStored
  BY DEF HoldersAreStored, Players, Authenticated
<1> QED
  BY <1>1, <1>2, <1>3, <1>4, <1>5, <1>6 DEF IInv

---------------------------------------------------------------------------
(* Waking the waiters.                                                     *)

LEMMA PendingUpdates ==
    ASSUME NEW entry \in Pending
    PROVE  /\ \A stage \in Stages : [entry EXCEPT !.stage = stage] \in Pending
           /\ \A stage \in Stages :
                [entry EXCEPT !.stage = stage, !.initializer = TRUE] \in Pending
           /\ \A name \in Names, stage \in Stages :
                [entry EXCEPT !.name = name, !.stage = stage] \in Pending
           /\ entry # None
BY NoneIsNoRecord DEF Pending

LEMMA WakingKeepsBootstrap ==
    ASSUME NEW rest, NEW first, NEW valid \in BOOLEAN,
           Bootstrap(rest, first, valid),
           WakeWaiters(rest, first, valid)
    PROVE  /\ Bootstrap(pending', initializer', valid)
           /\ Waiting(pending', initializer', valid)
           /\ \A c \in Connections : pending'[c] # None =>
                rest[c] # None /\ pending'[c].id = rest[c].id
<1> USE NoneIsNobody, NoneIsNoRecord
<1>1. CASE valid
  <2>1. /\ pending' = [c \in Connections |->
                IF c \in Waiters(rest)
                THEN [rest[c] EXCEPT !.stage = "loading_world"] ELSE rest[c]]
        /\ initializer' = first
    BY <1>1 DEF WakeWaiters
  <2>2. ASSUME NEW c \in Connections
        PROVE  /\ pending'[c] \in Pending \cup {None}
               /\ rest[c] = None => pending'[c] = None
               /\ rest[c] # None =>
                    /\ pending'[c] # None
                    /\ pending'[c].id = rest[c].id
                    /\ pending'[c].persisted = rest[c].persisted
                    /\ pending'[c].name = rest[c].name
                    /\ pending'[c].initializer = rest[c].initializer
                    /\ \/ pending'[c].stage = rest[c].stage
                          /\ rest[c].stage # "waiting_for_initializer"
                       \/ /\ pending'[c].stage = "loading_world"
                          /\ rest[c].stage = "waiting_for_initializer"
    <3>1. CASE c \in Waiters(rest)
      <4>1. rest[c] \in Pending /\ rest[c].stage = "waiting_for_initializer"
        BY <3>1 DEF Waiters, Bootstrap
      <4>2. pending'[c] = [rest[c] EXCEPT !.stage = "loading_world"]
        BY <2>1, <3>1
      <4> QED
        BY <4>1, <4>2 DEF Pending, Stages
    <3>2. CASE c \notin Waiters(rest)
      BY <2>1, <3>2 DEF Waiters, Bootstrap
    <3> QED
      BY <3>1, <3>2
  <2>3. pending' \in [Connections -> Pending \cup {None}]
    BY <2>1, <2>2
  <2>4. Waiters(pending') = {}
    BY <2>2 DEF Waiters
  <2>5. Bootstrap(pending', initializer', valid)
    BY <1>1, <2>1, <2>2, <2>3 DEF Bootstrap
  <2> QED
    BY <2>2, <2>4, <2>5 DEF Waiting
<1>2. CASE ~valid /\ (first # None \/ Waiters(rest) = {})
  BY <1>2 DEF WakeWaiters, Waiting
<1>3. CASE ~valid /\ first = None /\ Waiters(rest) # {}
  <2>1. PICK w \in Waiters(rest) :
            /\ pending' = [rest EXCEPT ![w].stage = "loading_world",
                                       ![w].initializer = TRUE]
            /\ initializer' = w
    BY <1>3 DEF WakeWaiters
  <2>2. /\ w \in Connections
        /\ rest[w] \in Pending
        /\ rest[w].stage = "waiting_for_initializer"
    BY DEF Waiters, Bootstrap
  <2>3. /\ pending'[w] = [rest[w] EXCEPT !.stage = "loading_world",
                                         !.initializer = TRUE]
        /\ \A c \in Connections \ {w} : pending'[c] = rest[c]
        /\ DOMAIN pending' = Connections
    BY <2>1, <2>2 DEF Bootstrap
  <2>4. /\ pending'[w] \in Pending
        /\ pending'[w].stage = "loading_world"
        /\ pending'[w].initializer
        /\ pending'[w].id = rest[w].id
        /\ pending'[w].persisted = rest[w].persisted
        /\ pending'[w].name = rest[w].name
    BY <2>2, <2>3 DEF Pending, Stages
  <2>5. pending' \in [Connections -> Pending \cup {None}]
    BY <2>1, <2>2, <2>3, <2>4 DEF Bootstrap
  <2>6. \A c \in Connections :
            w = c <=> (pending'[c] # None /\ pending'[c].initializer)
    <3>1. TAKE c \in Connections
    <3>2. CASE c = w
      BY <2>4, <3>2
    <3>3. CASE c # w
      <4>1. ~(rest[c] # None /\ rest[c].initializer)
        BY <1>3 DEF Bootstrap
      <4> QED
        BY <2>3, <3>3, <4>1
    <3> QED
      BY <3>2, <3>3
  <2>7. Bootstrap(pending', initializer', valid)
    BY <1>3, <2>1, <2>2, <2>3, <2>4, <2>5, <2>6 DEF Bootstrap
  <2> QED
    BY <1>3, <2>1, <2>2, <2>3, <2>4, <2>7 DEF Waiting
<1> QED
  BY <1>1, <1>2, <1>3

---------------------------------------------------------------------------
(* Slots and identities.                                                   *)

Holders == Players \cup {pending[c].id : c \in Authenticated}

LEMMA HoldersAreFinite ==
    ASSUME TypeOK
    PROVE  /\ Holders \subseteq Identities
           /\ IsFiniteSet(Holders) /\ Cardinality(Holders) \in Nat
           /\ IsFiniteSet(Players) /\ Cardinality(Players) \in Nat
           /\ IsFiniteSet(Authenticated) /\ Cardinality(Authenticated) \in Nat
<1>1. Players \subseteq Identities /\ Authenticated \subseteq Connections
  BY DEF Players, Authenticated
<1>2. Holders \subseteq Identities
  BY <1>1 DEF Holders, Authenticated, TypeOK, Pending
<1> QED
  BY <1>1, <1>2, FinitelyMany, FS_Subset, FS_CardinalityType

\* reserved_slots counts every holder of an identity at least once.
LEMMA ReservedSlotsSuffice ==
    ASSUME TypeOK, NEW c, c \notin Authenticated
    PROVE  Cardinality(Holders) + dummies <= ReservedSlots(c)
<1> DEFINE ids == {pending[d].id : d \in Authenticated}
           f == [d \in Authenticated |-> pending[d].id]
<1>1. f \in Surjection(Authenticated, ids)
  BY DEF Surjection
<1>2. IsFiniteSet(ids) /\ Cardinality(ids) <= Cardinality(Authenticated)
  <2> HIDE DEF ids, f
  <2> QED
    BY <1>1, HoldersAreFinite, FS_Surjection
<1>3. Cardinality(ids) \in Nat /\ Cardinality(Players \cap ids) \in Nat
  <2> HIDE DEF ids
  <2>1. IsFiniteSet(Players \cap ids)
    BY <1>2, FS_Subset
  <2> QED
    BY <1>2, <2>1, FS_CardinalityType
<1>4. Cardinality(Holders) =
        Cardinality(Players) + Cardinality(ids) - Cardinality(Players \cap ids)
  <2> HIDE DEF ids
  <2>1. Holders = Players \cup ids
    BY DEF Holders, ids
  <2> QED
    BY <1>2, <2>1, HoldersAreFinite, FS_Union
<1>5. Authenticated \ {c} = Authenticated
  OBVIOUS
<1>6. dummies \in Nat
  BY DummyBoundIsNatural DEF TypeOK
<1>7. ReservedSlots(c) =
        Cardinality(Players) + dummies + Cardinality(Authenticated)
  BY <1>5 DEF ReservedSlots
<1> HIDE DEF ids, f
<1> QED
  BY <1>2, <1>3, <1>4, <1>6, <1>7, HoldersAreFinite

\* A step after which nobody holds an identity who did not hold it before.
LEMMA HeldByFewer ==
    ASSUME IInv, TypeOK', dummies' <= dummies,
           \A c \in Connections : pending'[c] # None =>
                \/ pending[c] # None /\ pending'[c].id = pending[c].id
                \/ PlayerOf(c) = {} /\ pending'[c].id = None,
           \A p \in Identities : session'[p] # None =>
                /\ session[p] # None
                /\ session'[p].connection \in {None, session[p].connection},
           \A p \in Identities : store[p] # None => store'[p] # None
    PROVE  IdentityHeldOnce' /\ HoldersAreStored' /\ SlotsRespected'
<1> USE DEF IInv
<1>1. Authenticated' \subseteq Authenticated
      /\ \A c \in Authenticated' : pending'[c].id = pending[c].id
  BY DEF Authenticated
<1>2. Players' \subseteq Players
  BY DEF Players
<1>3. \A p \in Identities : Connected(p)' =>
        Connected(p) /\ session'[p].connection = session[p].connection
  BY DEF Connected
<1>4. \A c \in Authenticated : pending[c].id \in Identities
  BY DEF Authenticated, TypeOK, Pending
<1>5. IdentityHeldOnce'
  <2>1. ASSUME NEW c \in Authenticated'
        PROVE  /\ ~Connected(pending[c].id)'
               /\ \A d \in Authenticated' :
                    pending'[c].id = pending'[d].id => c = d
    BY <1>1, <1>3, <1>4 DEF IdentityHeldOnce, Connected
  <2>2. ASSUME NEW p \in Players', NEW q \in Players',
               Connected(p)', session'[p].connection = session'[q].connection
        PROVE  p = q
    <3>1. Connected(q)' /\ p \in Identities /\ q \in Identities
      BY <2>2 DEF Players, Connected
    <3> QED
      BY <1>2, <1>3, <2>2, <3>1 DEF IdentityHeldOnce
  <2>3. ASSUME NEW p \in Players', Connected(p)'
        PROVE  pending'[session'[p].connection] = None
    <3>1. /\ p \in Players /\ Connected(p)
          /\ session'[p].connection = session[p].connection
      BY <1>2, <1>3, <2>3 DEF Players
    <3>2. pending[session[p].connection] = None
      BY <3>1 DEF IdentityHeldOnce
    <3>3. session[p].connection \in Connections
      BY <3>1 DEF TypeOK, PlayerSession, Connected, Players
    <3>4. p \in PlayerOf(session[p].connection)
      BY <3>1 DEF PlayerOf
    <3> QED
      BY <3>1, <3>2, <3>3, <3>4
  <2> QED
    BY <2>1, <2>2, <2>3 DEF IdentityHeldOnce
<1>6. HoldersAreStored'
  BY <1>1, <1>2, <1>4 DEF HoldersAreStored, Players
<1>7. SlotsRespected'
  <2>1. Holders' \subseteq Holders
    BY <1>1, <1>2 DEF Holders
  <2>2. /\ Cardinality(Holders') <= Cardinality(Holders)
        /\ Cardinality(Holders') \in Nat /\ Cardinality(Holders) \in Nat
    BY <2>1, HoldersAreFinite, FS_Subset, FS_CardinalityType
  <2>3. dummies \in Nat /\ dummies' \in Nat /\ MaxPlayers \in Nat
    BY DummyBoundIsNatural, CapacityIsPositive DEF TypeOK
  <2> QED
    BY <2>2, <2>3 DEF SlotsRespected, Holders
<1> QED
  BY <1>5, <1>6, <1>7

---------------------------------------------------------------------------
(* The steps.                                                              *)

\* What a step leaves to show once the loading connections are dealt with.
LEMMA StepEnds ==
    ASSUME Bootstrap(pending', initializer', spawnValid'),
           Waiting(pending', initializer', spawnValid'),
           spawnValid' \in BOOLEAN,
           open' \subseteq Connections,
           session' \in [Identities -> PlayerSession \cup {None}],
           dummies' \in 0..MaxDummies,
           store' \in [Identities -> Profile \cup {None}],
           claims' \subseteq Identities,
           owned' \in [Identities -> Starters \cup {None}]
    PROVE  /\ TypeOK'
           /\ IdentityHeldOnce' /\ HoldersAreStored' /\ SlotsRespected' => IInv'
<1>1. TypeOK'
  BY DEF TypeOK, Bootstrap
<1> QED
  BY <1>1 DEF IInv

LEMMA ForgettingKeepsBootstrap ==
    ASSUME IInv, NEW c \in Connections
    PROVE  Bootstrap([pending EXCEPT ![c] = None],
                     IF initializer = c THEN None ELSE initializer, spawnValid)
<1> DEFINE rest == [pending EXCEPT ![c] = None]
           first == IF initializer = c THEN None ELSE initializer
<1>1. Bootstrap(pending, initializer, spawnValid)
  BY DEF IInv
<1>2. /\ rest \in [Connections -> Pending \cup {None}]
      /\ rest[c] = None
      /\ \A d \in Connections \ {c} : rest[d] = pending[d]
      /\ first \in Connections \cup {None}
      /\ first # c
      /\ \A d \in Connections \ {c} : first = d <=> initializer = d
  BY <1>1, NoneIsNobody DEF Bootstrap
<1> HIDE DEF rest, first
<1>3. \A d \in Connections : first = d <=> (rest[d] # None /\ rest[d].initializer)
  <2>1. TAKE d \in Connections
  <2>2. CASE d = c
    BY <1>2, <2>2
  <2>3. CASE d # c
    <3>1. initializer = d <=> (pending[d] # None /\ pending[d].initializer)
      BY <1>1 DEF Bootstrap
    <3> QED
      BY <1>2, <2>3, <3>1
  <2> QED
    BY <2>2, <2>3
<1>4. Bootstrap(rest, first, spawnValid)
  BY <1>1, <1>2, <1>3 DEF Bootstrap
<1> QED
  BY <1>4 DEF rest, first

LEMMA ForgetStep ==
    ASSUME IInv, NEW c \in Connections, Forget(c), open' \subseteq Connections,
           store' \in [Identities -> Profile \cup {None}],
           claims' \subseteq Identities,
           owned' \in [Identities -> Starters \cup {None}],
           \A p \in Identities : store[p] # None => store'[p] # None,
           UNCHANGED <<session, dummies, spawnValid>>
    PROVE  IInv'
<1>1. /\ Bootstrap(pending', initializer', spawnValid')
      /\ Waiting(pending', initializer', spawnValid')
      /\ \A d \in Connections : pending'[d] # None =>
            pending[d] # None /\ pending'[d].id = pending[d].id
  <2> DEFINE rest == [pending EXCEPT ![c] = None]
             first == IF initializer = c THEN None ELSE initializer
  <2>1. WakeWaiters(rest, first, spawnValid)
    BY DEF Forget
  <2>2. Bootstrap(rest, first, spawnValid) /\ spawnValid \in BOOLEAN
    BY ForgettingKeepsBootstrap DEF IInv, TypeOK
  <2>3. \A d \in Connections : rest[d] # None => rest[d] = pending[d]
    BY DEF IInv, TypeOK
  <2> HIDE DEF rest, first
  <2> QED
    BY <2>1, <2>2, <2>3, WakingKeepsBootstrap
<1>2. /\ TypeOK'
      /\ IdentityHeldOnce' /\ HoldersAreStored' /\ SlotsRespected' => IInv'
  BY <1>1, StepEnds DEF IInv, TypeOK
<1>3. dummies' <= dummies
  BY DummyBoundIsNatural DEF IInv, TypeOK
<1>4. \A p \in Identities : session'[p] # None =>
        /\ session[p] # None
        /\ session'[p].connection \in {None, session[p].connection}
  OBVIOUS
<1> QED
  BY <1>1, <1>2, <1>3, <1>4, HeldByFewer

\* A step of sessions, profiles and items that leaves loading connections alone
\* and attaches no session to a connection.
LEMMA SessionStep ==
    ASSUME IInv, UNCHANGED <<pending, initializer, spawnValid>>,
           open' \subseteq Connections,
           session' \in [Identities -> PlayerSession \cup {None}],
           dummies' \in 0..MaxDummies, dummies' <= dummies,
           store' \in [Identities -> Profile \cup {None}],
           claims' \subseteq Identities,
           owned' \in [Identities -> Starters \cup {None}],
           \A p \in Identities : session'[p] # None =>
                /\ session[p] # None
                /\ session'[p].connection \in {None, session[p].connection},
           \A p \in Identities : store[p] # None => store'[p] # None
    PROVE  IInv'
<1>1. /\ Bootstrap(pending', initializer', spawnValid')
      /\ Waiting(pending', initializer', spawnValid')
      /\ spawnValid' \in BOOLEAN
  BY DEF IInv, TypeOK
<1>2. /\ TypeOK'
      /\ IdentityHeldOnce' /\ HoldersAreStored' /\ SlotsRespected' => IInv'
  BY <1>1, StepEnds
<1> QED
  BY <1>2, HeldByFewer

\* A step of the session and the stored profile of one player.
LEMMA OnePlayerStep ==
    ASSUME IInv, NEW p \in Players, NEW after \in PlayerSession \cup {None},
           after # None => after.connection \in {None, session[p].connection},
           session' = [session EXCEPT ![p] = after],
           NEW profile \in Profile \cup {None},
           store' = [store EXCEPT ![p] = profile], profile # None,
           open' \subseteq Connections,
           UNCHANGED <<pending, dummies, initializer, spawnValid, claims, owned>>
    PROVE  IInv'
<1>1. /\ p \in Identities /\ session[p] # None
      /\ session \in [Identities -> PlayerSession \cup {None}]
      /\ store \in [Identities -> Profile \cup {None}]
      /\ dummies \in 0..MaxDummies /\ claims \subseteq Identities
      /\ owned \in [Identities -> Starters \cup {None}]
  BY DEF Players, IInv, TypeOK
<1>2. dummies' <= dummies
  BY <1>1, DummyBoundIsNatural
<1>3. /\ session' \in [Identities -> PlayerSession \cup {None}]
      /\ store' \in [Identities -> Profile \cup {None}]
      /\ \A q \in Identities : session'[q] # None =>
            /\ session[q] # None
            /\ session'[q].connection \in {None, session[q].connection}
      /\ \A q \in Identities : store[q] # None => store'[q] # None
  BY <1>1
<1> QED
  BY <1>1, <1>2, <1>3, SessionStep

LEMMA PlayerTyped ==
    ASSUME IInv, NEW p \in Players
    PROVE  /\ p \in Identities /\ session[p] # None
           /\ session[p] \in PlayerSession
           /\ session[p].profile \in Profile /\ session[p].profile # None
           /\ session[p].connection \in Connections \cup {None}
BY NoneIsNoRecord DEF Players, IInv, TypeOK, PlayerSession

LEMMA RemovePlayerStep ==
    ASSUME IInv, NEW p \in Players, RemovePlayer(p)
    PROVE  IInv'
<1>1. open' \subseteq Connections
  BY DEF RemovePlayer, IInv, TypeOK
<1> QED
  BY <1>1, PlayerTyped, OnePlayerStep DEF RemovePlayer, Persisted

LEMMA DisconnectPlayerStep ==
    ASSUME IInv, NEW p \in Identities, NEW allowReconnect \in BOOLEAN,
           DisconnectPlayer(p, allowReconnect)
    PROVE  IInv'
<1> DEFINE after == IF allowReconnect
                    THEN [connection |-> None, profile |-> session[p].profile]
                    ELSE None
<1>1. p \in Players
  BY DEF DisconnectPlayer, Connected, Players
<1>2. after \in PlayerSession \cup {None} /\ (after # None => after.connection = None)
  BY <1>1, PlayerTyped DEF PlayerSession
<1>3. /\ open' \subseteq Connections
      /\ session' = [session EXCEPT ![p] = after]
      /\ store' = [store EXCEPT ![p] = session[p].profile]
      /\ UNCHANGED <<pending, dummies, initializer, spawnValid, claims, owned>>
  BY DEF DisconnectPlayer, Persisted, IInv, TypeOK
<1> HIDE DEF after
<1> QED
  BY <1>1, <1>2, <1>3, PlayerTyped, OnePlayerStep

LEMMA UpdateProfileStep ==
    ASSUME IInv, NEW p \in Identities, UpdateProfile(p)
    PROVE  IInv'
<1> DEFINE profile == [session[p].profile EXCEPT !.edited = TRUE]
           after == [session[p] EXCEPT !.profile = profile]
<1>1. p \in Players
  BY DEF UpdateProfile, Connected, Players
<1>2. profile \in Profile
  BY <1>1, PlayerTyped DEF Profile
<1>3. /\ after \in PlayerSession /\ after.connection = session[p].connection
      /\ after.profile = profile
  BY <1>1, <1>2, PlayerTyped DEF PlayerSession
<1>4. session' = [session EXCEPT ![p] = after]
  <2> HIDE DEF after, profile
  <2>1. session' = [session EXCEPT ![p].profile.edited = TRUE]
    BY DEF UpdateProfile
  <2> QED
    BY <2>1 DEF after, profile
<1>5. store' = [store EXCEPT ![p] = profile]
  <2>1. session'[p] = after
    BY <1>1, <1>4, PlayerTyped DEF IInv, TypeOK
  <2> QED
    BY <1>3, <2>1 DEF UpdateProfile
<1>6. /\ open' \subseteq Connections
      /\ UNCHANGED <<pending, dummies, initializer, spawnValid, claims, owned>>
  BY DEF UpdateProfile, IInv, TypeOK
<1> HIDE DEF after, profile
<1> QED
  BY <1>1, <1>2, <1>3, <1>4, <1>5, <1>6, NoneIsNoRecord, OnePlayerStep

LEMMA MoveStep ==
    ASSUME IInv, NEW p \in Identities, Move(p)
    PROVE  IInv'
<1> DEFINE after == [session[p] EXCEPT !.profile.placed = TRUE]
<1>1. p \in Players
  BY DEF Move, Connected, Players
<1>2. after \in PlayerSession /\ after.connection = session[p].connection
  <2>1. [session[p].profile EXCEPT !.placed = TRUE] \in Profile
    BY <1>1, PlayerTyped DEF Profile
  <2> QED
    BY <1>1, <2>1, PlayerTyped DEF PlayerSession
<1>3. session' = [session EXCEPT ![p] = after]
  BY DEF Move
<1>4. /\ store[p] \in Profile /\ store[p] # None
      /\ store' = [store EXCEPT ![p] = store[p]]
  BY <1>1 DEF Move, IInv, HoldersAreStored, TypeOK, Players
<1>5. /\ open' \subseteq Connections
      /\ UNCHANGED <<pending, dummies, initializer, spawnValid, claims, owned>>
  BY DEF Move, IInv, TypeOK
<1> HIDE DEF after
<1> QED
  BY <1>1, <1>2, <1>3, <1>4, <1>5, OnePlayerStep

LEMMA PersistSessionStep ==
    ASSUME IInv, NEW p \in Identities, PersistSession(p)
    PROVE  IInv'
<1>1. p \in Players
  BY DEF PersistSession
<1>2. /\ session' = [session EXCEPT ![p] = session[p]]
      /\ store' = [store EXCEPT ![p] = session[p].profile]
      /\ open' \subseteq Connections
      /\ UNCHANGED <<pending, dummies, initializer, spawnValid, claims, owned>>
  BY <1>1, PlayerTyped DEF PersistSession, Persisted, IInv, TypeOK
<1> QED
  BY <1>1, <1>2, PlayerTyped, OnePlayerStep

LEMMA ClaimStep ==
    ASSUME IInv, claims' \subseteq Identities,
           UNCHANGED <<open, pending, session, dummies, initializer, store,
                       spawnValid, owned>>
    PROVE  IInv'
<1>1. dummies' <= dummies
  BY DummyBoundIsNatural DEF IInv, TypeOK
<1> QED
  BY <1>1, SessionStep DEF IInv, TypeOK

LEMMA RemoveDummyStep ==
    ASSUME IInv, RemoveDummy
    PROVE  IInv'
<1>1. dummies' \in 0..MaxDummies /\ dummies' <= dummies
  BY DummyBoundIsNatural DEF RemoveDummy, IInv, TypeOK
<1> QED
  BY <1>1, SessionStep DEF RemoveDummy, IInv, TypeOK

LEMMA SpawnDummyStep ==
    ASSUME IInv, SpawnDummy
    PROVE  IInv'
<1> USE DEF SpawnDummy
<1>1. dummies' \in 0..MaxDummies /\ dummies \in Nat
  BY DummyBoundIsNatural DEF IInv, TypeOK
<1>2. /\ TypeOK'
      /\ IdentityHeldOnce' /\ HoldersAreStored' /\ SlotsRespected' => IInv'
  BY <1>1, StepEnds DEF IInv, TypeOK
<1>3. IdentityHeldOnce' /\ HoldersAreStored'
  BY DEF IInv, IdentityHeldOnce, HoldersAreStored, Authenticated, Connected,
         Players
<1>4. SlotsRespected'
  <2>1. Cardinality(Holders) + dummies <= ReservedSlots(None)
    BY NoneIsNobody, ReservedSlotsSuffice DEF Authenticated, IInv
  <2>2. Cardinality(Holders) + dummies < MaxPlayers
    <3>1. ReservedSlots(None) \in Nat /\ Cardinality(Holders) \in Nat
      <4>1. Authenticated \ {None} = Authenticated
        BY NoneIsNobody DEF Authenticated
      <4> QED
        BY <1>1, <4>1, HoldersAreFinite DEF ReservedSlots, IInv
    <3> QED
      BY <1>1, <2>1, <3>1, CapacityIsPositive
  <2>3. Cardinality(Holders) + dummies' <= MaxPlayers
    BY <1>1, <2>2, CapacityIsPositive, HoldersAreFinite DEF IInv
  <2>4. Holders' = Holders
    BY DEF Holders, Players, Authenticated
  <2> QED
    BY <2>3, <2>4 DEF SlotsRespected, Holders
<1> QED
  BY <1>2, <1>3, <1>4

LEMMA RestartStep ==
    ASSUME IInv, NEW orderly \in BOOLEAN, Restart(orderly)
    PROVE  IInv'
<1>1. /\ open' = {} /\ pending' = [c \in Connections |-> None]
      /\ session' = [p \in Identities |-> None] /\ dummies' = 0
      /\ initializer' = None /\ claims' = {} /\ spawnValid' = spawnValid
  BY DEF Restart
<1>2. store' \in [Identities -> Profile \cup {None}]
  <2>1. \A p \in Players : session[p].profile \in Profile
    BY PlayerTyped
  <2> QED
    BY <2>1 DEF Restart, IInv, TypeOK
<1>3. owned' \in [Identities -> Starters \cup {None}]
  <2>1. \A p \in Identities : store'[p] # None => store'[p].items \in Starters
    BY <1>2 DEF Profile
  <2> QED
    BY <2>1 DEF Restart
<1>4. Bootstrap(pending', initializer', spawnValid')
  BY <1>1, NoneIsNobody DEF Bootstrap
<1>5. Waiting(pending', initializer', spawnValid')
  BY <1>1 DEF Waiting, Waiters
<1>6. /\ session' \in [Identities -> PlayerSession \cup {None}]
      /\ dummies' \in 0..MaxDummies /\ spawnValid' \in BOOLEAN
  BY <1>1, DummyBoundIsNatural DEF IInv, TypeOK
<1>7. /\ TypeOK'
      /\ IdentityHeldOnce' /\ HoldersAreStored' /\ SlotsRespected' => IInv'
  BY <1>1, <1>2, <1>3, <1>4, <1>5, <1>6, StepEnds
<1>8. /\ dummies' <= dummies
      /\ \A c \in Connections : pending'[c] = None
      /\ \A p \in Identities : session'[p] = None
  BY <1>1, DummyBoundIsNatural DEF IInv, TypeOK
<1>9. \A p \in Identities : store[p] # None => store'[p] # None
  <2>1. \A p \in Players : session[p].profile # None
    BY PlayerTyped
  <2> QED
    BY <2>1 DEF Restart
<1> QED
  BY <1>7, <1>8, <1>9, HeldByFewer

LEMMA ConnectStep ==
    ASSUME IInv, NEW c \in Connections, Connect(c)
    PROVE  IInv'
<1> DEFINE entry == [stage |-> "hello", name |-> None, id |-> None,
                     persisted |-> None, initializer |-> FALSE]
<1>1. entry \in Pending /\ entry # None
  <2>1. entry \in Pending
    BY DEF Pending, Stages
  <2> QED
    BY <2>1, NoneIsNoRecord
<1>2. /\ pending' = [pending EXCEPT ![c] = entry]
      /\ pending[c] = None /\ PlayerOf(c) = {}
      /\ open' = open \cup {c}
      /\ UNCHANGED <<session, dummies, initializer, store, spawnValid, claims,
                     owned>>
  BY DEF Connect, Known
<1>3. /\ pending' \in [Connections -> Pending \cup {None}]
      /\ pending'[c] = entry
      /\ \A d \in Connections \ {c} : pending'[d] = pending[d]
  BY <1>1, <1>2 DEF IInv, TypeOK
<1>4. /\ entry.id = None /\ entry.stage = "hello" /\ ~entry.initializer
  OBVIOUS
<1> HIDE DEF entry
<1>5. \A d \in Connections :
        initializer = d <=> (pending'[d] # None /\ pending'[d].initializer)
  <2>1. TAKE d \in Connections
  <2>2. initializer = d <=> (pending[d] # None /\ pending[d].initializer)
    BY DEF IInv, Bootstrap
  <2>3. CASE d = c
    BY <1>2, <1>3, <1>4, <2>2, <2>3
  <2>4. CASE d # c
    BY <1>3, <2>2, <2>4
  <2> QED
    BY <2>3, <2>4
<1>6. Bootstrap(pending', initializer', spawnValid')
  BY <1>1, <1>2, <1>3, <1>4, <1>5 DEF IInv, Bootstrap
<1>7. Waiting(pending', initializer', spawnValid')
  <2>1. Waiters(pending') = Waiters(pending)
    BY <1>2, <1>3, <1>4 DEF Waiters
  <2> QED
    BY <1>2, <2>1 DEF Waiting, IInv
<1>8. /\ TypeOK'
      /\ IdentityHeldOnce' /\ HoldersAreStored' /\ SlotsRespected' => IInv'
  BY <1>2, <1>6, <1>7, StepEnds DEF IInv, TypeOK
<1>9. dummies' <= dummies
  BY <1>2, DummyBoundIsNatural DEF IInv, TypeOK
<1> QED
  BY <1>2, <1>3, <1>4, <1>8, <1>9, HeldByFewer

LEMMA HelloStep ==
    ASSUME IInv, NEW c \in Connections, NEW name \in Names, Hello(c, name)
    PROVE  IInv'
<1> DEFINE entry == [pending[c] EXCEPT !.name = name, !.stage = "authenticate"]
<1>1. /\ pending[c] \in Pending /\ pending[c] # None
      /\ pending[c].stage = "hello"
      /\ UNCHANGED <<open, session, dummies, initializer, store, spawnValid,
                     claims, owned>>
  BY DEF Hello, IInv, TypeOK
<1>2. /\ entry \in Pending /\ entry # None
      /\ entry.stage = "authenticate" /\ entry.id = pending[c].id
      /\ entry.initializer = pending[c].initializer
      /\ entry.name = name
  <2>1. entry \in Pending /\ entry # None
    BY <1>1, NoneIsNoRecord, PendingUpdates DEF Stages
  <2> QED
    BY <1>1, <2>1 DEF Pending
<1>3. pending' = [pending EXCEPT ![c] = entry]
  BY DEF Hello
<1> HIDE DEF entry
<1>4. /\ pending' \in [Connections -> Pending \cup {None}]
      /\ pending'[c] = entry
      /\ \A d \in Connections \ {c} : pending'[d] = pending[d]
  BY <1>2, <1>3 DEF IInv, TypeOK
<1>5. pending[c].id = None /\ initializer # c
  BY <1>1 DEF IInv, Bootstrap
<1>6. \A d \in Connections :
        initializer = d <=> (pending'[d] # None /\ pending'[d].initializer)
  <2>1. TAKE d \in Connections
  <2>2. initializer = d <=> (pending[d] # None /\ pending[d].initializer)
    BY DEF IInv, Bootstrap
  <2>3. CASE d = c
    BY <1>1, <1>2, <1>4, <2>2, <2>3
  <2>4. CASE d # c
    BY <1>4, <2>2, <2>4
  <2> QED
    BY <2>3, <2>4
<1>7. Bootstrap(pending', initializer', spawnValid')
  BY <1>1, <1>2, <1>4, <1>5, <1>6 DEF IInv, Bootstrap
<1>8. Waiting(pending', initializer', spawnValid')
  <2>1. Waiters(pending') = Waiters(pending)
    BY <1>1, <1>2, <1>4 DEF Waiters
  <2> QED
    BY <1>1, <2>1 DEF Waiting, IInv
<1>9. /\ TypeOK'
      /\ IdentityHeldOnce' /\ HoldersAreStored' /\ SlotsRespected' => IInv'
  BY <1>1, <1>7, <1>8, StepEnds DEF IInv, TypeOK
<1>10. dummies' <= dummies
  BY <1>1, DummyBoundIsNatural DEF IInv, TypeOK
<1> QED
  BY <1>1, <1>2, <1>4, <1>9, <1>10, HeldByFewer

\* The end of handle_authenticate, for a stored profile and for a new one.
LEMMA AcceptStep ==
    ASSUME IInv, NEW c \in Connections, NEW p \in Identities,
           NEW profile \in Profile, Authenticates(c), Accept(c, p, profile),
           ~InUse(c, p), p \notin Players => ReservedSlots(c) < MaxPlayers,
           store' = [store EXCEPT ![p] = profile],
           claims' \subseteq Identities,
           owned' \in [Identities -> Starters \cup {None}],
           UNCHANGED <<open, session, dummies, spawnValid>>
    PROVE  IInv'
<1> DEFINE admitted == [pending[c] EXCEPT !.id = p, !.persisted = profile]
           loading == [admitted EXCEPT !.stage = "loading_world"]
           first == [admitted EXCEPT !.stage = "loading_world",
                                     !.initializer = TRUE]
           waiting == [admitted EXCEPT !.stage = "waiting_for_initializer"]
<1>1. /\ pending[c] \in Pending /\ pending[c] # None
      /\ pending[c].stage = "authenticate"
  BY DEF Authenticates, IInv, TypeOK
<1>2. /\ {loading, first, waiting} \subseteq Pending
      /\ loading.stage = "loading_world" /\ first.stage = "loading_world"
      /\ waiting.stage = "waiting_for_initializer"
      /\ \A e \in {loading, first, waiting} :
            e.id = p /\ e.persisted = profile /\ e.name \in Names
      /\ loading.initializer = pending[c].initializer
      /\ waiting.initializer = pending[c].initializer
      /\ first.initializer
  <2>1. /\ admitted \in Pending /\ admitted.id = p
        /\ admitted.persisted = profile /\ admitted.name \in Names
        /\ admitted.initializer = pending[c].initializer
    <3>1. pending[c].name \in Names
      BY <1>1 DEF IInv, Bootstrap
    <3> QED
      BY <1>1, <3>1 DEF Pending
  <2> HIDE DEF admitted
  <2>2. /\ loading \in Pending /\ loading.stage = "loading_world"
        /\ loading.id = p /\ loading.persisted = profile /\ loading.name \in Names
        /\ loading.initializer = pending[c].initializer
    BY <2>1 DEF Pending, Stages
  <2>3. /\ first \in Pending /\ first.stage = "loading_world"
        /\ first.id = p /\ first.persisted = profile /\ first.name \in Names
        /\ first.initializer
    BY <2>1 DEF Pending, Stages
  <2>4. /\ waiting \in Pending /\ waiting.stage = "waiting_for_initializer"
        /\ waiting.id = p /\ waiting.persisted = profile /\ waiting.name \in Names
        /\ waiting.initializer = pending[c].initializer
    BY <2>1 DEF Pending, Stages
  <2> QED
    BY <2>2, <2>3, <2>4
<1>3. /\ pending[c].id = None /\ initializer # c
      /\ ~pending[c].initializer
  BY <1>1 DEF IInv, Bootstrap
<1>4. \/ /\ spawnValid
         /\ pending' = [pending EXCEPT ![c] = loading]
         /\ initializer' = initializer
      \/ /\ ~spawnValid /\ initializer = None
         /\ pending' = [pending EXCEPT ![c] = first]
         /\ initializer' = c
      \/ /\ ~spawnValid /\ initializer # None
         /\ pending' = [pending EXCEPT ![c] = waiting]
         /\ initializer' = initializer
  BY DEF Accept
<1> HIDE DEF loading, first, waiting, admitted
<1>5. PICK entry \in {loading, first, waiting} :
        /\ pending' = [pending EXCEPT ![c] = entry]
        /\ \/ spawnValid /\ entry = loading /\ initializer' = initializer
           \/ ~spawnValid /\ initializer = None /\ entry = first /\ initializer' = c
           \/ ~spawnValid /\ initializer # None /\ entry = waiting
              /\ initializer' = initializer
  BY <1>4
<1>6. /\ pending' \in [Connections -> Pending \cup {None}]
      /\ pending'[c] = entry
      /\ \A d \in Connections \ {c} : pending'[d] = pending[d]
      /\ entry \in Pending /\ entry # None /\ profile # None
      /\ entry.id = p /\ entry.persisted = profile /\ entry.name \in Names
  BY <1>2, <1>5, NoneIsNoRecord DEF IInv, TypeOK
<1>7. p # None /\ c # None
  BY NoneIsNobody
<1>8. \A d \in Connections :
        initializer' = d <=> (pending'[d] # None /\ pending'[d].initializer)
  <2>1. TAKE d \in Connections
  <2>2. initializer = d <=> (pending[d] # None /\ pending[d].initializer)
    BY DEF IInv, Bootstrap
  <2>3. CASE d = c
    BY <1>2, <1>3, <1>5, <1>6, <2>3
  <2>4. CASE d # c
    <3>1. initializer' = d <=> initializer = d
      BY <1>5, <2>4, NoneIsNobody
    <3> QED
      BY <1>6, <2>2, <2>4, <3>1
  <2> QED
    BY <2>3, <2>4
<1>9. Bootstrap(pending', initializer', spawnValid')
  <2>1. initializer' \in Connections \cup {None}
    BY <1>5 DEF IInv, TypeOK
  <2>2. \A d \in Connections : initializer' = d =>
            ~spawnValid /\ pending'[d].stage = "loading_world"
    <3>1. TAKE d \in Connections
    <3>2. initializer = d => ~spawnValid /\ pending[d].stage = "loading_world"
      BY DEF IInv, Bootstrap
    <3> QED
      BY <1>2, <1>3, <1>5, <1>6, <3>2
  <2>3. \A d \in Connections : pending'[d] # None =>
            /\ pending'[d].id # None <=>
                    pending'[d].stage \in {"waiting_for_initializer",
                                           "loading_world"}
            /\ pending'[d].id # None => pending'[d].persisted # None
            /\ pending'[d].stage # "hello" => pending'[d].name \in Names
    BY <1>2, <1>5, <1>6, <1>7 DEF IInv, Bootstrap
  <2> QED
    BY <1>6, <1>8, <2>1, <2>2, <2>3 DEF Bootstrap
<1>10. Waiting(pending', initializer', spawnValid')
  <2>1. ASSUME NEW d \in Waiters(pending')
        PROVE  ~spawnValid /\ initializer' # None
    <3>1. CASE d = c
      BY <1>2, <1>5, <1>6, <2>1, <3>1 DEF Waiters
    <3>2. CASE d # c
      <4>1. d \in Waiters(pending)
        BY <1>6, <2>1, <3>2 DEF Waiters
      <4> QED
        BY <1>5, <4>1 DEF Waiting, IInv
    <3> QED
      BY <3>1, <3>2
  <2> QED
    BY <2>1 DEF Waiting
<1>11. store' \in [Identities -> Profile \cup {None}] /\ store'[p] # None
  BY <1>6 DEF IInv, TypeOK
<1>12. /\ TypeOK'
       /\ IdentityHeldOnce' /\ HoldersAreStored' /\ SlotsRespected' => IInv'
  BY <1>9, <1>10, <1>11, StepEnds DEF IInv, TypeOK
<1>13. /\ Authenticated' = Authenticated \cup {c} /\ c \notin Authenticated
       /\ \A d \in Authenticated : d # c /\ pending'[d].id = pending[d].id
       /\ Players' = Players
       /\ \A q \in Identities : Connected(q)' <=> Connected(q)
  BY <1>3, <1>6, <1>7 DEF Authenticated, Players, Connected
<1>14. IdentityHeldOnce'
  <2>1. ~Connected(p) /\ \A d \in Authenticated : pending[d].id # p
    BY <1>13 DEF InUse
  <2>2. ASSUME NEW d \in Authenticated'
        PROVE  /\ ~Connected(pending[d].id)'
               /\ \A e \in Authenticated' :
                    pending'[d].id = pending'[e].id => d = e
    <3>1. pending'[d].id = IF d = c THEN p ELSE pending[d].id
      BY <1>6, <1>13, <2>2
    <3>2. pending'[d].id \in Identities
      BY <1>6, <1>13, <2>2 DEF Authenticated, Pending
    <3>3. ~Connected(pending'[d].id)
      BY <1>13, <2>1, <2>2, <3>1 DEF IInv, IdentityHeldOnce
    <3>4. ~Connected(pending[d].id)'
      <4>1. session' = session
        OBVIOUS
      <4> QED
        BY <3>3, <4>1 DEF Connected
    <3>5. ASSUME NEW e \in Authenticated', pending'[d].id = pending'[e].id
          PROVE  d = e
      <4>1. pending'[e].id = IF e = c THEN p ELSE pending[e].id
        BY <1>6, <1>13, <3>5
      <4> QED
        BY <1>13, <2>1, <3>1, <3>5, <4>1 DEF IInv, IdentityHeldOnce
    <3> QED
      BY <3>4, <3>5
  <2>3. \A q \in Players : Connected(q) => session[q].connection # c
    BY <1>1 DEF IInv, IdentityHeldOnce
  <2>4. ASSUME NEW q \in Players, Connected(q)
        PROVE  pending'[session[q].connection] = None
    <3>1. session[q].connection \in Connections \ {c}
      BY <2>3, <2>4, PlayerTyped DEF Connected
    <3> QED
      BY <1>6, <2>4, <3>1 DEF IInv, IdentityHeldOnce
  <2>5. Players \subseteq Identities
    BY DEF Players
  <2>6. \A q, r \in Players : Connected(q) /\ session[q].connection = session[r].connection
            => q = r
    BY DEF IInv, IdentityHeldOnce
  <2> QED
    BY <1>13, <2>2, <2>4, <2>5, <2>6 DEF IdentityHeldOnce, Connected
<1>15. HoldersAreStored'
  <2>1. \A q \in Identities : store[q] # None \/ q = p => store'[q] # None
    BY <1>11 DEF IInv, TypeOK
  <2>2. \A d \in Authenticated' : pending'[d].id \in Identities
            /\ (store[pending'[d].id] # None \/ pending'[d].id = p)
    BY <1>6, <1>13 DEF IInv, HoldersAreStored, Authenticated, Pending
  <2>3. \A q \in Players : q \in Identities /\ store[q] # None
    BY DEF IInv, HoldersAreStored, Players
  <2> QED
    BY <1>13, <2>1, <2>2, <2>3 DEF HoldersAreStored
<1>16. SlotsRespected'
  <2>1. Holders' = Holders \cup {p}
    BY <1>6, <1>13 DEF Holders
  <2>2. /\ IsFiniteSet(Holders) /\ Cardinality(Holders) \in Nat
        /\ Cardinality(Players) \in Nat /\ Cardinality(Authenticated) \in Nat
        /\ dummies \in Nat /\ MaxPlayers \in Nat /\ dummies' = dummies
    BY HoldersAreFinite, DummyBoundIsNatural, CapacityIsPositive DEF IInv, TypeOK
  <2>3. /\ Cardinality(Holders) + dummies <= MaxPlayers
    BY DEF IInv, SlotsRespected, Holders
  <2>4. CASE p \in Players
    <3>1. Holders' = Holders
      BY <2>1, <2>4 DEF Holders
    <3> QED
      BY <2>2, <2>3, <3>1 DEF SlotsRespected, Holders
  <2>5. CASE p \notin Players
    <3>1. /\ Cardinality(Holders) + dummies <= ReservedSlots(c)
          /\ ReservedSlots(c) < MaxPlayers
      BY <1>13, <2>5, ReservedSlotsSuffice DEF IInv
    <3>2. ReservedSlots(c) \in Nat
      <4>1. Authenticated \ {c} = Authenticated
        BY <1>13
      <4>2. ReservedSlots(c) =
                Cardinality(Players) + dummies + Cardinality(Authenticated)
        BY <4>1 DEF ReservedSlots
      <4> QED
        BY <2>2, <4>2
    <3>3. Cardinality(Holders') <= Cardinality(Holders) + 1
          /\ Cardinality(Holders') \in Nat
      <4>1. /\ IsFiniteSet(Holders \cup {p})
            /\ Cardinality(Holders \cup {p}) = IF p \in Holders
                    THEN Cardinality(Holders) ELSE Cardinality(Holders) + 1
        BY <2>2, FS_AddElement
      <4> QED
        BY <2>1, <2>2, <4>1
    <3>4. Cardinality(Holders') + dummies' <= MaxPlayers
      BY <2>2, <3>1, <3>2, <3>3
    <3> QED
      BY <3>4 DEF SlotsRespected, Holders
  <2> QED
    BY <2>4, <2>5
<1> QED
  BY <1>12, <1>14, <1>15, <1>16

LEMMA EnrollStep ==
    ASSUME IInv, NEW c \in Connections, NEW p \in Identities, Enroll(c, p)
    PROVE  IInv'
<1>1. /\ pending[c] # None /\ pending[c].stage = "authenticate"
      /\ Authenticates(c) /\ ReservedSlots(c) < MaxPlayers /\ store[p] = None
  BY DEF Enroll, Authenticates
<1>2. PICK token \in NewTokens(p), items \in Starters :
        LET profile == [token |-> token, name |-> pending[c].name,
                        items |-> items, edited |-> FALSE,
                        placed |-> spawnValid]
        IN  /\ store' = [store EXCEPT ![p] = profile]
            /\ owned' = [owned EXCEPT ![p] = items]
            /\ Accept(c, p, profile)
  BY DEF Enroll
<1> DEFINE profile == [token |-> token, name |-> pending[c].name,
                       items |-> items, edited |-> FALSE, placed |-> spawnValid]
<1>3. profile \in Profile
  <2>1. token \in Tokens
    BY DEF NewTokens
  <2>2. pending[c].name \in Names /\ spawnValid \in BOOLEAN
    BY <1>1 DEF IInv, Bootstrap, TypeOK
  <2> QED
    BY <2>1, <2>2 DEF Profile
<1>4. /\ store' = [store EXCEPT ![p] = profile]
      /\ owned' = [owned EXCEPT ![p] = items]
      /\ Accept(c, p, profile)
  BY <1>2
<1> HIDE DEF profile
<1>5. ~InUse(c, p)
  BY <1>1 DEF InUse, Connected, IInv, HoldersAreStored, Players, Authenticated
<1>6. /\ claims' \subseteq Identities
      /\ owned' \in [Identities -> Starters \cup {None}]
      /\ UNCHANGED <<open, session, dummies, spawnValid>>
  BY <1>4 DEF Enroll, IInv, TypeOK
<1> QED
  BY <1>1, <1>3, <1>4, <1>5, <1>6, AcceptStep

LEMMA IdentifyStep ==
    ASSUME IInv, NEW c \in Connections, NEW p \in Identities,
           NEW rotate \in BOOLEAN, Identify(c, p, rotate)
    PROVE  IInv'
<1>1. /\ pending[c] # None /\ pending[c].stage = "authenticate"
      /\ Authenticates(c) /\ store[p] # None
      /\ claims' \subseteq Identities
      /\ UNCHANGED <<session, dummies, spawnValid>>
  BY DEF Identify, Authenticates, IInv, TypeOK
<1>2. PICK items \in (IF MustRefresh(p) THEN NewStarters(p)
                      ELSE {store[p].items}) :
        LET current == [store[p] EXCEPT !.items = items]
            renamed == pending[c].name # current.name
        IN  /\ owned' = [owned EXCEPT ![p] = items]
            /\ IF ~MayEnter(c, p)
               THEN /\ store' = [store EXCEPT ![p] = current]
                    /\ Rejected(c)
               ELSE \E token \in (IF rotate THEN NewTokens(p)
                                  ELSE {current.token}) :
                    LET profile == [current EXCEPT
                                        !.token = token,
                                        !.name = pending[c].name,
                                        !.edited = @ \/ renamed]
                    IN  /\ store' = [store EXCEPT ![p] = profile]
                        /\ Accept(c, p, profile)
                        /\ open' = open
  BY DEF Identify
<1> DEFINE current == [store[p] EXCEPT !.items = items]
           renamed == pending[c].name # current.name
<1>3. store[p] \in Profile /\ items \in Starters
  <2>1. store[p] \in Profile
    BY <1>1 DEF IInv, TypeOK
  <2> QED
    BY <2>1 DEF NewStarters, Profile
<1>4. current \in Profile
  BY <1>3 DEF Profile
<1>5. owned' \in [Identities -> Starters \cup {None}]
  BY <1>2, <1>3 DEF IInv, TypeOK
<1>6. CASE ~MayEnter(c, p)
  <2>1. store' = [store EXCEPT ![p] = current] /\ Rejected(c)
    BY <1>2, <1>6
  <2>2. /\ store' \in [Identities -> Profile \cup {None}]
        /\ \A q \in Identities : store[q] # None => store'[q] # None
    BY <1>4, <2>1, NoneIsNoRecord DEF IInv, TypeOK
  <2>3. Forget(c) /\ open' \subseteq Connections
    BY <2>1 DEF Rejected, IInv, TypeOK
  <2> QED
    BY <1>1, <1>5, <2>2, <2>3, ForgetStep
<1>7. CASE MayEnter(c, p)
  <2>1. PICK token \in (IF rotate THEN NewTokens(p) ELSE {current.token}) :
            LET profile == [current EXCEPT !.token = token,
                                           !.name = pending[c].name,
                                           !.edited = @ \/ renamed]
            IN  /\ store' = [store EXCEPT ![p] = profile]
                /\ Accept(c, p, profile)
                /\ open' = open
    BY <1>2, <1>7
  <2> DEFINE profile == [current EXCEPT !.token = token,
                                        !.name = pending[c].name,
                                        !.edited = @ \/ renamed]
  <2>2. /\ store' = [store EXCEPT ![p] = profile]
        /\ Accept(c, p, profile)
        /\ open' = open
    BY <2>1
  <2>3. profile \in Profile
    <3>1. token \in Tokens
      BY <1>4 DEF NewTokens, Profile
    <3>2. pending[c].name \in Names
      BY <1>1 DEF IInv, Bootstrap
    <3> HIDE DEF current
    <3> QED
      BY <1>4, <3>1, <3>2 DEF Profile
  <2>4. ~InUse(c, p) /\ (p \notin Players => ReservedSlots(c) < MaxPlayers)
    BY <1>7 DEF MayEnter
  <2> HIDE DEF profile
  <2> QED
    BY <1>1, <1>5, <2>2, <2>3, <2>4, AcceptStep
<1> QED
  BY <1>6, <1>7

LEMMA WorldReadyStep ==
    ASSUME IInv, NEW c \in Connections, WorldReady(c)
    PROVE  IInv'
<1> DEFINE p == pending[c].id
           first == pending[c].initializer
           profile == [pending[c].persisted EXCEPT !.placed = @ \/ first]
           rest == [pending EXCEPT ![c] = None]
           next == IF first THEN None ELSE initializer
<1>1. /\ pending[c] # None /\ pending[c] \in Pending
      /\ c \in Authenticated
      /\ p \in Identities /\ pending[c].persisted \in Profile
      /\ first \in BOOLEAN
  <2>1. /\ pending[c] # None
        /\ pending[c].stage \in {"waiting_for_initializer", "loading_world"}
    BY DEF WorldReady
  <2>2. pending[c] \in Pending
    BY <2>1 DEF IInv, TypeOK
  <2>3. p # None /\ pending[c].persisted # None
    BY <2>1 DEF IInv, Bootstrap
  <2> QED
    BY <2>1, <2>2, <2>3 DEF Pending, Authenticated
<1>2. profile \in Profile
  BY <1>1 DEF Profile
<1>3. /\ spawnValid' = (spawnValid \/ first)
      /\ store' = IF first THEN [store EXCEPT ![p] = profile] ELSE store
      /\ session' = [session EXCEPT ![p] =
                        [connection |-> c, profile |-> profile]]
      /\ WakeWaiters(rest, next, spawnValid')
      /\ UNCHANGED <<open, dummies, claims, owned>>
  BY DEF WorldReady
<1>4. initializer = c <=> first
  BY <1>1 DEF IInv, Bootstrap
<1>5. Bootstrap(rest, next, spawnValid')
  <2>1. Bootstrap(rest, IF initializer = c THEN None ELSE initializer, spawnValid)
    BY ForgettingKeepsBootstrap
  <2>2. next = IF initializer = c THEN None ELSE initializer
    BY <1>4
  <2> HIDE DEF rest, next, first, profile
  <2>3. Bootstrap(rest, next, spawnValid)
    BY <2>1, <2>2
  <2>4. CASE first
    <3>1. next = None /\ spawnValid' = TRUE
      BY <1>3, <2>4 DEF next
    <3> QED
      BY <2>3, <3>1, NoneIsNobody DEF Bootstrap
  <2>5. CASE ~first
    <3>1. spawnValid' = spawnValid
      BY <1>3, <2>5 DEF IInv, TypeOK
    <3> QED
      BY <2>3, <3>1
  <2> QED
    BY <2>4, <2>5
<1>6. spawnValid' \in BOOLEAN
  BY <1>1, <1>3 DEF IInv, TypeOK
<1>7. /\ rest[c] = None
      /\ \A d \in Connections : rest[d] # None => rest[d] = pending[d] /\ d # c
  BY DEF IInv, TypeOK
<1>8. [connection |-> c, profile |-> profile] \in PlayerSession
  BY <1>2 DEF PlayerSession
<1> HIDE DEF first, profile, rest, next
<1>9. /\ Bootstrap(pending', initializer', spawnValid')
      /\ Waiting(pending', initializer', spawnValid')
      /\ \A d \in Connections : pending'[d] # None =>
            d # c /\ pending[d] # None /\ pending'[d].id = pending[d].id
  BY <1>3, <1>5, <1>6, <1>7, WakingKeepsBootstrap
<1>10. /\ session' \in [Identities -> PlayerSession \cup {None}]
       /\ session'[p] # None /\ session'[p].connection = c
       /\ \A q \in Identities \ {p} : session'[q] = session[q]
       /\ store' \in [Identities -> Profile \cup {None}]
       /\ \A q \in Identities : store[q] # None => store'[q] # None
  BY <1>1, <1>2, <1>3, <1>8, NoneIsNoRecord DEF IInv, TypeOK
<1>11. /\ TypeOK'
       /\ IdentityHeldOnce' /\ HoldersAreStored' /\ SlotsRespected' => IInv'
  BY <1>3, <1>6, <1>9, <1>10, StepEnds DEF IInv, TypeOK
<1>12. /\ Authenticated' \subseteq Authenticated \ {c}
       /\ \A d \in Authenticated' : pending'[d].id = pending[d].id
       /\ \A d \in Authenticated' : pending[d].id \in Identities \ {p}
  <2>1. /\ Authenticated' \subseteq Authenticated \ {c}
        /\ \A d \in Authenticated' : pending'[d].id = pending[d].id
    BY <1>9 DEF Authenticated
  <2>2. \A d \in Authenticated : pending[d].id \in Identities
    BY DEF Authenticated, IInv, TypeOK, Pending
  <2>3. \A d \in Authenticated \ {c} : pending[d].id # p
    BY <1>1 DEF IInv, IdentityHeldOnce
  <2> QED
    BY <2>1, <2>2, <2>3
<1>13. /\ Players' = Players \cup {p}
       /\ \A q \in Identities \ {p} : Connected(q)' <=> Connected(q)
       /\ \A q \in Players : q \in Identities
  BY <1>1, <1>10 DEF Players, Connected
<1>14. IdentityHeldOnce'
  <2>1. ASSUME NEW d \in Authenticated'
        PROVE  /\ ~Connected(pending[d].id)'
               /\ \A e \in Authenticated' :
                    pending'[d].id = pending'[e].id => d = e
    <3>1. ~Connected(pending[d].id)
      BY <1>12 DEF IInv, IdentityHeldOnce
    <3>2. pending'[d].id = pending[d].id /\ pending[d].id \in Identities \ {p}
      BY <1>12
    <3>3. session'[pending'[d].id] = session[pending[d].id]
      BY <1>10, <3>2
    <3>4. ~Connected(pending[d].id)'
      BY <3>1, <3>3 DEF Connected
    <3> QED
      BY <1>12, <3>4 DEF IInv, IdentityHeldOnce
  <2>2. \A q \in Players : Connected(q) => session[q].connection # c
    BY <1>1 DEF IInv, IdentityHeldOnce
  <2>3. ASSUME NEW q \in Players', NEW r \in Players', Connected(q)',
               session'[q].connection = session'[r].connection
        PROVE  q = r
    <3>1. session'[q].connection # None /\ session'[r].connection # None
      BY <2>3 DEF Connected
    <3>2. CASE q # p /\ r # p
      BY <1>10, <1>13, <2>3, <3>2 DEF IInv, IdentityHeldOnce
    <3>3. CASE q = p /\ r # p
      <4>1. r \in Players /\ session'[r] = session[r]
        BY <1>10, <1>13, <3>3
      <4> QED
        BY <1>10, <2>2, <2>3, <3>1, <3>3, <4>1 DEF Connected, Players
    <3>4. CASE q # p /\ r = p
      <4>1. q \in Players /\ session'[q] = session[q]
        BY <1>10, <1>13, <3>4
      <4> QED
        BY <1>10, <2>2, <2>3, <3>1, <3>4, <4>1 DEF Connected, Players
    <3> QED
      BY <3>2, <3>3, <3>4
  <2>4. ASSUME NEW q \in Players', Connected(q)'
        PROVE  pending'[session'[q].connection] = None
    <3>1. CASE q = p
      BY <1>9, <1>10, <3>1
    <3>2. CASE q # p
      <4>1. q \in Players /\ Connected(q) /\ session'[q] = session[q]
        BY <1>10, <1>13, <2>4, <3>2
      <4>2. /\ pending[session[q].connection] = None
            /\ session[q].connection \in Connections
        BY <4>1, PlayerTyped DEF Connected, IInv, IdentityHeldOnce
      <4> QED
        BY <1>9, <4>1, <4>2
    <3> QED
      BY <3>1, <3>2
  <2> QED
    BY <2>1, <2>3, <2>4 DEF IdentityHeldOnce
<1>15. HoldersAreStored'
  <2>1. store[p] # None /\ \A q \in Players : store[q] # None
    BY <1>1 DEF IInv, HoldersAreStored
  <2>2. \A d \in Authenticated' : store[pending'[d].id] # None
    BY <1>12 DEF IInv, HoldersAreStored
  <2> QED
    BY <1>1, <1>10, <1>12, <1>13, <2>1, <2>2 DEF HoldersAreStored
<1>16. SlotsRespected'
  <2>1. Holders' \subseteq Holders
    BY <1>1, <1>12, <1>13 DEF Holders
  <2>2. /\ Cardinality(Holders') <= Cardinality(Holders)
        /\ Cardinality(Holders') \in Nat /\ Cardinality(Holders) \in Nat
    BY <2>1, HoldersAreFinite, FS_Subset, FS_CardinalityType DEF IInv
  <2>3. dummies \in Nat /\ dummies' = dummies /\ MaxPlayers \in Nat
    BY <1>3, DummyBoundIsNatural, CapacityIsPositive DEF IInv, TypeOK
  <2> QED
    BY <2>2, <2>3 DEF IInv, SlotsRespected, Holders
<1> QED
  BY <1>11, <1>14, <1>15, <1>16

LEMMA NextIInv == IInv /\ [Next]_vars => IInv'
<1> SUFFICES ASSUME IInv, [Next]_vars PROVE IInv'
  OBVIOUS
<1>1. ASSUME NEW c \in Connections, Connect(c) PROVE IInv'
  BY <1>1, ConnectStep
<1>2. ASSUME NEW c \in Connections,
             DisconnectPending(c) \/ Refuse(c) \/ ExpirePending(c)
      PROVE  IInv'
  <2>1. /\ Forget(c) /\ open' \subseteq Connections
        /\ UNCHANGED <<session, dummies, store, spawnValid, claims, owned>>
    BY <1>2 DEF DisconnectPending, Refuse, ExpirePending, Rejected, IInv, TypeOK
  <2> QED
    BY <2>1, ForgetStep DEF IInv, TypeOK
<1>3. ASSUME NEW c \in Connections, NEW name \in Names, Hello(c, name) PROVE IInv'
  BY <1>3, HelloStep
<1>4. ASSUME NEW c \in Connections, NEW p \in Identities, Enroll(c, p) PROVE IInv'
  BY <1>4, EnrollStep
<1>5. ASSUME NEW c \in Connections, NEW p \in Identities,
             NEW rotate \in BOOLEAN, Identify(c, p, rotate)
      PROVE  IInv'
  BY <1>5, IdentifyStep
<1>6. ASSUME NEW c \in Connections, WorldReady(c) PROVE IInv'
  BY <1>6, WorldReadyStep
<1>7. ASSUME NEW p \in Identities, NEW allowReconnect \in BOOLEAN,
             DisconnectPlayer(p, allowReconnect)
      PROVE  IInv'
  BY <1>7, DisconnectPlayerStep
<1>8. ASSUME NEW p \in Identities, UpdateProfile(p) \/ Move(p) PROVE IInv'
  BY <1>8, UpdateProfileStep, MoveStep
<1>9. ASSUME NEW p \in Identities, RefusePlayer(p) PROVE IInv'
  <2>1. session[p].connection \in Connections
    BY <1>9, PlayerTyped DEF RefusePlayer, Connected, Players
  <2>2. /\ Forget(session[p].connection) /\ open' \subseteq Connections
        /\ UNCHANGED <<session, dummies, store, spawnValid, claims, owned>>
    BY <1>9 DEF RefusePlayer, Rejected, IInv, TypeOK
  <2> QED
    BY <2>1, <2>2, ForgetStep DEF IInv, TypeOK
<1>10. ASSUME NEW p \in Identities, PersistSession(p) PROVE IInv'
  BY <1>10, PersistSessionStep
<1>11. ASSUME NEW p \in Identities, ExpireGrace(p) \/ IdleOut(p) \/ Kick(p)
       PROVE  IInv'
  <2>1. p \in Players /\ RemovePlayer(p)
    BY <1>11 DEF ExpireGrace, IdleOut, Kick, Connected, Players
  <2> QED
    BY <2>1, RemovePlayerStep
<1>12. ASSUME NEW p \in Identities, ExpireClaim(p) \/ CreateClaim(p) PROVE IInv'
  BY <1>12, ClaimStep DEF ExpireClaim, CreateClaim, IInv, TypeOK
<1>13. ASSUME SpawnDummy \/ RemoveDummy PROVE IInv'
  BY <1>13, SpawnDummyStep, RemoveDummyStep
<1>14. ASSUME NEW orderly \in BOOLEAN, Restart(orderly) PROVE IInv'
  BY <1>14, RestartStep
<1>15. CASE UNCHANGED vars
  BY <1>15 DEF vars, IInv, TypeOK, Bootstrap, Waiting, Waiters, IdentityHeldOnce,
        HoldersAreStored, SlotsRespected, Authenticated, Connected, Players
<1> QED
  BY <1>1, <1>2, <1>3, <1>4, <1>5, <1>6, <1>7, <1>8, <1>9, <1>10, <1>11, <1>12,
     <1>13, <1>14, <1>15 DEF Next, Clients, Tick, Administrator

LEMMA Invariance == Spec => []IInv
BY InitIInv, NextIInv, PTL DEF Spec

---------------------------------------------------------------------------
(* The theorems.                                                           *)

\* The variables have their types, whichever messages, losses and restarts
\* come in whichever order.
THEOREM TypeCorrect == Spec => []TypeOK
<1>1. IInv => TypeOK
  BY DEF IInv
<1> QED
  BY <1>1, Invariance, PTL

\* At most one client at a time has the role to create the world, the pending
\* entry and m_initializer agree on who, and nobody has it once a spawn exists.
THEOREM InitializerIsUnique == Spec => []OneInitializer
<1>1. IInv => OneInitializer
  BY DEF IInv, Bootstrap, OneInitializer
<1> QED
  BY <1>1, Invariance, PTL

\* However the initializer went, a client that waits has another to wait for.
THEOREM NobodyWaitsInVain == Spec => []WaitersHaveInitializer
<1>1. IInv => WaitersHaveInitializer
  BY DEF IInv, Waiting, WaitersHaveInitializer
<1> QED
  BY <1>1, Invariance, PTL

\* An identity is never loaded twice, nor loaded beside its connected session.
THEOREM IdentitiesAreHeldOnce == Spec => []IdentityHeldOnce
<1>1. IInv => IdentityHeldOnce
  BY DEF IInv
<1> QED
  BY <1>1, Invariance, PTL

\* The server never has more players, dummies and players about to enter than
\* max_players.
THEOREM CapacityIsKept == Spec => []SlotsRespected
<1>1. IInv => SlotsRespected
  BY DEF IInv
<1> QED
  BY <1>1, Invariance, PTL

\* The session of a connected player ends or enters its grace before another
\* connection can have it.
THEOREM SessionsAreNotTakenOver == Spec => NoTakeover
<1> DEFINE Kept == \A p \in Identities : Connected(p) =>
            session'[p] = None
            \/ session'[p].connection \in {None, session[p].connection}
<1>1. IInv /\ [Next]_vars => [Kept]_vars
  <2> SUFFICES ASSUME IInv, Next, NEW p \in Identities, Connected(p)
               PROVE  session'[p] = None
                      \/ session'[p].connection \in {None, session[p].connection}
    BY DEF vars
  <2>1. p \in Players /\ session \in [Identities -> PlayerSession \cup {None}]
    BY DEF Connected, Players, IInv, TypeOK
  <2>2. ASSUME NEW c \in Connections, WorldReady(c)
        PROVE  session'[p] = session[p]
    <3>1. pending[c] # None /\ pending[c].id # None
      BY <2>2 DEF WorldReady, IInv, Bootstrap
    <3>2. ~Connected(pending[c].id)
      BY <3>1 DEF IInv, IdentityHeldOnce, Authenticated
    <3>3. session' = [session EXCEPT ![pending[c].id] = session'[pending[c].id]]
      BY <2>1, <2>2 DEF WorldReady
    <3> QED
      BY <2>1, <3>2, <3>3
  <2>3. ASSUME NEW q \in Identities, NEW allowReconnect \in BOOLEAN,
               DisconnectPlayer(q, allowReconnect)
        PROVE  session'[p] \in {None, session[p]}
               \/ session'[p].connection = None
    BY <2>1, <2>3 DEF DisconnectPlayer
  <2>4. ASSUME NEW q \in Identities, UpdateProfile(q) \/ Move(q)
        PROVE  session'[p].connection = session[p].connection
    BY <2>1, <2>4, PlayerTyped DEF UpdateProfile, Move, PlayerSession
  <2>5. ASSUME NEW q \in Identities, ExpireGrace(q) \/ IdleOut(q) \/ Kick(q)
        PROVE  session'[p] \in {None, session[p]}
    BY <2>1, <2>5 DEF ExpireGrace, IdleOut, Kick, RemovePlayer
  <2>6. ASSUME NEW orderly \in BOOLEAN, Restart(orderly)
        PROVE  session'[p] = None
    BY <2>6 DEF Restart
  <2>7. ASSUME NEW c \in Connections,
               \/ Connect(c) \/ DisconnectPending(c) \/ Refuse(c)
               \/ ExpirePending(c)
               \/ \E name \in Names : Hello(c, name)
               \/ \E q \in Identities : Enroll(c, q)
               \/ \E q \in Identities, rotate \in BOOLEAN : Identify(c, q, rotate)
        PROVE  session' = session
    BY <2>7 DEF Connect, DisconnectPending, Refuse, ExpirePending, Hello, Enroll,
                Identify
  <2>8. ASSUME NEW q \in Identities,
               RefusePlayer(q) \/ PersistSession(q) \/ ExpireClaim(q)
               \/ CreateClaim(q)
        PROVE  session' = session
    BY <2>8 DEF RefusePlayer, PersistSession, ExpireClaim, CreateClaim
  <2>9. ASSUME SpawnDummy \/ RemoveDummy PROVE session' = session
    BY <2>9 DEF SpawnDummy, RemoveDummy
  <2> QED
    BY <2>2, <2>3, <2>4, <2>5, <2>6, <2>7, <2>8, <2>9
       DEF Next, Clients, Tick, Administrator
<1> QED
  BY <1>1, Invariance, PTL DEF Spec, NoTakeover
============================================================================

------------------------------ MODULE Session ------------------------------
(***************************************************************************)
(* Who is on the server: the connections that still authenticate and load  *)
(* (m_pending), the sessions (m_players), the one client that may create   *)
(* the world (m_initializer), stored identities, recovery codes, and the   *)
(* part of the item ledger the authentication handler rewrites             *)
(* (server_core.cpp, world_store.cpp, the callbacks of networking.cpp).    *)
(*                                                                         *)
(* Time: a deadline may pass at any moment after it was set.  One tick     *)
(* checks every deadline in turn; here each passed deadline is a step, as  *)
(* any selection of them may be the ones a tick finds passed.              *)
(*                                                                         *)
(* Data: a token, a name and a set of starter items are values of a small  *)
(* set.  A new token or a new set of items is one the player has nowhere.  *)
(* Connection ids are used again once the server knows nothing of them.    *)
(***************************************************************************)
EXTENDS FiniteSets, Integers

CONSTANTS
    Connections,
    Identities,  \* player ids
    Tokens,      \* identity tokens and their hashes
    Names,       \* display names, in lower case
    Starters,    \* starter inventories, each with item UUIDs of its own
    MaxPlayers,  \* config.max_players
    MaxDummies,  \* bound on the dummies an administrator spawns
    None

ASSUME CapacityIsPositive == MaxPlayers \in Nat \ {0}
ASSUME DummyBoundIsNatural == MaxDummies \in Nat
ASSUME NoneIsNobody == None \notin Connections \cup Identities
ASSUME FinitelyMany == IsFiniteSet(Connections) /\ IsFiniteSet(Identities)

\* The parts of a stored profile that authentication reads or writes; edited:
\* the revision is past 1, placed: transform_valid.
Profile == [token: Tokens, name: Names, items: Starters,
            edited: BOOLEAN, placed: BOOLEAN]

Stages == {"hello", "authenticate", "waiting_for_initializer", "loading_world"}

\* An entry of m_pending; id and persisted are None before authentication.
Pending == [stage: Stages, name: Names \cup {None}, id: Identities \cup {None},
            persisted: Profile \cup {None}, initializer: BOOLEAN]

\* An entry of m_players; connection is None during the reconnect grace.
PlayerSession == [connection: Connections \cup {None}, profile: Profile]

ASSUME NoneIsNoRecord == None \notin Profile \cup Pending \cup PlayerSession

VARIABLES
    open,         \* connections whose transport is open
    pending,      \* m_pending
    session,      \* m_players, without the dummies
    dummies,      \* how many of m_players are dummies
    initializer,  \* m_initializer
    store,        \* the profiles of the store, in memory and on disk
    spawnValid,   \* manifest.spawn_valid
    claims,       \* players with a recovery code
    owned         \* the starter items the ledger has for a player

vars == <<open, pending, session, dummies, initializer, store, spawnValid,
          claims, owned>>

TypeOK ==
    /\ open \subseteq Connections
    /\ pending \in [Connections -> Pending \cup {None}]
    /\ session \in [Identities -> PlayerSession \cup {None}]
    /\ dummies \in 0..MaxDummies
    /\ initializer \in Connections \cup {None}
    /\ store \in [Identities -> Profile \cup {None}]
    /\ spawnValid \in BOOLEAN
    /\ claims \subseteq Identities
    /\ owned \in [Identities -> Starters \cup {None}]

Init ==
    /\ open = {}
    /\ pending = [c \in Connections |-> None]
    /\ session = [p \in Identities |-> None]
    /\ dummies = 0
    /\ initializer = None
    /\ store = [p \in Identities |-> None]
    /\ spawnValid = FALSE
    /\ claims = {}
    /\ owned = [p \in Identities |-> None]

---------------------------------------------------------------------------
Authenticated == {c \in Connections : pending[c] # None /\ pending[c].id # None}

Players == {p \in Identities : session[p] # None}

Connected(p) == session[p] # None /\ session[p].connection # None

PlayerOf(c) == {p \in Players : session[p].connection = c}

Known(c) == pending[c] # None \/ PlayerOf(c) # {}

\* reserved_slots as the connection c counts it: sessions, dummies and the
\* other connections that have authenticated.
ReservedSlots(c) ==
    Cardinality(Players) + dummies + Cardinality(Authenticated \ {c})

Waiters(p) == {c \in Connections :
                p[c] # None /\ p[c].stage = "waiting_for_initializer"}

\* wake_bootstrap_waiters: with a spawn every waiter loads the world; without
\* one and without an initializer one of the waiters becomes it.  `rest` and
\* `first` are m_pending and m_initializer as the caller left them.
WakeWaiters(rest, first, valid) ==
    IF valid
    THEN /\ pending' = [c \in Connections |->
                IF c \in Waiters(rest)
                THEN [rest[c] EXCEPT !.stage = "loading_world"] ELSE rest[c]]
         /\ initializer' = first
    ELSE IF first # None \/ Waiters(rest) = {}
    THEN pending' = rest /\ initializer' = first
    ELSE \E c \in Waiters(rest) :
            /\ pending' = [rest EXCEPT ![c].stage = "loading_world",
                                       ![c].initializer = TRUE]
            /\ initializer' = c

\* Mutants: nobody is woken; the one that leaves keeps the initializer's role.
ForgetQuietly(c) ==
    /\ pending' = [pending EXCEPT ![c] = None]
    /\ initializer' = IF initializer = c THEN None ELSE initializer

ForgetKeepingRole(c) ==
    WakeWaiters([pending EXCEPT ![c] = None], initializer, spawnValid)

\* release_initializer, the erasure of the entry, and the waking.
Forget(c) ==
    WakeWaiters([pending EXCEPT ![c] = None],
                IF initializer = c THEN None ELSE initializer, spawnValid)

\* reject: whoever is rejected is forgotten and its connection closed.  The
\* session of a connected player stays: the transport reports no close of its
\* own making.
Rejected(c) == Forget(c) /\ open' = open \ {c}

\* persist_player writes the session's copy over the stored profile, token
\* and name included.
Persisted(p) == [store EXCEPT ![p] = session[p].profile]
---------------------------------------------------------------------------
(* Transport events.                                                       *)

Connect(c) ==
    /\ c \notin open
    /\ ~Known(c)
    /\ open' = open \cup {c}
    /\ pending' = [pending EXCEPT ![c] =
                    [stage |-> "hello", name |-> None, id |-> None,
                     persisted |-> None, initializer |-> FALSE]]
    /\ UNCHANGED <<session, dummies, initializer, store, spawnValid, claims,
                   owned>>

DisconnectPending(c) ==
    /\ c \in open
    /\ pending[c] # None
    /\ Forget(c)
    /\ open' = open \ {c}
    /\ UNCHANGED <<session, dummies, store, spawnValid, claims, owned>>

\* The peer of a session is lost (allow_reconnect), which starts the grace, or
\* says goodbye.
DisconnectPlayer(p, allowReconnect) ==
    /\ Connected(p)
    /\ session[p].connection \in open
    /\ open' = open \ {session[p].connection}
    /\ store' = Persisted(p)
    /\ session' = [session EXCEPT ![p] =
                    IF allowReconnect
                    THEN [connection |-> None, profile |-> session[p].profile]
                    ELSE None]
    /\ UNCHANGED <<pending, dummies, initializer, spawnValid, claims, owned>>

---------------------------------------------------------------------------
(* Messages of a connection that has no session yet.                       *)

Hello(c, name) ==
    /\ c \in open
    /\ pending[c] # None
    /\ pending[c].stage = "hello"
    /\ pending' = [pending EXCEPT ![c].name = name,
                                  ![c].stage = "authenticate"]
    /\ UNCHANGED <<open, session, dummies, initializer, store, spawnValid,
                   claims, owned>>

\* Anything the stage does not allow, a refused hello or credential, a failed
\* or unacceptable bootstrap.
Refuse(c) ==
    /\ c \in open
    /\ pending[c] # None
    /\ Rejected(c)
    /\ UNCHANGED <<session, dummies, store, spawnValid, claims, owned>>

\* Mutant: the credentials are taken before the hello.
AuthenticatesAtHello(c) == c \in open /\ pending[c] # None

Authenticates(c) ==
    /\ c \in open
    /\ pending[c] # None
    /\ pending[c].stage = "authenticate"

\* The end of handle_authenticate: the profile is accepted for connection c,
\* which loads the world, creates it or waits.
Accept(c, p, profile) ==
    LET admitted == [pending[c] EXCEPT !.id = p, !.persisted = profile]
    IN  IF spawnValid
        THEN /\ pending' = [pending EXCEPT ![c] =
                    [admitted EXCEPT !.stage = "loading_world"]]
             /\ initializer' = initializer
        ELSE IF initializer = None
        THEN /\ pending' = [pending EXCEPT ![c] =
                    [admitted EXCEPT !.stage = "loading_world",
                                     !.initializer = TRUE]]
             /\ initializer' = c
        ELSE /\ pending' = [pending EXCEPT ![c] =
                    [admitted EXCEPT !.stage = "waiting_for_initializer"]]
             /\ initializer' = initializer

\* A token is known by its player and a value: only p's own are compared.
NewTokens(p) ==
    {t \in Tokens :
        /\ store[p] # None => t # store[p].token
        /\ session[p] # None => t # session[p].profile.token
        /\ \A c \in Authenticated :
            pending[c].id = p => t # pending[c].persisted.token}

NewStarters(p) ==
    {s \in Starters :
        /\ s # owned[p]
        /\ store[p] # None => s # store[p].items
        /\ session[p] # None => s # session[p].profile.items
        /\ \A c \in Authenticated :
            pending[c].id = p => s # pending[c].persisted.items}

\* Enrolment: a new id, starter items and a token.  Only the stored names are
\* compared.
Enroll(c, p) ==
    /\ Authenticates(c)
    /\ store[p] = None
    /\ ReservedSlots(c) < MaxPlayers
    /\ \A q \in Identities :
        store[q] # None => store[q].name # pending[c].name
    /\ \E token \in NewTokens(p), items \in Starters :
        LET profile == [token |-> token, name |-> pending[c].name,
                        items |-> items, edited |-> FALSE,
                        placed |-> spawnValid]
        IN  /\ store' = [store EXCEPT ![p] = profile]
            /\ owned' = [owned EXCEPT ![p] = items]
            /\ Accept(c, p, profile)
    /\ UNCHANGED <<open, session, dummies, spawnValid, claims>>

\* A profile that nothing has touched is built again from the starter
\* template as long as no world exists, before the identity is known to be
\* free.
MustRefresh(p) == ~spawnValid /\ ~store[p].edited /\ ~store[p].placed

\* Mutant: a connected session does not count.
InUseByPending(c, p) == \E d \in Authenticated \ {c} : pending[d].id = p

InUse(c, p) ==
    \/ Connected(p)
    \/ \E d \in Authenticated \ {c} : pending[d].id = p

NameTaken(c, p) ==
    LET name == pending[c].name
    IN  /\ name # store[p].name
        /\ \/ \E q \in Identities \ {p} :
                \/ store[q] # None /\ store[q].name = name
                \/ session[q] # None /\ session[q].profile.name = name
           \/ \E d \in Authenticated \ {c} :
                pending[d].id # p /\ pending[d].name = name

\* Mutants: a full server takes another player; only a session holds an
\* identity.
MayEnterUnchecked(c, p) == ~NameTaken(c, p) /\ ~InUse(c, p)

MayEnterBesidePending(c, p) ==
    /\ p \notin Players => ReservedSlots(c) < MaxPlayers
    /\ ~Connected(p)
    /\ ~NameTaken(c, p)

MayEnter(c, p) ==
    /\ p \notin Players => ReservedSlots(c) < MaxPlayers
    /\ ~InUse(c, p)
    /\ ~NameTaken(c, p)

\* A stored identity, proved by its token or by a recovery code (rotate); the
\* code is used up and the items refreshed even if the player is then refused.
Identify(c, p, rotate) ==
    /\ Authenticates(c)
    /\ store[p] # None
    /\ rotate => p \in claims
    /\ claims' = IF rotate THEN claims \ {p} ELSE claims
    /\ \E items \in (IF MustRefresh(p) THEN NewStarters(p)
                     ELSE {store[p].items}) :
        LET current == [store[p] EXCEPT !.items = items]
            renamed == pending[c].name # current.name
        IN  /\ owned' = [owned EXCEPT ![p] = items]
            /\ IF ~MayEnter(c, p)
               THEN /\ store' = [store EXCEPT ![p] = current]
                    /\ Rejected(c)
               ELSE \E token \in (IF rotate THEN NewTokens(p)
                                  ELSE {current.token}) :
                    LET profile == [current EXCEPT
                                        !.token = token,
                                        !.name = pending[c].name,
                                        !.edited = @ \/ renamed]
                    IN  /\ store' = [store EXCEPT ![p] = profile]
                        /\ Accept(c, p, profile)
                        /\ open' = open
    /\ UNCHANGED <<session, dummies, spawnValid>>

\* ClientWorldReady of this session's manifest.  The initializer's one also
\* sets the spawn.
WorldReady(c) ==
    /\ c \in open
    /\ pending[c] # None
    /\ pending[c].stage \in {"waiting_for_initializer", "loading_world"}
    /\ LET p == pending[c].id
           first == pending[c].initializer
           profile == [pending[c].persisted EXCEPT !.placed = @ \/ first]
       IN  /\ spawnValid' = (spawnValid \/ first)
           /\ store' = IF first THEN [store EXCEPT ![p] = profile] ELSE store
           /\ session' = [session EXCEPT ![p] =
                            [connection |-> c, profile |-> profile]]
           /\ WakeWaiters([pending EXCEPT ![c] = None],
                          IF first THEN None ELSE initializer, spawnValid')
    /\ UNCHANGED <<open, dummies, claims, owned>>

---------------------------------------------------------------------------
(* Messages of a player.                                                   *)

\* An accepted profile update: the ledger has the items of the profile.
UpdateProfile(p) ==
    /\ Connected(p)
    /\ session[p].connection \in open
    /\ session[p].profile.items = owned[p]
    /\ session' = [session EXCEPT ![p].profile.edited = TRUE]
    /\ store' = [store EXCEPT ![p] = session'[p].profile]
    /\ UNCHANGED <<open, pending, dummies, initializer, spawnValid, claims,
                   owned>>

Move(p) ==
    /\ Connected(p)
    /\ session[p].connection \in open
    /\ session' = [session EXCEPT ![p].profile.placed = TRUE]
    /\ UNCHANGED <<open, pending, dummies, initializer, store, spawnValid,
                   claims, owned>>

\* A message that is malformed or of the wrong stage closes the connection.
RefusePlayer(p) ==
    /\ Connected(p)
    /\ session[p].connection \in open
    /\ Rejected(session[p].connection)
    /\ UNCHANGED <<session, dummies, store, spawnValid, claims, owned>>

---------------------------------------------------------------------------
(* The tick.                                                               *)

ExpirePending(c) ==
    /\ pending[c] # None
    /\ Rejected(c)
    /\ UNCHANGED <<session, dummies, store, spawnValid, claims, owned>>

\* Every five seconds, during the grace too.
PersistSession(p) ==
    /\ p \in Players
    /\ session[p].profile.placed
    /\ store' = Persisted(p)
    /\ UNCHANGED <<open, pending, session, dummies, initializer, spawnValid,
                   claims, owned>>

RemovePlayer(p) ==
    /\ store' = Persisted(p)
    /\ session' = [session EXCEPT ![p] = None]
    /\ open' = open \ {session[p].connection}
    /\ UNCHANGED <<pending, dummies, initializer, spawnValid, claims, owned>>

ExpireGrace(p) == p \in Players /\ ~Connected(p) /\ RemovePlayer(p)

\* Mutant: a silent player is only removed while its transport is open.
IdleOutOpen(p) ==
    Connected(p) /\ session[p].connection \in open /\ RemovePlayer(p)

IdleOut(p) == Connected(p) /\ RemovePlayer(p)

ExpireClaim(p) ==
    /\ p \in claims
    /\ claims' = claims \ {p}
    /\ UNCHANGED <<open, pending, session, dummies, initializer, store,
                   spawnValid, owned>>

---------------------------------------------------------------------------
(* The administrator's commands, and the end of the process.               *)

Kick(p) == p \in Players /\ RemovePlayer(p)

CreateClaim(p) ==
    /\ store[p] # None
    /\ claims' = claims \cup {p}
    /\ UNCHANGED <<open, pending, session, dummies, initializer, store,
                   spawnValid, owned>>

SpawnDummy ==
    /\ dummies < MaxDummies
    /\ ReservedSlots(None) < MaxPlayers
    /\ dummies' = dummies + 1
    /\ UNCHANGED <<open, pending, session, initializer, store, spawnValid,
                   claims, owned>>

RemoveDummy ==
    /\ dummies > 0
    /\ dummies' = dummies - 1
    /\ UNCHANGED <<open, pending, session, initializer, store, spawnValid,
                   claims, owned>>

\* The process ends, by shutdown (which persists every session) or by a
\* crash, and is started again on its files.
Restart(orderly) ==
    /\ store' = IF orderly
                THEN [p \in Identities |->
                        IF p \in Players THEN session[p].profile ELSE store[p]]
                ELSE store
    /\ owned' = [p \in Identities |->
                    IF store'[p] = None THEN None ELSE store'[p].items]
    /\ open' = {}
    /\ pending' = [c \in Connections |-> None]
    /\ session' = [p \in Identities |-> None]
    /\ dummies' = 0
    /\ initializer' = None
    /\ claims' = {}
    /\ UNCHANGED <<spawnValid>>

---------------------------------------------------------------------------
Clients ==
    \/ \E c \in Connections :
        \/ Connect(c)
        \/ DisconnectPending(c)
        \/ \E name \in Names : Hello(c, name)
        \/ Refuse(c)
        \/ \E p \in Identities :
            \/ Enroll(c, p)
            \/ \E rotate \in BOOLEAN : Identify(c, p, rotate)
        \/ WorldReady(c)
    \/ \E p \in Identities :
        \/ \E allowReconnect \in BOOLEAN : DisconnectPlayer(p, allowReconnect)
        \/ UpdateProfile(p)
        \/ Move(p)
        \/ RefusePlayer(p)

Tick ==
    \/ \E c \in Connections : ExpirePending(c)
    \/ \E p \in Identities :
        PersistSession(p) \/ ExpireGrace(p) \/ IdleOut(p) \/ ExpireClaim(p)

Administrator ==
    \/ \E p \in Identities : Kick(p) \/ CreateClaim(p)
    \/ SpawnDummy
    \/ RemoveDummy
    \/ \E orderly \in BOOLEAN : Restart(orderly)

Next == Clients \/ Tick \/ Administrator

\* The server loop ticks forever, no message sets a grace deadline back, and a
\* closed connection sends nothing that could postpone the idle timeout.
Fairness ==
    \A p \in Identities :
        /\ WF_vars(ExpireGrace(p))
        /\ WF_vars(/\ p \in Players
                   /\ session[p].connection \notin open
                   /\ IdleOut(p))

Spec == Init /\ [][Next]_vars

FairSpec == Spec /\ Fairness

---------------------------------------------------------------------------
(* Properties.                                                             *)

\* m_initializer and the initializer flags of m_pending name the same single
\* connection, only while no world exists: the spawn is set once, by one
\* client.
OneInitializer ==
    \A c \in Connections :
        /\ initializer = c <=> (pending[c] # None /\ pending[c].initializer)
        /\ initializer = c =>
            ~spawnValid /\ pending[c].stage = "loading_world"

\* Whoever waits for an initializer has one to wait for, whichever way the
\* last one went (handle_world_ready, reject, disconnect, tick).
WaitersHaveInitializer ==
    Waiters(pending) # {} => ~spawnValid /\ initializer # None

\* An identity is loaded by one connection at a time, and by none while it
\* has a connected session; a connection never is both pending and a player.
IdentityHeldOnce ==
    /\ \A c \in Authenticated :
        /\ ~Connected(pending[c].id)
        /\ \A d \in Authenticated : pending[c].id = pending[d].id => c = d
    /\ \A p, q \in Players :
        Connected(p) /\ session[p].connection = session[q].connection => p = q
    /\ \A p \in Players : Connected(p) => pending[session[p].connection] = None

\* Players, dummies and the players about to enter never exceed max_players,
\* although sessions in their grace are counted by reserved_slots and skipped
\* for the player who returns.
SlotsRespected ==
    Cardinality(Players \cup {pending[c].id : c \in Authenticated}) + dummies
        <= MaxPlayers

\* No client takes over the session of a connected player.
NoTakeover ==
    [][\A p \in Identities : Connected(p) =>
        session'[p] = None
        \/ session'[p].connection \in {None, session[p].connection}]_vars

\* A session without an open connection does not hold its slot and identity
\* forever: neither one in its grace nor one whose connection the server itself
\* closed, of which the transport never tells it (reject of a connected player).
AbandonedSessionsEnd ==
    \A p \in Identities :
        (p \in Players /\ session[p].connection \notin open)
            ~> (p \notin Players \/ session[p].connection \in open)
============================================================================

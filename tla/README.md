# Specifications of KCD2MP

KCD2MP turns a single-player game into a shared world: a plugin in every game
process (`src/src/kcse`, `src/src/multiplayer`) talks to one authoritative
server (`src/src/server`, `src/src/property`). This directory holds TLA+ models
of the parts whose correctness depends on order: who owns which item, who is in
which session, what players decide together, who simulates an NPC, how the
world reaches every client, who may do what on a property, and how a client
gets into a session and out of it again. TLC checks them on small instances;
TLAPS proves the invariants of the core for every instance.

## The system

| component | state it keeps | operations |
|---|---|---|
| item ledger (`server/item_ledger`) | for each item UUID its values and its one location | register, replace, move, split, merge, erase |
| item authority (`server/server_core`) | profiles, containers, world items, the ledger | profile, container and world-item updates; rebuilding the ledger at start |
| sessions (`server/server_core`) | pending connections with a stage, player sessions, the initializer, recovery codes | connect, hello, authenticate, world ready or failed, disconnect, tick, kick, dummies, shutdown |
| sleep, death, activities (`server/server_core`, `multiplayer/client`) | votes, dead flags, activities, station owners; the client's copy of each | the client's messages, the server's answers, the frame handler's decisions |
| world objects and items (`server/server_core`, `multiplayer/client`, `kcse/native_world_*_sync`) | states with revisions; a client's copies with one update in flight and one held back; observations of the game | update, accept, correct, broadcast, observe, apply |
| NPC registry (`server/npc_registry`) | NPC states, who sees which, the authority and its lease | observe, update, reconcile, remove a player, disable a kind |
| property roles (`property/service`) | role assignments, each with the one it was granted under | assign, grant, revoke with everything granted under it, authorize |
| client connection (`multiplayer/client`) | connection state, bootstrap, reconnect attempt, commands | connect, preflight, bootstrap, game tick, disconnect, reconnect |
| game command queue (`multiplayer/game_command_queue`) | a bounded queue between the network and the game thread | push, drain, clear |
| native runtime (`kcse/native_runtime`, `kcse/plugin`) | the start, the sandbox, the unload under way, the epoch, the save lock | prepare, begin, poll and end a sandbox; the frame handler |
| world store (`server/world_store`) | one file per profile, one each for containers, world items and roles, the manifest | atomic replacement of one file, loading all of them |
| transforms, avatars, chat, environment (`server/server_core`) | last pose, avatar, clock and weather | check, store, broadcast |
| profile reconciler (`multiplayer/profile_reconciler`) | none; drives a native inventory | capture, apply, verify, roll back |
| entity control, runtime handles (`multiplayer`) | hidden entities and what they were; slots with generations | disable, restore; allocate, release, new epoch |
| remote avatars, native backends (`kcse`) | native entities | engine calls per frame |
| GUI, Lua bindings, loader, signatures, catalogs, tools | presentation, addresses, tables | no protocol |

How they interact. The server process is one thread: `server_main.cpp` takes
network callbacks, console commands and ticks in turn, so each handler of
`server_core` runs alone, and what interleaves is handlers of different
players, ticks, lost connections, and a stop of the process between two file
writes. Messages of one connection arrive in order, but those of client and
server cross. A handler calls the ledger on a staged copy and then
`world_store`, which replaces one file at a time. An exception anywhere ends
the server (`server_main.cpp`, catch-all); `world_store` and the constructor of
`server_core` then decide whether it can start again.

A client has three threads. The user's thread calls `connect` and
`disconnect`; the network thread runs commands, the transport and its
callbacks; the game thread runs a frame: `on_frame` of the native runtime, the
client's tick, and the frame handler's end. They share the client's state under
`m_state_mutex` and two queues, commands to the network thread and messages to
the game thread. The client asks its runtime for a world and polls it; the
runtime drives an engine that the user drives as well.

What is hard: the files of one handler are not written together; transfers are
recognised from before/after inventories; identities can be pending, connected,
in a reconnect grace, or in two of these at once; a server-side close is never
reported back; votes and stations must survive deaths, losses and answers that
cross; an NPC's authority moves while updates under the old lease are on their
way; a client's change of an object crosses the changes of others; the game may
replace its world at any moment of a join, and a disconnect may come at any
moment of that. `PROJECT.json` lists each hazard at its line.

What makes each part correct: an item has one owner, transfers keep totals, a
stop of the server leaves files that load (items); one initializer, nobody
waits in vain, one holder of an identity, no slot given twice, no slot kept
forever (sessions); stations, votes and clients' copies agree once messages
have arrived (presence, world); one live lease for each NPC anybody sees
(registry); a role lives no longer than what it was granted under (property);
a session exists only in the world loaded for it, client and server are in
matching stages, and a join or a disconnect comes to an end (client).

## Modules

| module | models | builds on |
|---|---|---|
| `ItemLedger` | the map and operations of `item_ledger` | |
| `ProfileUpdate` | the four loops of `handle_profile_update`, and `SettledLedger`, `OwnershipAllows`: what they amount to | `ItemLedger` |
| `ProfileLoops` | one run of those loops, from any ledger and message | `ProfileUpdate` |
| `Ownership` | what players may expect of handlers, crashes and restarts | |
| `ItemAuthority` | the item handlers, files, crashes, restarts | `ProfileUpdate`, `Ownership` |
| `Session` | connections, stages, sessions, initializer, identities | |
| `Presence` | votes, death and respawn, stations: server, clients, streams | |
| `NpcRegistry` | interest, leases, reports and snapshots of NPCs: server, clients, streams | |
| `WorldSync` | the revisioned stream of one world object: server, clients, native side | |
| `PropertyRoles` | the role ledger, its commands, its file, home markers | |
| `Sandbox` | what the client may expect of its runtime | |
| `ClientConnection` | the three threads of a client, and the server's side of its connection | `Sandbox` |
| `NativeWorld` | the runtime that implements `Sandbox`, the frame and the engine | `Sandbox` |
| `ItemAuthorityProofs` | theorems about `ItemAuthority` and `ProfileLoops` | both, `FiniteSetTheorems`, `WellFoundedInduction`, `TLAPS` |
| `SessionProofs` | theorems about `Session` | `Session`, `FiniteSetTheorems`, `TLAPS` |
| `NpcRegistryProofs` | theorems about `NpcRegistry` | `NpcRegistry`, `SequenceTheorems`, `WellFoundedInduction`, `TLAPS` |
| `PropertyRolesProofs` | theorems about `PropertyRoles` | `PropertyRoles`, `TLAPS` |
| `NativeWorldProofs` | theorems about `NativeWorld` | `NativeWorld`, `TLAPS` |
| `PresenceProofs` | theorems about `Presence` | `Presence`, `FiniteSetTheorems`, `SequenceTheorems`, `TLAPS` |
| `WorldSyncProofs` | theorems about `WorldSync` | `WorldSync`, `FiniteSetTheorems`, `SequenceTheorems`, `TLAPS` |
| `ClientConnectionProofs` | theorems about `ClientConnection` | `ClientConnection`, `TLAPS` |
| `MCProfileUpdate`, `MCItemAuthority`, `MCSession`, `MCPresence`, `MCNpcRegistry`, `MCWorldSync`, `MCPropertyRoles`, `MCClientConnection`, `MCNativeWorld` | instances for TLC: symmetry, the worlds and maps a run starts with | the module named (`MCProfileUpdate`: `ProfileLoops`) |

**ItemLedger.** `item_ledger::m_items` is a function from instances to entries
or `Unregistered`. Each member function that returns `bool` is a pair: `CanX`
(it returns true) and `X` (the map it leaves). An item is a definition, a count
and a quality; quality stands for the float fields that `same_stack` compares.

**ProfileUpdate.** The handler explains an inventory the client reports: it
first merges shrinking stacks into growing ones, then finds sources for new
stacks, then replaces or claims, then erases. `Staged` runs these loops with
their iteration orders as parameters, because the order of an inventory is up
to the client; each loop is a recursive function from the number of turns made
to the staged state (`Merged`, `Divided`, `Settled`, `Dropped`).
`SettledLedger` and `OwnershipAllows` say what the loops amount to, and
`ItemAuthority` uses those. `ProfileLoops` makes one run of the loops a
specification of its own: the run `profile_update` checks it on an instance,
and `ItemAuthorityProofs` proves that using the closed form is faithful.

**ItemAuthority.** `profile`, `object`, `worldItem` and `items` are the
server's memory; `file` is what the store's files hold; `unsaved` names the
files the handler that just ran has still to write, in the order of the code
(profile, containers, world items). The container handler is split into one
step per item of the message, with `tx` holding its locals, because its loops
compose and may fail half way. A restart rebuilds the ledger like the
constructor, takes items of players out of containers and world, and is
possible only when `Loadable` holds, which is where the constructor throws.
Refused messages change nothing and are no steps. An accepted update may find
the files half written only through `Crash`.

**Ownership.** The abstract specification `ItemAuthority` implements, over the
ledger alone: a change is one player's report of an inventory, or one exchange
of a player with one container or the world, and it is made on a ledger that is
safe; a restart finds every instance as before the last change or as after it,
and may lose altogether only what the change took from its player. That is
weaker than all or nothing, and it is what two files written one after the other
give (`WholeTakesSurviveCrash` says when it is all or nothing). The mapping is

    ledger <- items
    kept   <- before

**Session.** `pending` is `m_pending`, `session` is `m_players` without the
dummies, `store` the profiles, `owned` the part of the ledger that
`handle_authenticate` rewrites. A profile is its token, name, starter items and
the two facts that code branches on (revision past 1, transform valid). Every
deadline is a step that may happen at any time once it is set. `open` is the
transport's view: the server closes connections without a callback, a peer's
close comes as a callback.

**Presence.** Server and client are both modelled, with a queue in each
direction for every player. A session ends with its connection, which drops
what was under way (`SessionEnds`); for the client that is either the end
(`Leave`: `transition_state_locked` resets it) or a lost link it reconnects from
(`Lose`, and `GiveUp` if it stops trying). A reconnect resets nothing: `Join`
gives the player a fresh session and leaves the client its death, its request
to respawn, its vote and its activity (`client.cpp:1047`). The history variable
`carried` records which of these the new session does not share. What the game
thread had not handled when the link was lost it handles before the bootstrap of
the next session, which is the receipt before the loss in the model. Sleep
revisions grow within one run of the server, so a client uses every state it
receives; a restart of the server, which begins at revision 1 again
(`server_core.hpp:340`), is not modelled here. The activity updates of other
players change no decision of a client and are left out.

**NpcRegistry.** `entry` is `m_entries`, `interest` is `m_interest`; the
registry's member functions take the maps they work on, because the handlers
chain them (`Reconciled` is `reconcile` with `assign_authorities`). Positions
are points of a line with the code's three radii in order. `stream` carries
enter, leave, authority and control messages in order, `packet` and `uplink`
are sets from which anything may be lost or taken first. A lease id is only
compared for equality, so `FreshLeases` are any ids nobody holds. A lost
connection is `silent` until the server notices.

**WorldSync.** `commits` holds every state the server has committed for one
object; its length is the revision. A client has the server's state as it knows
it (`view`), an update in flight (`pending`), a newer one held back
(`deferred`), and the native side has what the game shows (`game`) and what it
has observed but not delivered (`seen`). The server answers an update by committing
it (`Commits`), by a correction (`Refuses`), or, for the first update of an
object whose items may not move, not at all (`Unspoken`): that correction would
carry revision 0, which cannot be encoded (`protocol.cpp:376`), and the server
only logs it (`server_main.cpp:551`). `strayed` is a history variable for the
three cases in which the protocol may lead a client astray: a change that
crosses an older answer, an answer with an object that is made up, and no
answer. `SteadyClientsAgree` is about clients that met neither of the first two;
a client without an answer waits for it as long as nobody else's update makes
the object known, and that is all it may differ in.

**PropertyRoles.** `ledger` is `m_ledger.assignments`, `file` what a restart
loads. Every console command ends in `Command`: publish the new ledger and the
markers that follow from it, or die before that, with the file written or not.
`Active` spells out the recursion of `assignment_active`, which may_grant stops
after an owner, a steward and a third. The clock is the wall clock, which an
administrator may turn back. `marker` and `wire` are the clients' maps.

**Sandbox, ClientConnection, NativeWorld.** `Sandbox` is the contract of
`client_runtime` over two variables: the phase a poll reports and whether the
gate may open. Each of its actions is a call of the client or a frame of the
runtime. `ClientConnection` contains an instance of it: every step of its
game thread that calls the runtime is conjoined with the contract's action
(`Prepare`, `Started` or `Refused`, `Move`, `Invalidate`, `End`), so the client
is checked against any runtime that keeps the contract. `NativeWorld` is the
runtime as it is, over the engine's places (menu, loading, spawning, in the
server's level, in another one), a client cut down to the calls it makes, and a
user who loads, quits and reconnects. It implements `Sandbox` under the mapping

    world    <- IF ~native.pending THEN native.phase
                ELSE IF unload = "refused" THEN "stuck" ELSE "unloading"
    prepared <- native.requested

`begin_native_unload` ignores what the console answers to its command
(`native_runtime.cpp:2544`): where it is refused the unload stays pending with
nothing to end it but the user leaving the world. The contract calls that phase
`"stuck"`, which a poll reports as unloading, and promises an end of the others
only.

`client` in `ClientConnection` is what `m_state_mutex` guards; `To` is
`transition_state_locked`, which closes a session on a move that is not in the
table. A step is what a thread does under one hold of the lock. `net` holds the
locals of `network_loop`, `peer` the stage `Session` would have the connection
in, `"play"` stands for all messages that only a running session accepts. A pong
changes no phase, and where the message gate refuses one it would refuse any
other message of the server too; pongs are left out. Whether an address is a
numeric one shows when its connect command is run (`RunMisdirected`).

`network_loop` takes all commands at once (`TakeCommands`, `client.cpp:1342`),
runs them one after the other, and then reconnects and polls (`Polls`), while
new commands are pushed. `running` holds the ones it took, `commands` those
pushed since. One poll makes any number of callbacks in any order, since it
receives until nothing is left (`networking.cpp:389`); a reconnect that a
callback asks for is made only after the next swap, which is what `net.again`
tells apart (`"set"`, `"due"`). What is left of an earlier join may so meet a new
one: after a disconnect and a connect in one batch, the old transport may still
open, or its timer fall due, before the connect command of the next join is run
(`RunConnect` does not clear the timer), and carry the client on; it is then in a
phase of which the server knows nothing, and its world_ready may reach a fresh
connection. The history variable `own` says that the connect command of the
present join has been run, for a client that still waited for it and had nothing
else to say. `PhasesMatch` and `SaysWhatFits` are about joins from there on, and
claim nothing before.

## Runs

| run | kind | bounds | shows |
|---|---|---|---|
| `profile_update` | pass | 3 instances, counts to 2, 2 players, 1 container, every ledger, inventory and order | the loops leave `SettledLedger`, and only when `OwnershipAllows` |
| `item_authority` | pass | 3 instances, counts to 2, 2 players, 1 container, revisions to 2, crashes between writes | types and bounds; ledger, profiles, containers and world agree; staged transfers are exact; files always load; whole takes survive a crash; `ItemAuthority` implements `Ownership` |
| `item_transfers` | pass | 2 instances, counts to 3, revisions to 3, crashes only between handlers | a restart restores the owners; transfers keep totals; others keep their items |
| `session` | pass | 2 connections, 2 identities, 2 tokens, names and starter sets, 2 slots, 1 dummy | one initializer; waiters have one; an identity is held once; slots; no takeover |
| `session_ends` | pass, fair | 2 connections, 1 identity, 1 slot | abandoned sessions end |
| `presence` | pass, fair | 2 players, 1 station, 2 votes required, clients act while fewer than 2 messages are under way | stations, votes and clients agree, over lost links and reconnects; no answer surprises a client; respawns are answered |
| `npc_registry` | pass | 2 players, 1 NPC, 2 leases of 2 ticks, 2 revisions, 2 reliable messages and 1 unreliable under way | an NPC somebody sees has a holder who sees it; a lease names one holder wherever it is heard of; quiet clients show what the server counts them interested in |
| `world_sync` | pass | 2 players, 2 contents, 3 revisions, 2 messages each way, an object that is new, stored, or changed before with one player barred | knowledge never goes back; clients that nothing led astray show the server's state; quiet clients have the server's revision |
| `client_connection` | pass, fair | 3 joins, 1 reconnect, queue of 1, wire of 1 | a session has a world; from the connect command of a join on the phases of client and server match and nothing stale is said; joins settle; a disconnect by the user comes to an end |
| `client_closing` | violation | 1 join, 1 reconnect, queue of 2, wire of 1 | a failure first enters closing, but need not leave it |
| `native_world` | pass, fair | 4 loads of a world | `NativeWorld` implements `Sandbox`, liveness included; saving is locked while a server's world may be there |
| `property_roles` | pass | 3 players, a house and a room in it, 3 assignments, 2 times, 1 marker update under way | what is saved loads again; one title; homes are claims; grants take nothing |

Why the bounds are enough. Three instances are the least with a merge from two
sources and with a split beside a move; count 2 is the least at which a stack
splits, 3 the least at which a split leaves something to merge again. Two
players are needed for theft, one container for every path of its handler (its
loops never look at another container). A revision only grows by one per
handler, so its bound limits the number of handlers that touch one record. All
bounds that are not the code's own (the `Max...` constants marked so in the
modules) are in guards of actions that add to what they bound.

For sessions, two connections race for one identity, one slot and the
initializer, with a second identity to take the last slot; a new token or
starter set only needs to differ from the ones its player has somewhere, and
two suffice as the model picks one that is nowhere else. For presence,
`MaxInFlight` counts the messages of all streams: a client acts while fewer
than two are under way, and what the server answers and broadcasts comes on
top, so that every answer crosses a message already sent. `PresenceProofs` has
no such bound.

For NPCs, two players compete for a lease and one NPC is every NPC, since
messages about different ones do not affect each other; two leases are one that
runs and one that is heard of late; three kinds of distance are reached by two
player places and two NPC places. `NpcRegistryProofs` has none of these bounds.
For the world, two contents tell a client that is right from one that is wrong,
and three revisions let a client's change cross the answer to its previous one
and the change of the other player. Three joins are the least in which what a
disconnect and a connect in one batch leave behind meets another join; with one
reconnect the timer meets all. A queue and a wire of one are full at once, and
a message more than one is under way as soon as the game thread's queue, its
batch and the wire hold one each; `ClientConnectionProofs` has no such bounds.
Four loads are the server's world, one of the
user's before and one after, and a second join's. Two properties, one in the
other, and three assignments are the shortest ledger with a chain of three
grants and a parent's role; `PropertyRolesProofs` covers deeper trees and
longer chains. Symmetry is used in runs without liveness only.

Fairness. `session_ends` assumes weak fairness of the grace's expiry and of
the idle timeout for a session whose connection is closed: `main` ticks in an
endless loop, `tick` checks every session each time, no message can move a
grace deadline, and a closed connection delivers none that could move
`last_message_at`. `presence` assumes that both sides handle the next message
of a stream: both loops poll their transport, and the streams are reliable.

`client_connection` assumes weak fairness of what the threads do in their
loops: the steps of a frame, the network thread's commands, the reconnect
timer, the receipt of messages, and that an attempt of the transport opens or
ends, and a link ends once the server has closed it; nothing makes a healthy
link end. It assumes strong fairness of a frame's beginning while no world is
being unloaded (the client waits at the native gate during an unload, and an
unload ends only before a frame's tick), of the server's refusal of a peer that
is not playing, which is the deadline every pending connection has, and of the
steps by which a load ends, or an unload that is not stuck: the former because
a start has a deadline of its own, the latter because the engine completes an
unload it was told of.
These are what `Sandbox` promises (`LoadsEnd`, `UnloadsEnd`), and
`native_world` shows that the runtime keeps the promise. For that it assumes
weak fairness of the frame, strong fairness of a start's deadline (30 to 600
seconds of frames, which only a later start can reset) and of an unload command
that the console holds. Nothing is assumed of one that it refused: the world is
then stuck, and `JoinsSettle` allows a join to wait for it. The user of `NativeWorld` is never assumed to do
anything, and opens no menu and loads no game while the engine unloads
(`UserLoads`): the screen is the engine's then. Where the unload is stuck he is
in the world as before, and may load.

## What is proved

All theorems hold for any sets and bounds, with no assumptions but those that
the modules name for their constants. The invariants proved are the formulas
that the runs check.

`ItemAuthorityProofs`:

- `TypeCorrect`: `Spec => []TypeOK`. The counts are in the types, so this says
  that no sequence of merges, splits and claims lets a stack leave
  `1..MaxItemCount`.
- `OwnersAgree`: `Spec => []LedgerAgrees`. Each instance has one owner, and
  profiles, containers and world items say what the ledger says.
- `TransfersAreExact`: `Spec => []StagedAgrees`. Between any two items of a
  container update, staged ledger and staged profile are what the message asked
  for so far, and nobody else's items have moved.
- `StoreLoads`: `Spec => []StoreIsLoadable`. Whichever write of whichever
  handler a crash falls behind, the server starts again.
- `TakesSurviveCrash`: `Spec => []WholeTakesSurviveCrash`. A handler that only
  takes whole instances to players loses and duplicates nothing in a crash.
- `RestartFindsOwners`: `~CrashInHandler` implies `Spec => RestartRestoresOwners`.
  If the process stops only between handlers, a restart loses nothing at all.
- `OthersUntouched`: `Spec => OthersKeepTheirs`. A handler changes the items of
  the one player whose profile it writes.
- `TransfersKeepTotals`: `Spec => TransfersConserve`. However many merges,
  splits and moves a message to a known container makes, the number of items of
  each definition stays.
- `LoopsAmountToSettled`: `LoopSpec => []LoopsSettle`, and `LoopsAskOwners`:
  `LoopSpec => []LoopsRespectOwners`. In any order of the message, the loops
  leave what `SettledLedger` says and finish only when `OwnershipAllows`.
- `UpdatesAreTheLoops`: `Spec => UpdateRunsLoops`. A profile update of
  `ItemAuthority` gives the server the ledger that every order with which the
  loops finish leaves: what `ItemAuthority` does in one formula is what the
  code does in four loops.
- `KeepsOwnership`: `Spec => Owners!Spec`. Every step of the server is a step of
  `Ownership` or none.

The inductive invariant is `IInv == TypeOK /\ LedgerAgrees /\ StagedAgrees`.
`LedgerAgrees` alone is not inductive: a container update commits the staged
copies, so what they hold must be known, which is `StagedAgrees`; that in turn
needs the types, since a merged count is only a count if it is bounded. First
come lemmas on what each ledger operation returns; then one lemma per action;
`NextKeeps` collects them and `Invariance` adds the temporal step.

`OthersUntouched` follows from `IInv`. The three theorems before it are about the
files, of which `IInv` says nothing but their type.
`FileInv` says that a file is what the memory is unless the handler has still to
write it (`FilesFollow`), and that the files give no instance to two players, to
two containers, or to a container and the world (`Apart`): the containers are
written while the world's file is old, so it also has to be known that nothing
a handler puts into a container is in that file. An instance may be in a profile
and a container, and there the constructor gives it to the player.
`RecoveryInv` says which ledger the files recover: that of before until the
profile is written, and after it that of the handler, if it only takes. For the
container handler this needs what its loops have staged (`StagedTakes`): a
change that grows a stack of the container, splits into it or deposits in it
has taken from, or moved, something the player had before, so it is no take;
the new instances of a first report are the exception, and a container without
a record has nothing to withdraw (`UnknownIsEmpty`). `RestartFindsOwners` needs
less: the files of a stopped server recover the ledger it had (`Stopped`).

`KeepsOwnership` needs to know what half-written files hold of a single
instance. `HalfWritten` says that a file which is still to be written has what
the handler began with, and that no handler moves anything from one place
outside the inventories to another (`PlacesStay`), so that the old half and the
new half of the files never disagree but about what the player has gained or
given (`HalfWrittenRecovers`). `RestartFindsEach` states this of the files alone
and also holds while the server is down. `UpdateReports`, `StagedTrades` and
`WorldItemTrades` say what each handler is in the terms of `Ownership`.

The theorems on the loops assume that there are finitely many instances
(`InstancesAreFinite`; a UUID has 128 bits), since a loop over an inventory must
have a last turn. That the recursive functions of the loops have the values
their definitions ask for is a fact to prove, not one the provers know: the
turns of a loop exist for every number of them (`TurnsExist`, by a least
counterexample), and every loop keeps what each of its turns keeps
(`MergeTurnsKeep`, `MergedKeeps`, `DividedKeeps`, `SettledKeeps`,
`DroppedKeeps`). What the merges and splits keep is `Explained`: an
instance the sender did not have is as the server had it, or is new and has just
been split off; none has changed its definition; and of one that has left the
inventory nothing is there if it was merged away, and no more than before if it
was not. The third loop makes of this, item by item, the ledger
`SettledLedger` asks for (`SettledUpTo`), the fourth removes what is left of the
old inventory (`DroppedUpTo`). `OwnershipAllows` is necessary for the loops to
finish, not sufficient, so `HandleProfileUpdate` also asks that some order
finishes (`BookkeepingSucceeds`); an update that is refused changes nothing.

`TransfersConserve` compares numbers of units: `Units` is the set of pairs of an
instance and a number up to its count, and a merge, split or move maps one such
set onto the other one to one (`ShiftConserves` gives the bijection). The
invariant behind it says that the staged ledger of a transfer to a known
container has the totals of the server's (`StagedConserves`).

`SessionProofs`, for finite sets of connections and identities:

- `TypeCorrect`, and the invariants of the run `session`: `InitializerIsUnique`
  (`OneInitializer`), `NobodyWaitsInVain` (`WaitersHaveInitializer`),
  `IdentitiesAreHeldOnce` (`IdentityHeldOnce`) and `CapacityIsKept`
  (`SlotsRespected`);
- `SessionsAreNotTakenOver`: `Spec => NoTakeover`, from the same invariant.

The inductive invariant joins these with three facts that they need.
`Bootstrap`: the stage of a pending connection says whether it has an identity,
a profile and a name. `Waiting`: waiters exist only while there is an
initializer. `HoldersAreStored`: whoever holds a slot has a stored profile;
without it enrolment could hand out an id that is in use, since the code looks
for it in the store only. The heart of `CapacityIsKept` is
`ReservedSlotsSuffice`: `reserved_slots` may count a player in the grace who is
loading again twice, and never counts too few. Three lemmas carry most steps:
waking the waiters keeps `Bootstrap` (`WakingKeepsBootstrap`), a step after
which nobody holds more keeps the rest (`HeldByFewer`), and an accepted
authentication keeps all of it (`AcceptStep`).

`NpcRegistryProofs`, for any number of players, NPCs and places, streams of any
length and any number of lost or overtaking messages:

- `TypeCorrect`: `Spec => []TypeOK`, for which TLC has no run of its own;
- `HoldersAlwaysWatch`: `Spec => []HoldersWatch`;
- `LeasesNameHolders`: `Spec => []LeaseNamesHolder`;
- `QuietClientsAlwaysAgree`: `Spec => []QuietClientsAgree`.

`HoldersWatch` needs, beside the types, only that interest sets of players who
are gone are empty; it is stated of any entries and interest sets (`Held`), as
`assign_authorities` restores it whatever the caller has done to leases that
run out (`AssignedIsHeld`; that a nearest candidate exists is the one place
that needs well-foundedness, `NearestIsCandidate`). `LeaseNamesHolder` compares
any two places where a lease may be heard of, and is not inductive. The
invariant says instead that there is a function `h` from leases to a holder and
an NPC with which every place accords: entries, what clients know, packets,
reports and the messages on every stream. A handler that grants leases extends
`h` at ids that occur nowhere (`GrantsExtend`), every other step hands on views
that accord already (`TrafficKeeps`, `EntriesKeep`).

`QuietClientsAgree` speaks of an empty stream, and what holds before it is empty
is `Quiet`: of the messages on their way about an NPC, the last that decides
whether the client shows it (enter, leave, a disabled kind) agrees with the
interest set, and the client itself does when none is on its way; the same for
kinds and the notices about them (`Agree`). A message that decides nothing may
be added anywhere at the end (`AgreeAside`), one that decides makes what was sent
before irrelevant (`AgreeDecided`), and the client that takes the first keeps the
rest true (`AgreeTail`). `SetDisabledQuiet` and `ReconciledQuiet` show that the
last such message a handler sends says what it has made of the interest set.

`PropertyRolesProofs`, for any players, properties with any nesting, and any
number of assignments:

- `TypeCorrect`: `Spec => []TypeOK`, for which TLC has no run of its own;
- `LedgersLoad`: `Spec => []LedgerIsLoadable`. What `revoke` removes by
  following grants is enough for `valid_property_ledger` to accept the rest;
- `RolesHangOnTitle`: `Spec => []OneTitle`;
- `HomesAreClaims`: `Spec => []MarkersAreClaims`;
- `AccessIsKept`: `Spec => GrantsTakeNothing`, an action property.

The inductive invariant adds to the types that memory and file hold one ledger;
that it is `Sound`: identifiers are unique, an owner's assignment was granted
by nobody, every other one under an assignment of the same property whose role
may grant it, and a property has one owner; that ids above the counter are
unused (`UsedUp`); and that what clients show or will be told is a claim
(`ShownAreClaims`). Since a role grants lower ones only, a chain has three
links at most, which is why the loop of `revoke` reaches every assignment that
has lost its grantor. `AccessIsKept` splits into three lemmas: a higher role
may do what a lower one may, but for a guard (`HigherMayMore`), others keep
what they have (`OthersStay`), and active assignments stay active
(`AccessStays`).

`NativeWorldProofs`, for any number of loads:

- `TypeCorrect`: `Spec => []TypeOK`, for which TLC has no run of its own;
- `SavesStayLocked`: `Spec => []SavesAreLocked`;
- `RuntimeKeepsContract`: `Spec => Sandbox!Spec`, the safety half of what the
  run checks as `SandboxContract`: every step of the runtime, its client, the
  user and the engine is a step of `Sandbox` or none.

The inductive invariant says that the runtime's members fit together
(`Consistent`: a world that is ready or being unloaded is active, saving is
locked in an active one only, a new epoch is expected only while a start is
loading), that a client waiting for a world or playing in one has its saves
locked once that is ready (`Guarded`), and what `on_frame` leaves to the rest
of the frame (`Settled`: no unload that is complete, no start that could be
resolved; without it a bootstrap could meet a start it does not know of). Each
function of the runtime has a lemma on what it makes of a consistent state;
`FramePasses` chains those of `on_frame`. `Allows` is the contract's next-state
relation as a relation of values, in which an unload is one whether it is stuck
or not, so that the steps are compared without the two modules' variables;
`StepIsNext` gives it back to `Sandbox`, with `NextIsSteadfast`: no step makes a
pending unload stuck, or frees a stuck one.

`PresenceProofs`, for any finite set of players, any stations, any threshold of
votes and streams of any length (`None` is no player, station or session id):

- `TypeCorrect`: `Spec => []TypeOK`, for which TLC has no run of its own;
- `StationsAgree`: `Spec => []StationsMatchActivities`;
- `ClientsAreNotSurprised`: `Spec => []NoSurprise`;
- `QuietClientsAgree`: `Spec => []QuietPlayersAgree`.

What both ends say of each other holds when nothing is on its way; in between
it is the messages on the two streams that make up the difference, so the
inductive invariant speaks of them. `Mortal` says which of a death, a request to
respawn and its answer may be under way together, and what client and server
then think; `Busy` does so for a start, its grant, its refusal and the end of
an activity. Both hold of what the session knows; `Ghost` and `Stuck` say what
is left of a death, an activity or a start that a client kept over a reconnect
(`carried`), of which no message can be under way: this is why such a client may
stay as it is for ever. `Tells` says that the last sleep state on a stream, or what the
client has shown if there is none, has the present number of votes. Of a player
without a connection nothing is left but the death at the server and what the
client believes of itself (`Gone`). A message joins a
stream at its end or leaves it at its head: `Appended` and `Taken` say what that
makes of "is on the stream", "is there once" and "is ahead of", a lemma on each
part says what each kind of message makes of it, and `ClientActs`,
`ClientTakes`, `Collects` and `ReleasedKeeps` put these together for a client's
step, a receipt, a message the server takes, and the release of an activity.

`WorldSyncProofs`, for any players, any states of an object, and any bounds on
revisions and messages (the stored commits are within the bound on revisions,
`Nothing` is no state of an object):

- `TypeCorrect`: `Spec => []TypeOK`, for which TLC has no run of its own;
- `RevisionsAgree`: `Spec => []QuietRevisionsAgree`;
- `UncrossedStay`: `Spec => []UncrossedClientsStay`;
- `SteadyAgree`: `Spec => []SteadyClientsAgree`;
- `ViewsAdvance`: `Spec => ViewsMoveForward`, an action property.

All of these are about clients with nothing under way, or about what a receipt
does, so the invariant has to say what may be under way. `Fits` says it of one
player, as a relation of values: in every case the revisions of answers and
broadcasts grow from the client's to the server's (`Ordered`); unless a change
was crossed, one update or its answer is under way (`Single`), and it is the one
in flight, or one that the client gave up for another's change and that the
server is bound to refuse, or one that got no answer (`Silent`; `InFlight`); an acceptance then finds that update
still in flight, and a refusal that does not finds the client at its revision
already; unless the client was led astray, every revision comes with the
content that was committed under it (`Names`), and the game shows what the
client wants (`Shows`). The lemmas `Fits...` say what each of a player's steps
and each of the server's makes of `Fits`; `OnlyOne` and `CommitKeeps` lift them
to all players.

`ClientConnectionProofs`, for any number of joins and attempts, any capacity of
the game thread's queue and any number of messages under way:

- `TypeCorrect`: `Spec => []TypeOK`, for which TLC has no run of its own;
- `SessionsHaveTheirWorld`: `Spec => []SessionHasWorld`;
- `PhasesAgree`: `Spec => []PhasesMatch`;
- `NothingConfuses`: `Spec => []SaysWhatFits`.

The invariant adds what a reader of the three threads has to see: from the
connect command of its join on, a client that goes on with the join has no
command left, taken or not, but the world_ready it has pushed, and that one has
been taken before a reconnect is made, since the swap comes first
(`OwnIsQuiet`); it therefore has nothing before it and goes to a server that
waits for it or to none (`ReadyGoesFirst`); a frame that starts a world or ends
one does so outside the session (`FrameFits`); and the server has not said what
belongs to a later stage than the one it has the client in (`WireFits`). The lemmas
`EndingKeeps`, `StayingKeeps` and `CutKeeps` cover the steps that end the
session, leave its phase alone, or take the connection away.

Only model-checked is what is beyond the prover: liveness. That is
`AbandonedSessionsEnd`, `RespawnsAreAnswered`, `UserDisconnectEnds`,
`JoinsSettle`, `ClosingEnds`, and the liveness half of `SandboxContract`.

## Where code and documents differ

The run `client_closing` ends in a counterexample. A comment (`client.cpp:1656`)
says that a failure first enters closing and then reaches disconnected through
the intentional teardown of the transport. If the native world cannot begin,
the client is closing and reports it; the rejection that answers meets the gate
of the closing state, which aborts the connection without a callback. Nothing
tears anything down, and the user cannot either, as `disconnect()` returns early
in closing (`client.cpp:376`): the client stays in closing. `PROJECT.json` has
the lines.

The models contain more behaviours that a document describes otherwise. They
are facts about the code that a reader of the models will meet, and no run is
spent on them:

- A profile and a container are two files. A stop of the server between them
  duplicates or loses what a deposit or a withdrawal moved
  (`docs/multiplayer.md:160`); `WholeTakesSurviveCrash` states what does hold.
- `handle_profile_update` accepts stacks and counts that come from nowhere
  (`docs/multiplayer.md:87-90` says it rejects them).
- A session in its grace that ends saves its old token over the one its player
  has since been given (`server_core.cpp:2984`, `docs/multiplayer.md:68-69`);
  and a second login that is then refused has already given the starter items
  of its player new ids in the ledger (`server_core.cpp:1240`,
  `docs/multiplayer.md:85-86`).
- When the number of votes that a night needs falls, no vote counts again until
  the next one (`docs/multiplayer-0.1.md:43-44`). A vote that crosses its
  player's getting up counts when it arrives (`client.cpp:2176`).
- A correction that arrives late makes a client forget what it has pending
  (`client.cpp:2410`; `docs/multiplayer.md` calls corrections idempotent).
  `strayed` marks these clients in `WorldSync`.
- Disconnecting while a new game loads leaves that game to load: the runtime
  has no server's world to unload yet
  (`docs/join-crash-investigation.md:300-302`).

What `NativeWorld` and `ClientConnection` show of the client, where no document
says otherwise: `begin_sandbox` does not look at the unload that may be
pending; a start may outlive the session it was begun for, and a rejoin during
it fails as "already in progress"; an error left over from one start makes the
next `end_sandbox` ask for the menu and an unload; the rollback of a failed
rejoin lets the game save again; an address that is no number ends the network thread;
the end of a frame may cancel the preparation of a join that began during the
frame, and a disconnect may arrive at the join after the one it was meant for.
`JoinsSettle`, `SavesAreLocked` and the contract hold with all of this: none
of it leaves a client in a join for ever or a server's world open to saving.
An unload command that the console refuses is another matter: the unload stays
pending until the user leaves the world himself, and a join waits as long. The
contract has a phase of its own for it, and `JoinsSettle` an exception.

What `Presence` shows of the automatic reconnect, of which no document says
more than that it is supported: a client that reconnects while it is dead stays
dead and behind its prompt. The server takes it to be alive and ignores its
request (`server_core.cpp:2544`), and the client may not report the death again
(`client.cpp:460`). An activity that it had, or had asked for, keeps it from
any other. `carried` marks these clients, and the properties about quiet
clients except them.

## Not modelled, and why

Parsing, rendering, address lookup and engine calls have no protocol to get
wrong in a way a model would find. Encoding, hashing and random tokens are
values of small sets. Time is order: deadlines pass, clocks are not read.

In the modelled parts:

- Items: equipped slots and quick access, and with them the ways saving a
  profile can fail. Property access to containers is a refusal like any other.
- Sessions: dummies move about but only count as slots.
- NPCs: what an NPC does (dialogue, combat, inventory, the gameplay half of its
  state) decides nothing in the registry. A player walks to any place in one
  step; sessions without a transform are out of every range and are left out.
- World objects: the streaming of native entities around the player, the part
  of an answer that changes a profile (`ItemAuthority` has it), and failures of
  the first contact.
- Client: messages that change no phase are one message, `"play"`. Everything
  between taking the lock and the push to a queue is one step, and so are a
  callback's gate and the transition it makes. The replacement of queued
  snapshots by newer ones is left out.
- Native world: probes, adoption checks and the profile's reconciliation are
  choices of outcome. `UserLoads` is an assumption about the user.
- `NpcRegistry`, `Presence`, `WorldSync`, `PropertyRoles`, `ClientConnection`
  and `NativeWorld` state a `TypeOK` that no run checks, as it is a theorem:
  each run has its properties where they say more.

Whole parts: transforms, avatars, chat and the environment check one message
and store or broadcast one value. Remote avatars and the native backends are
calls per frame. The identity store and the settings are a file each. The
property catalog, NPC tables, the configuration, loader, signatures, Lua
bindings, GUI, tools and data have no state that a sequence of calls could
bring into disorder.

## Plan

What is left, in the order of what it would add:

1. `EquipmentSync`: avatar, equipped slots and inventory, and saves that fail.
2. `ProfileReconciler`, `EntityControl`, `RuntimeHandles`: failing backends,
   and an abstract map of handles that `RuntimeHandles` implements.

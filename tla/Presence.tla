------------------------------ MODULE Presence ------------------------------
(***************************************************************************)
(* What the connected players do together: the vote to sleep through the   *)
(* night, death and respawn, and the stations only one of them can use     *)
(* (server_core.cpp), with the client's side of each (client.cpp, the      *)
(* frame handler of plugin.cpp) and the two reliable, ordered streams      *)
(* between them.                                                           *)
(*                                                                         *)
(* A session is reduced to being connected or not (Session models the      *)
(* rest), and the spawn is set, as it is from the first session on.  Sleep *)
(* revisions grow with every state the server sends and the stream keeps   *)
(* the order, so a client uses every one it receives within one run of the *)
(* server; they are left out.                                              *)
(* Of the activity updates only a player's own change what a client does.  *)
(*                                                                         *)
(* A client whose link is lost reconnects by itself and keeps what it      *)
(* believes of itself; the server gives it a fresh session.  The history   *)
(* variable carried records what the two then disagree about.              *)
(***************************************************************************)
EXTENDS FiniteSetsExt, Integers, Sequences

CONSTANTS
    Players,
    Stations,     \* station_guid
    SessionIds,   \* activity session ids
    Required,     \* config.sleeping_players_required
    MaxInFlight,  \* bound: clients act and join while fewer messages are
                  \* on the way altogether
    None

ASSUME RequiredIsPositive == Required \in Nat \ {0}
ASSUME BoundIsPositive == MaxInFlight \in Nat \ {0}
ASSUME PlayersAreFinite == IsFiniteSet(Players)
ASSUME NoneIsNothing == None \notin Players \cup Stations \cup SessionIds

Activity == [station: Stations, id: SessionIds]

ASSUME NoneIsNoActivity == None \notin Activity

VARIABLES
    connected,   \* players whose session has a connection
    sleeping,    \* m_sleeping_players
    dead,        \* player_session.dead
    activity,    \* player_session.activity, None when not active
    owner,       \* m_station_owners
    client,      \* the client's state
    carried,     \* history: what the client kept from the session before
    toServer,    \* messages on their way to the server
    toClient     \* messages on their way to the client

vars == <<connected, sleeping, dead, activity, owner, client, carried,
          toServer, toClient>>

server == <<connected, sleeping, dead, activity, owner>>

\* laying: the native player lies in a bed; respawning: respawn_pending;
\* started: m_pending_activity_start; own: m_local_activity; ending: its end
\* was sent; shown: the sleepers the player is shown; closing: the client
\* gave up on a message it did not expect.
Client == [laying: BOOLEAN, sleeping: BOOLEAN, dead: BOOLEAN,
           respawning: BOOLEAN, started: Stations \cup {None},
           own: Activity \cup {None}, ending: BOOLEAN,
           shown: 0..Cardinality(Players), closing: BOOLEAN]

ClientMessage ==
    [type: {"sleep"}, sleeping: BOOLEAN]
    \cup [type: {"death", "respawn"}]
    \cup [type: {"start"}, station: Stations]
    \cup [type: {"end"}, id: SessionIds]

\* A death the new session knows nothing of, or an activity or a start.
Leftovers == {"death", "activity"}

ServerMessage ==
    [type: {"sleep_state"}, sleepers: 0..Cardinality(Players), skipped: BOOLEAN]
    \cup [type: {"respawn", "ended"}]
    \cup [type: {"granted"}, activity: Activity]
    \cup [type: {"denied"}, station: Stations]

TypeOK ==
    /\ connected \subseteq Players
    /\ sleeping \subseteq Players
    /\ dead \subseteq Players
    /\ activity \in [Players -> Activity \cup {None}]
    /\ owner \in [Stations -> Players \cup {None}]
    /\ client \in [Players -> Client]
    /\ carried \in [Players -> SUBSET Leftovers]
    /\ \A p \in Players : /\ toServer[p] \in Seq(ClientMessage)
                          /\ toClient[p] \in Seq(ServerMessage)

FreshClient ==
    [laying |-> FALSE, sleeping |-> FALSE, dead |-> FALSE, respawning |-> FALSE,
     started |-> None, own |-> None, ending |-> FALSE, shown |-> 0,
     closing |-> FALSE]

Init ==
    /\ connected = {}
    /\ sleeping = {}
    /\ dead = {}
    /\ activity = [p \in Players |-> None]
    /\ owner = [s \in Stations |-> None]
    /\ client = [p \in Players |-> FreshClient]
    /\ carried = [p \in Players |-> {}]
    /\ toServer = [p \in Players |-> <<>>]
    /\ toClient = [p \in Players |-> <<>>]

---------------------------------------------------------------------------
(* The server's broadcasts.                                                *)

\* effective_sleep_requirement.
EffectiveRequirement ==
    LET eligible == Cardinality(connected \ dead)
    IN  IF eligible = 0 THEN 1
        ELSE IF Required < eligible THEN Required ELSE eligible

SleepState(sleepers, skipped) ==
    [type |-> "sleep_state", sleepers |-> Cardinality(sleepers),
     skipped |-> skipped]

\* broadcast_sleep_state on top of what is in the streams already.
BroadcastSleep(streams, receivers, sleepers, skipped) ==
    [p \in Players |->
        IF p \in receivers
        THEN Append(streams[p], SleepState(sleepers, skipped))
        ELSE streams[p]]

\* Mutant: the vote is removed, but nobody is told.
WithoutVoteQuietly(p, streams, receivers) == streams

\* remove_sleep_vote: what the streams become.
WithoutVote(p, streams, receivers) ==
    IF p \in sleeping
    THEN BroadcastSleep(streams, receivers, sleeping \ {p}, FALSE)
    ELSE streams

\* Mutant: the station keeps its owner.
ReleasedKeeping(p) == owner

\* release_activity: who owns the stations, and p's own update.
Released(p) ==
    IF activity[p] = None \/ owner[activity[p].station] # p THEN owner
    ELSE [owner EXCEPT ![activity[p].station] = None]

WithEnd(p, streams) ==
    IF activity[p] = None THEN streams
    ELSE [streams EXCEPT ![p] = Append(@, [type |-> "ended"])]

---------------------------------------------------------------------------
(* Sessions come and go.                                                   *)

Calm ==
    MapThenSumSet(LAMBDA p : Len(toServer[p]) + Len(toClient[p]), Players)
        < MaxInFlight

\* What the client keeps that a fresh session does not share.
Kept(p) ==
    (IF client[p].dead THEN {"death"} ELSE {})
    \cup (IF client[p].own # None \/ client[p].started # None
          THEN {"activity"} ELSE {})

\* handle_world_ready and send_accepted: a fresh session, whose client is told
\* the state of the vote.  Nothing of the client is reset: a client that
\* connects is fresh, one that reconnects is as its link left it.
Join(p) ==
    /\ p \notin connected
    /\ Calm
    /\ connected' = connected \cup {p}
    /\ dead' = dead \ {p}
    /\ carried' = [carried EXCEPT ![p] = Kept(p)]
    /\ toClient' = [toClient EXCEPT ![p] = <<SleepState(sleeping, FALSE)>>]
    /\ UNCHANGED <<sleeping, activity, owner, client, toServer>>

\* on_transport_disconnected: what was on its way is lost.  The leaver is
\* still connected while its vote is removed, but receives nothing any more.
SessionEnds(p) ==
    /\ p \in connected
    /\ connected' = connected \ {p}
    /\ sleeping' = sleeping \ {p}
    /\ owner' = Released(p)
    /\ activity' = [activity EXCEPT ![p] = None]
    /\ carried' = [carried EXCEPT ![p] = {}]
    /\ toServer' = [toServer EXCEPT ![p] = <<>>]
    /\ toClient' = [WithoutVote(p, toClient, connected \ {p})
                        EXCEPT ![p] = <<>>]
    /\ UNCHANGED dead

\* The client ends in disconnected, which resets it (transition_state_locked).
Leave(p) ==
    /\ SessionEnds(p)
    /\ client' = [client EXCEPT ![p] = FreshClient]

\* The link is lost and the client reconnects: it resets nothing.
Lose(p) ==
    /\ ~client[p].closing
    /\ SessionEnds(p)
    /\ UNCHANGED client

\* The reconnecting client gives up, or its user does.
GiveUp(p) ==
    /\ p \notin connected
    /\ client' = [client EXCEPT ![p] = FreshClient]
    /\ UNCHANGED <<server, carried, toServer, toClient>>

---------------------------------------------------------------------------
(* The client acts.                                                        *)

Active(p) == p \in connected /\ ~client[p].closing /\ Calm

Sends(p, messages) ==
    /\ toServer' = [toServer EXCEPT ![p] = @ \o messages]
    /\ UNCHANGED <<server, carried, toClient>>

\* The native player lies down in a bed or gets up.
LieDown(p) ==
    /\ Active(p)
    /\ ~client[p].dead
    /\ client' = [client EXCEPT ![p].laying = ~@]
    /\ UNCHANGED <<server, carried, toServer, toClient>>

\* abi_attempt_sleep and set_sleeping(true).
Vote(p) ==
    /\ Active(p)
    /\ client[p].laying
    /\ ~client[p].dead
    /\ ~client[p].sleeping
    /\ client' = [client EXCEPT ![p].sleeping = TRUE]
    /\ Sends(p, <<[type |-> "sleep", sleeping |-> TRUE]>>)

\* The frame handler takes the vote back once the player got up.
TakeBack(p) ==
    /\ Active(p)
    /\ ~client[p].laying
    /\ ~client[p].dead
    /\ client[p].sleeping
    /\ client' = [client EXCEPT ![p].sleeping = FALSE]
    /\ Sends(p, <<[type |-> "sleep", sleeping |-> FALSE]>>)

\* report_local_death.
Die(p) ==
    /\ Active(p)
    /\ ~client[p].dead
    /\ client' = [client EXCEPT ![p].dead = TRUE, ![p].respawning = FALSE,
                                ![p].sleeping = FALSE, ![p].laying = FALSE]
    /\ Sends(p, <<[type |-> "sleep", sleeping |-> FALSE], [type |-> "death"]>>)

RequestRespawn(p) ==
    /\ Active(p)
    /\ client[p].dead
    /\ ~client[p].respawning
    /\ client' = [client EXCEPT ![p].respawning = TRUE]
    /\ Sends(p, <<[type |-> "respawn"]>>)

\* Mutant: an activity that runs or is asked for does not stop another one.
MayBeginAgain(p) == ~client[p].dead

MayBegin(p) ==
    ~client[p].dead /\ client[p].own = None /\ client[p].started = None

\* begin_local_activity.
Begin(p, s) ==
    /\ Active(p)
    /\ MayBegin(p)
    /\ client' = [client EXCEPT ![p].started = s]
    /\ Sends(p, <<[type |-> "start", station |-> s]>>)

\* end_local_activity, once for each activity.
End(p) ==
    /\ Active(p)
    /\ client[p].own # None
    /\ ~client[p].ending
    /\ client' = [client EXCEPT ![p].ending = TRUE]
    /\ Sends(p, <<[type |-> "end", id |-> client[p].own.id]>>)

---------------------------------------------------------------------------
(* The server handles the next message of p.                               *)

Arrives(p, type) ==
    /\ toServer[p] # <<>>
    /\ Head(toServer[p]).type = type
    /\ toServer' = [toServer EXCEPT ![p] = Tail(@)]

\* handle_sleep_state.
HandleSleepState(p) ==
    /\ Arrives(p, "sleep")
    /\ LET vote == Head(toServer[p]).sleeping
           voters == IF vote THEN sleeping \cup {p} ELSE sleeping \ {p}
           skips == vote /\ Cardinality(voters) >= EffectiveRequirement
       IN  IF p \in dead \/ voters = sleeping
           THEN UNCHANGED <<sleeping, toClient>>
           ELSE /\ sleeping' = IF skips THEN {} ELSE voters
                /\ toClient' = BroadcastSleep(toClient, connected, sleeping',
                                              skips)
    /\ UNCHANGED <<connected, dead, activity, owner, client, carried>>

HandleDeath(p) ==
    /\ Arrives(p, "death")
    /\ IF p \in dead THEN UNCHANGED <<sleeping, dead, activity, owner, toClient>>
       ELSE /\ dead' = dead \cup {p}
            /\ sleeping' = sleeping \ {p}
            /\ owner' = Released(p)
            /\ activity' = [activity EXCEPT ![p] = None]
            /\ toClient' = WithEnd(p, WithoutVote(p, toClient, connected))
    /\ UNCHANGED <<connected, client, carried>>

\* Mutant: the answer is forgotten.
RespawnAnswerForgotten(p) == toClient[p]

\* ServerRespawn: the player lives again at the spawn.
RespawnAnswer(p) == Append(toClient[p], [type |-> "respawn"])

HandleRespawnRequest(p) ==
    /\ Arrives(p, "respawn")
    /\ IF p \notin dead THEN UNCHANGED <<dead, toClient>>
       ELSE /\ dead' = dead \ {p}
            /\ toClient' = BroadcastSleep([toClient EXCEPT ![p] = RespawnAnswer(p)],
                                          connected, sleeping, FALSE)
    /\ UNCHANGED <<connected, sleeping, activity, owner, client, carried>>

\* A session id that was never used: none that is still known anywhere.
UsedIds ==
    {activity[p].id : p \in {q \in Players : activity[q] # None}}
    \cup {client[p].own.id : p \in {q \in Players : client[q].own # None}}
    \cup {id \in SessionIds : \E p \in Players : \E i \in 1..Len(toServer[p]) :
            toServer[p][i] = [type |-> "end", id |-> id]}
    \cup {id \in SessionIds : \E p \in Players : \E i \in 1..Len(toClient[p]) :
            /\ toClient[p][i].type = "granted"
            /\ toClient[p][i].activity.id = id}

\* Mutant: whoever asks is granted the station.
MayUseAny(p, s) == p \notin dead /\ activity[p] = None

MayUse(p, s) ==
    /\ p \notin dead
    /\ activity[p] = None
    /\ owner[s] \in {p, None}

HandleActivityStart(p) ==
    /\ Arrives(p, "start")
    /\ LET s == Head(toServer[p]).station
       IN  IF MayUse(p, s)
           THEN \E id \in SessionIds \ UsedIds :
                LET granted == [station |-> s, id |-> id]
                IN  /\ activity' = [activity EXCEPT ![p] = granted]
                    /\ owner' = [owner EXCEPT ![s] = p]
                    /\ toClient' = [toClient EXCEPT ![p] =
                            Append(@, [type |-> "granted", activity |-> granted])]
           ELSE /\ toClient' = [toClient EXCEPT ![p] =
                            Append(@, [type |-> "denied", station |-> s])]
                /\ UNCHANGED <<activity, owner>>
    /\ UNCHANGED <<connected, sleeping, dead, client, carried>>

HandleActivityEnd(p) ==
    /\ Arrives(p, "end")
    /\ IF activity[p] = None \/ activity[p].id # Head(toServer[p]).id
       THEN UNCHANGED <<activity, owner, toClient>>
       ELSE /\ owner' = Released(p)
            /\ activity' = [activity EXCEPT ![p] = None]
            /\ toClient' = WithEnd(p, toClient)
    /\ UNCHANGED <<connected, sleeping, dead, client, carried>>

ServerReceives(p) ==
    \/ HandleSleepState(p)
    \/ HandleDeath(p)
    \/ HandleRespawnRequest(p)
    \/ HandleActivityStart(p)
    \/ HandleActivityEnd(p)

---------------------------------------------------------------------------
(* The client handles the next message of the server.                      *)

Receives(p, type) ==
    /\ toClient[p] # <<>>
    /\ Head(toClient[p]).type = type
    /\ toClient' = [toClient EXCEPT ![p] = Tail(@)]
    /\ UNCHANGED <<server, carried, toServer>>

ReceiveSleepState(p) ==
    /\ Receives(p, "sleep_state")
    /\ LET state == Head(toClient[p])
       IN  client' = [client EXCEPT
                ![p].shown = state.sleepers,
                ![p].sleeping = @ /\ ~state.skipped]

ReceiveRespawn(p) ==
    /\ Receives(p, "respawn")
    /\ client' = IF client[p].dead /\ client[p].respawning
                 THEN [client EXCEPT ![p].dead = FALSE,
                                     ![p].respawning = FALSE]
                 ELSE [client EXCEPT ![p].closing = TRUE]

ReceiveGranted(p) ==
    /\ Receives(p, "granted")
    /\ LET granted == Head(toClient[p]).activity
       IN  client' = IF client[p].started = granted.station
                     THEN [client EXCEPT ![p].started = None,
                                         ![p].own = granted]
                     ELSE [client EXCEPT ![p].closing = TRUE]

ReceiveDenied(p) ==
    /\ Receives(p, "denied")
    /\ client' = IF client[p].started = Head(toClient[p]).station
                 THEN [client EXCEPT ![p].started = None]
                 ELSE [client EXCEPT ![p].closing = TRUE]

\* The own update of an activity that ended, for whatever reason.
ReceiveEnded(p) ==
    /\ Receives(p, "ended")
    /\ client' = [client EXCEPT ![p].own = None, ![p].started = None,
                                ![p].ending = FALSE]

ClientReceives(p) ==
    \/ ReceiveSleepState(p)
    \/ ReceiveRespawn(p)
    \/ ReceiveGranted(p)
    \/ ReceiveDenied(p)
    \/ ReceiveEnded(p)

---------------------------------------------------------------------------
Next ==
    \E p \in Players :
        \/ Join(p) \/ Leave(p) \/ Lose(p) \/ GiveUp(p)
        \/ LieDown(p) \/ Vote(p) \/ TakeBack(p) \/ Die(p) \/ RequestRespawn(p)
        \/ (\E s \in Stations : Begin(p, s)) \/ End(p)
        \/ ServerReceives(p)
        \/ ClientReceives(p)

Spec == Init /\ [][Next]_vars

\* Both loops poll their transport forever, and the streams are reliable.
FairSpec == Spec /\ \A p \in Players : WF_vars(ServerReceives(p))
                                       /\ WF_vars(ClientReceives(p))

---------------------------------------------------------------------------
(* Properties.                                                             *)

\* A station has the one owner whose activity runs there, and a player at
\* most one activity, whichever way activities end (release_activity in the
\* handlers of end, death and disconnect).
StationsMatchActivities ==
    \A s \in Stations, p \in Players :
        owner[s] = p <=> (activity[p] # None /\ activity[p].station = s)

\* The server's answers never take a client by surprise, however its starts,
\* ends, deaths and respawns cross them on the way: a client that is takes
\* the connection down (handle_game_message).
NoSurprise == \A p \in Players : ~client[p].closing

\* Once nothing is on its way, every player is shown the number of votes there
\* are, and client and server agree on the activity and on who is dead, but
\* for what the client kept over a reconnect: the fresh session knows nothing
\* of a death or an activity from before, and no message ever tells the client.
QuietPlayersAgree ==
    \A p \in connected :
        /\ toClient[p] = <<>> => client[p].shown = Cardinality(sleeping)
        /\ toClient[p] = <<>> /\ toServer[p] = <<>> =>
            /\ "activity" \notin carried[p] =>
                /\ client[p].own = activity[p]
                /\ client[p].started = None
            /\ "death" \notin carried[p] => (client[p].dead <=> p \in dead)

\* Who asks to respawn does so, or the session ends first, unless the client
\* was dead when it reconnected: the server then takes it to be alive and
\* ignores the request (handle_respawn_request).
RespawnsAreAnswered ==
    \A p \in Players :
        p \in connected /\ client[p].respawning /\ "death" \notin carried[p]
            ~> ~client[p].respawning \/ p \notin connected
============================================================================

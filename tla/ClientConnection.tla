-------------------------- MODULE ClientConnection --------------------------
(***************************************************************************)
(* One multiplayer_client: the user's thread (connect, disconnect), the    *)
(* game thread (one frame after the other) and the network thread (its     *)
(* command queue, its transport and the callbacks of the transport), with  *)
(* the server's side of the connection and the native sandbox as the two   *)
(* parties they talk to.                                                   *)
(*                                                                         *)
(* A step of a thread is what it does under one hold of m_state_mutex.     *)
(* Messages that change no phase are left out (pongs, too), except one:    *)
(* "play" stands for every message of a running session, which only        *)
(* `connected' accepts and which the game thread handles.  The native      *)
(* runtime is what Sandbox promises, and NativeWorld implements.           *)
(***************************************************************************)
EXTENDS Integers, Sequences

CONSTANTS MaxJoins,      \* bound on the user's calls of connect
          MaxAttempts,   \* the number of reconnect_delays
          Capacity,      \* the capacity of the game thread's queue
          MaxWire        \* bound on the server's messages under way

ASSUME BoundsAreNumbers ==
    {MaxJoins, MaxAttempts, Capacity, MaxWire} \subseteq Nat \ {0}

VARIABLES
    client,    \* [state, manual, wish, load]: what m_state_mutex guards
    commands,  \* m_network_commands: from the game to the network thread
    running,   \* the commands network_loop swapped out and has not run
    queue,     \* m_game_commands: from the network to the game thread
    frame,     \* where the game thread is in its frame
    batch,     \* the messages the frame drained and has not handled
    net,       \* [alive, link, again, attempt]: the locals of network_loop
    peer,      \* the stage the server has this connection in
    wire,      \* the server's messages the client has not read
    world,     \* the phase of the native sandbox
    prepared,  \* m_multiplayer_requested: the native gate may open
    joins,     \* calls of connect so far
    own        \* history: the connect command of this join has been run, for a
               \* client that waited for it and had nothing else to say

vars == <<client, commands, running, queue, frame, batch, net, peer, wire, world,
          prepared, joins, own>>

Phases == {"preflight", "authenticating", "waiting", "loading", "applying",
           "connected"}
Ended == {"closing", "disconnected"}
States == Phases \cup Ended \cup {"runtime", "connecting", "reconnecting"}

\* The commands of the network thread; the last two reach the server.
CommandNames == {"connect", "disconnect", "ready", "failed"}
ForGameThread == {"wait", "bootstrap", "accepted", "play"}
MessageNames == ForGameThread \cup {"challenge", "refused"}

Peers == {"none", "fresh", "greeted", "challenged", "known", "waiting",
          "loading", "ready", "playing", "sorry", "confused", "gone"}

\* The native runtime's contract, over world and prepared.
Sandbox == INSTANCE Sandbox

TypeOK ==
    /\ client \in [state: States, manual: BOOLEAN, wish: BOOLEAN,
                   load: BOOLEAN]
    /\ client.wish => client.state # "disconnected"
    /\ client.manual => client.state = "closing"
    /\ commands \in Seq(CommandNames) /\ running \in Seq(CommandNames)
    /\ queue \in Seq(ForGameThread) /\ Len(queue) <= Capacity
    /\ frame \in {"start", "handle", "begin", "tail", "leave"}
    /\ batch \in Seq(ForGameThread) /\ (batch # <<>> => frame \in {"handle", "begin"})
    /\ net \in [alive: BOOLEAN, link: {"none", "connecting", "open", "dead"},
                again: {"no", "set", "due"}, attempt: 0..MaxAttempts]
    /\ peer \in Peers
    /\ peer # "none" => net.link = "open"
    /\ wire \in Seq(MessageNames) /\ Len(wire) <= MaxWire
    /\ world \in Sandbox!Phases /\ prepared \in BOOLEAN
    /\ joins \in 0..MaxJoins
    /\ own \in BOOLEAN

Nothing == [state |-> "disconnected", manual |-> FALSE, wish |-> FALSE, load |-> FALSE]

Init ==
    /\ client = Nothing
    /\ commands = <<>> /\ running = <<>> /\ queue = <<>> /\ batch = <<>> /\ wire = <<>>
    /\ frame = "start"
    /\ net = [alive |-> TRUE, link |-> "none", again |-> "no", attempt |-> 0]
    /\ peer = "none"
    /\ Sandbox!Init
    /\ joins = 0
    /\ own = FALSE

-----------------------------------------------------------------------------
(* The phases.                                                             *)

Follows(from) ==
    CASE from = "disconnected"   -> {"runtime"}
      [] from = "runtime"        -> {"connecting"}
      [] from = "connecting"     -> {"preflight", "reconnecting"}
      [] from = "preflight"      -> {"authenticating", "reconnecting"}
      [] from = "authenticating" -> {"waiting", "loading", "reconnecting"}
      [] from = "waiting"        -> {"loading", "reconnecting"}
      [] from = "loading"        -> {"applying", "reconnecting"}
      [] from = "applying"       -> {"connected", "reconnecting"}
      [] from = "connected"      -> {"reconnecting"}
      [] from = "reconnecting"   -> {"connecting"}
      [] from = "closing"        -> {}

\* is_valid_client_transition
CanMove(from, to) ==
    \/ from = "disconnected" /\ to = "disconnected"
    \/ from = "closing" /\ to = "disconnected"
    \/ from \notin Ended /\ to \in Ended
    \/ to \in Follows(from)

\* transition_state_locked: a move the table refuses ends a running session.
To(c, s) ==
    IF ~ CanMove(c.state, s)
      THEN IF c.state \in Ended THEN c ELSE [c EXCEPT !.state = "closing"]
      ELSE IF s = "disconnected" THEN Nothing ELSE [c EXCEPT !.state = s]

\* is_server_message_allowed
Allowed(state, message) ==
    CASE message = "refused"   -> state \in Phases
      [] message = "challenge" -> state = "preflight"
      [] message \in {"wait", "bootstrap"} -> state \in {"authenticating", "waiting"}
      [] message = "accepted"  -> state = "applying"
      [] message = "play"      -> state = "connected"

-----------------------------------------------------------------------------
(* The user's thread.                                                      *)

Connect ==
    /\ joins < MaxJoins
    /\ client.state = "disconnected"
    /\ Sandbox!Prepare
    /\ client' = [To(client, "runtime") EXCEPT !.manual = FALSE, !.load = FALSE,
                                               !.wish = TRUE]
    /\ joins' = joins + 1
    /\ own' = FALSE
    /\ UNCHANGED <<commands, running, queue, frame, batch, net, peer, wire>>

Disconnect ==
    /\ client.state \notin Ended
    /\ client' = [To(client, "closing") EXCEPT !.manual = TRUE, !.wish = FALSE]
    /\ UNCHANGED <<commands, running, queue, frame, batch, net, peer, wire, world,
                   prepared, joins, own>>

\* A failure of the running session: closing, and the network thread is told.
Close(c) ==
    /\ client' = To(c, "closing")
    /\ commands' = Append(commands, "disconnect")

-----------------------------------------------------------------------------
(* The game thread.  A frame begins with native_runtime::on_frame, ticks   *)
(* the client unless it is disconnected, and ends with the frame handler's *)
(* own look at the client's state.                                         *)

\* advance_native_world_start, finish_native_unload_if_complete, and an epoch
\* that on_frame does not report.
WorldMoves ==
    /\ frame = "start"
    /\ Sandbox!Move \/ Sandbox!Conceal
    /\ UNCHANGED <<client, commands, running, queue, frame, batch, net, peer, wire,
                   joins, own>>

\* A load or a new game that is no unload of ours: runtime_epoch_changed,
\* which a client that waits for its world does not mind.
EpochChanges ==
    /\ frame = "start"
    /\ Sandbox!Invalidate
    /\ LET lost == [client EXCEPT !.load = FALSE, !.wish = FALSE]
       IN IF client.load /\ client.state = "loading"
            THEN UNCHANGED <<client, commands, queue>>
            ELSE /\ queue' = <<>>
                 /\ IF client.state \in Ended
                      THEN client' = lost /\ UNCHANGED commands
                      ELSE Close(lost)
    /\ UNCHANGED <<running, frame, batch, net, peer, wire, joins, own>>

\* advance_runtime_preflight: the native gate opens, or was closed again.
GateDecides == /\ client.state = "runtime" /\ client.wish
               /\ ~ (prepared /\ world \in Sandbox!Unloads)

Preflight ==
    IF prepared
         THEN /\ client' = [To(client, "connecting") EXCEPT !.wish = FALSE]
              /\ commands' = Append(commands, "connect")
         ELSE client' = To(client, "disconnected") /\ UNCHANGED commands

Drain == batch' = queue /\ queue' = <<>>

\* Mutant of StartTick: the flag is taken, the transport is not told.
StartTickForgetting ==
    /\ frame = "start"
    /\ \/ /\ client.state = "disconnected" \/ client.manual
          /\ frame' = "leave"
          /\ client' = [client EXCEPT !.manual = FALSE]
          /\ UNCHANGED <<commands, queue, batch>>
       \/ /\ client.state # "disconnected" /\ ~ client.manual
          /\ frame' = "handle" /\ Drain
          /\ IF GateDecides THEN Preflight ELSE UNCHANGED <<client, commands>>
    /\ UNCHANGED <<running, net, peer, wire, world, prepared, joins, own>>

\* game_tick up to the drained messages; a disconnect the user asked for ends
\* the tick, and a disconnected client has none.
StartTick ==
    /\ frame = "start"
    /\ \/ /\ client.state = "disconnected" \/ client.manual
          /\ frame' = "leave"
          /\ client' = [client EXCEPT !.manual = FALSE]
          /\ commands' = IF client.manual THEN Append(commands, "disconnect") ELSE commands
          /\ UNCHANGED <<queue, batch>>
       \/ /\ client.state # "disconnected" /\ ~ client.manual
          /\ frame' = "handle" /\ Drain
          /\ IF GateDecides THEN Preflight ELSE UNCHANGED <<client, commands>>
    /\ UNCHANGED <<running, net, peer, wire, world, prepared, joins, own>>

\* handle_game_envelope, up to the call of begin_sandbox
Handle ==
    /\ frame = "handle"
    /\ batch # <<>>
    /\ batch' = Tail(batch)
    /\ \/ /\ client.state \in Ended
          /\ UNCHANGED <<client, commands, frame>>
       \/ /\ client.state \notin Ended
          /\ Head(batch) \in {"wait", "bootstrap"}
          /\ IF client.state \notin {"waiting", "loading"}
               THEN Close(client) /\ UNCHANGED frame
               ELSE /\ frame' = IF Head(batch) = "bootstrap" THEN "begin" ELSE frame
                    /\ UNCHANGED <<client, commands>>
       \/ /\ client.state \notin Ended
          /\ Head(batch) = "accepted"
          /\ UNCHANGED <<client, commands, frame>>
       \/ /\ client.state \notin Ended
          /\ Head(batch) = "play"
          /\ \/ UNCHANGED <<client, commands>>
             \/ Close(client)
          /\ UNCHANGED frame
    /\ UNCHANGED <<running, queue, net, peer, wire, world, prepared, joins, own>>

\* begin_sandbox has returned; the other threads ran meanwhile.
Begin ==
    /\ frame = "begin"
    /\ frame' = "handle"
    /\ \/ /\ Sandbox!Started
          /\ IF client.state \in Ended
               THEN UNCHANGED client
               ELSE client' = [client EXCEPT !.load = TRUE]
          /\ UNCHANGED commands
       \/ /\ Sandbox!Refused
          /\ client' = To(client, "closing")
          /\ commands' = Append(commands, "failed")
    /\ UNCHANGED <<running, queue, batch, net, peer, wire, prepared, joins, own>>

\* Mutant of Advance: what is neither loading nor failed counts as ready.
AdvanceUnlessFailed ==
    /\ frame = "handle"
    /\ batch = <<>>
    /\ \/ /\ ~ client.load \/ world = "loading"
          /\ \/ UNCHANGED <<client, commands>>
             \/ client.state = "connected" /\ Close(client)
             \/ /\ client.state = "connected"
                /\ client' = To(client, "disconnected")
                /\ commands' = Append(commands, "disconnect")
          /\ UNCHANGED <<world, prepared>>
       \/ /\ client.load /\ world = "failed"
          /\ client' = To([client EXCEPT !.load = FALSE], "closing")
          /\ commands' = Append(commands, "failed")
          /\ Sandbox!End \/ UNCHANGED <<world, prepared>>
       \/ /\ client.load /\ world \notin {"loading", "failed"}
          /\ client' = To([client EXCEPT !.load = FALSE], "applying")
          /\ commands' = IF CanMove(client.state, "applying")
                           THEN Append(commands, "ready") ELSE commands
          /\ UNCHANGED <<world, prepared>>
    /\ frame' = IF client'.state \in Ended THEN "leave" ELSE "start"
    /\ UNCHANGED <<running, queue, batch, net, peer, wire, joins, own>>

\* Mutant of Advance: world_ready goes out whatever the phase is by now.
AdvanceAnyway ==
    /\ frame = "handle"
    /\ batch = <<>>
    /\ \/ /\ ~ client.load \/ world = "loading"
          /\ \/ UNCHANGED <<client, commands>>
             \/ client.state = "connected" /\ Close(client)
             \/ /\ client.state = "connected"
                /\ client' = To(client, "disconnected")
                /\ commands' = Append(commands, "disconnect")
          /\ UNCHANGED <<world, prepared>>
       \/ /\ client.load /\ world \in {"none", "failed"} \cup Sandbox!Unloads
          /\ client' = To([client EXCEPT !.load = FALSE], "closing")
          /\ commands' = Append(commands, "failed")
          /\ Sandbox!End \/ UNCHANGED <<world, prepared>>
       \/ /\ client.load /\ world = "ready"
          /\ client' = To([client EXCEPT !.load = FALSE], "applying")
          /\ commands' = Append(commands, "ready")
          /\ UNCHANGED <<world, prepared>>
    /\ frame' = IF client'.state \in Ended THEN "leave" ELSE "start"
    /\ UNCHANGED <<running, queue, batch, net, peer, wire, joins, own>>

\* advance_sandbox_bootstrap, once the drained messages are handled, and the
\* failures the rest of the frame reports: the wrong level, or fail.
Advance ==
    /\ frame = "handle"
    /\ batch = <<>>
    /\ \/ /\ ~ client.load \/ world = "loading"
          /\ \/ UNCHANGED <<client, commands>>
             \/ client.state = "connected" /\ Close(client)
             \/ /\ client.state = "connected"
                /\ client' = To(client, "disconnected")
                /\ commands' = Append(commands, "disconnect")
          /\ UNCHANGED <<world, prepared>>
       \/ /\ client.load /\ world \in {"none", "failed"} \cup Sandbox!Unloads
          /\ client' = To([client EXCEPT !.load = FALSE], "closing")
          /\ commands' = Append(commands, "failed")
          /\ Sandbox!End \/ UNCHANGED <<world, prepared>>
       \/ /\ client.load /\ world = "ready"
          /\ client' = To([client EXCEPT !.load = FALSE], "applying")
          /\ commands' = IF CanMove(client.state, "applying")
                           THEN Append(commands, "ready") ELSE commands
          /\ UNCHANGED <<world, prepared>>
    /\ frame' = IF client'.state \in Ended THEN "leave" ELSE "start"
    /\ UNCHANGED <<running, queue, batch, net, peer, wire, joins, own>>

\* The frame that saw an ended session ends the sandbox (end_sandbox) or the
\* preparation (cancel_multiplayer_preparation), whatever the state is by now.
Leave ==
    /\ frame = "leave"
    /\ frame' = "start"
    /\ Sandbox!End
    /\ UNCHANGED <<client, commands, running, queue, batch, net, peer, wire, joins,
                   own>>

-----------------------------------------------------------------------------
(* The network thread.                                                     *)

\* What the server makes of a message, by the stage it has the client in.
Received(stage, message) ==
    IF stage \in {"none", "gone"}
      THEN stage
      ELSE CASE message = "failed" -> "sorry"
             [] stage = "fresh" /\ message = "hello" -> "greeted"
             [] stage = "challenged" /\ message = "authenticate" -> "known"
             [] stage = "loading" /\ message = "ready" -> "ready"
             [] OTHER -> "confused"

NoLink == [net EXCEPT !.link = "none"]
Opened == [net EXCEPT !.link = "connecting"]

\* network_loop swaps the queue out, and finds what the callbacks before have
\* set: a reconnect is made after a swap, never in the loop that asked for it.
TakeCommands ==
    /\ net.alive /\ running = <<>>
    /\ commands # <<>> \/ net.again = "set"
    /\ running' = commands /\ commands' = <<>>
    /\ net' = IF net.again = "set" THEN [net EXCEPT !.again = "due"] ELSE net
    /\ UNCHANGED <<client, queue, frame, batch, peer, wire, world, prepared, joins,
                   own>>

\* connect_command; a timer that is set already stays so.
RunConnect ==
    /\ net' = [Opened EXCEPT !.attempt = 0]
    /\ peer' = "none" /\ wire' = <<>>
    /\ own' = (client.state = "connecting" /\ Tail(running) = <<>> /\ commands = <<>>)
    /\ UNCHANGED client

\* connect_command with an address that is no numeric IP and port: the
\* exception ends network_loop.
RunMisdirected ==
    /\ net' = [NoLink EXCEPT !.alive = FALSE]
    /\ peer' = "none" /\ wire' = <<>>
    /\ client' = To(client, "disconnected")
    /\ UNCHANGED own

RunDisconnect ==
    /\ net' = [NoLink EXCEPT !.again = "no"]
    /\ peer' = "none" /\ wire' = <<>>
    /\ client' = To(client, "disconnected")
    /\ UNCHANGED own

\* What is to be sent is lost without a connection.
RunSend(message) ==
    /\ peer' = IF net.link = "open" THEN Received(peer, message) ELSE peer
    /\ UNCHANGED <<client, net, wire, own>>

RunCommand ==
    /\ net.alive
    /\ running # <<>>
    /\ running' = Tail(running)
    /\ CASE Head(running) = "connect"    -> RunConnect \/ RunMisdirected
         [] Head(running) = "disconnect" -> RunDisconnect
         [] OTHER                        -> RunSend(Head(running))
    /\ UNCHANGED <<commands, queue, frame, batch, world, prepared, joins>>

\* The commands it took are run: network_loop reconnects and polls, whatever
\* has been queued since.
Polls == net.alive /\ running = <<>>

Reconnect ==
    /\ Polls
    /\ net.link = "none" /\ net.again = "due"
    /\ client' = To(client, "connecting")
    /\ net' = [(IF CanMove(client.state, "connecting") THEN Opened ELSE net)
                 EXCEPT !.again = "no"]
    /\ UNCHANGED <<commands, running, queue, frame, batch, peer, wire, world, prepared,
                   joins, own>>

\* The connected callback: ClientHello goes out, or cannot be sent.
LinkOpens ==
    /\ Polls
    /\ net.link = "connecting"
    /\ net' = [net EXCEPT !.link = "open"]
    /\ \/ /\ client' = To(client, "preflight")
          /\ peer' = IF CanMove(client.state, "preflight")
                       THEN Received("fresh", "hello") ELSE "fresh"
       \/ /\ CanMove(client.state, "preflight")
          /\ client' = To(client, "disconnected")
          /\ peer' = "fresh"
    /\ UNCHANGED <<commands, running, queue, frame, batch, wire, world, prepared, joins,
                   own>>

\* Mutant of LinkEnds: the phase outlives its link.
LinkEndsQuietly ==
    /\ Polls
    /\ net.link \in {"connecting", "open"}
    /\ peer' = "none" /\ wire' = <<>>
    /\ LET retry == peer # "gone" /\ net.attempt < MaxAttempts
       IN IF client.state \in Ended \/ ~ retry
            THEN /\ client' = To(client, "disconnected")
                 /\ net' = NoLink
            ELSE /\ UNCHANGED client
                 /\ net' = [NoLink EXCEPT !.again = "set", !.attempt = @ + 1]
    /\ UNCHANGED <<commands, running, queue, frame, batch, world, prepared, joins,
                   own>>

\* Mutant of LinkEnds: the attempt is not counted.
LinkEndsUncounted ==
    /\ Polls
    /\ net.link \in {"connecting", "open"}
    /\ peer' = "none" /\ wire' = <<>>
    /\ LET retry == peer # "gone" /\ net.attempt < MaxAttempts
       IN IF client.state \in Ended \/ ~ retry
            THEN /\ client' = To(client, "disconnected")
                 /\ net' = NoLink
            ELSE /\ client' = To(client, "reconnecting")
                 /\ net' = [NoLink EXCEPT !.again = "set"]
    /\ UNCHANGED <<commands, running, queue, frame, batch, world, prepared, joins,
                   own>>

\* The disconnected callback: the peer closed, or the link was lost.
LinkEnds ==
    /\ Polls
    /\ net.link \in {"connecting", "open"}
    /\ peer' = "none" /\ wire' = <<>>
    /\ LET retry == peer # "gone" /\ net.attempt < MaxAttempts
       IN IF client.state \in Ended \/ ~ retry
            THEN /\ client' = To(client, "disconnected")
                 /\ net' = NoLink
            ELSE /\ client' = To(client, "reconnecting")
                 /\ net' = [NoLink EXCEPT !.again = "set", !.attempt = @ + 1]
    /\ UNCHANGED <<commands, running, queue, frame, batch, world, prepared, joins,
                   own>>

\* abort_connection closes the link without a callback; the transport stays.
Abort(attempt) ==
    /\ net' = [net EXCEPT !.link = "dead", !.attempt = attempt]
    /\ peer' = "none" /\ wire' = <<>>

\* The message gate.
RefuseMessage ==
    /\ client' = To(client, "closing")
    /\ Abort(net.attempt)
    /\ UNCHANGED queue

\* A refusal, a shutdown, or a challenge for features the client has not.
TakeRefusal ==
    /\ client' = To(client, "disconnected")
    /\ Abort(net.attempt)
    /\ UNCHANGED queue

\* ClientAuthenticate goes out, or cannot be sent.
TakeChallenge ==
    /\ \/ /\ client' = To(client, "authenticating")
          /\ peer' = Received(peer, "authenticate")
       \/ client' = To(client, "disconnected") /\ UNCHANGED peer
    /\ wire' = Tail(wire)
    /\ UNCHANGED <<net, queue>>

\* The phase a message moves the client to.
PhaseAfter(message) ==
    CASE message = "wait"      -> To(client, "waiting")
      [] message = "bootstrap" -> To(client, "loading")
      [] message = "accepted"  -> To(client, "connected")
      [] message = "play"      -> client

\* The message is left to the game thread, if its queue has room for it.
PassToGame(message) ==
    LET attempt == IF message = "accepted" THEN 0 ELSE net.attempt
    IN IF Len(queue) < Capacity
         THEN /\ queue' = Append(queue, message)
              /\ client' = PhaseAfter(message)
              /\ net' = [net EXCEPT !.attempt = attempt]
              /\ wire' = Tail(wire)
              /\ UNCHANGED peer
         ELSE /\ client' = To(PhaseAfter(message), "disconnected")
              /\ Abort(attempt)
              /\ UNCHANGED queue

\* The message callback.
Receive ==
    /\ Polls
    /\ net.link = "open"
    /\ wire # <<>>
    /\ LET message == Head(wire) IN
       \/ ~ Allowed(client.state, message) /\ RefuseMessage
       \/ /\ Allowed(client.state, message)
          /\ \/ message \in {"refused", "challenge"} /\ TakeRefusal
             \/ message = "challenge" /\ TakeChallenge
             \/ message \in ForGameThread /\ PassToGame(message)
    /\ UNCHANGED <<commands, running, frame, batch, world, prepared, joins, own>>

-----------------------------------------------------------------------------
(* The server, as far as the client's phases see it.                       *)

Says(message, stage) ==
    /\ Len(wire) < MaxWire
    /\ wire' = Append(wire, message)
    /\ peer' = stage
    /\ UNCHANGED <<client, commands, running, queue, frame, batch, net, world, prepared,
                   joins, own>>

Challenge == peer = "greeted" /\ Says("challenge", "challenged")
LetWait == peer = "known" /\ Says("wait", "waiting")
Bootstrap == peer \in {"known", "waiting"} /\ Says("bootstrap", "loading")
Accept == peer = "ready" /\ Says("accepted", "playing")
Play == peer = "playing" /\ Says("play", "playing")

\* reject, a kick or a shutdown: the message, then the close.
Refuse == peer \notin {"none", "gone"} /\ Says("refused", "gone")

-----------------------------------------------------------------------------
User == Disconnect \/ Connect
Tick == StartTick \/ Handle \/ Begin \/ Advance \/ Leave
Game == WorldMoves \/ EpochChanges \/ Tick
Commands == TakeCommands \/ RunCommand
Network == Commands \/ Reconnect \/ LinkOpens \/ LinkEnds \/ Receive
Server == Challenge \/ LetWait \/ Bootstrap \/ Accept \/ Play \/ Refuse

Next == User \/ Game \/ Network \/ Server

Spec == Init /\ [][Next]_vars

\* Frames run, native loads and unloads that are not stuck end, the network
\* thread loops, a connection attempt opens or ends, and the server reads what
\* it is sent and refuses a connection that does not get on (its pending
\* deadline), of which the client hears.
Fairness ==
    /\ WF_vars(Tick)
    /\ SF_vars(StartTick /\ world \notin Sandbox!Unloads)
    /\ SF_vars(WorldMoves /\ world \in {"loading", "unloading"} /\ world' # world)
    /\ WF_vars(Commands) /\ WF_vars(Reconnect) /\ WF_vars(Receive)
    /\ WF_vars((LinkOpens \/ LinkEnds) /\ (net.link = "connecting" \/ peer = "gone"))
    /\ SF_vars(Refuse /\ peer # "playing")

FairSpec == Spec /\ Fairness

-----------------------------------------------------------------------------
(* Properties.                                                             *)

\* A player is only in a session while the world it loaded for it is ready:
\* whatever epoch, failure or disconnect ends the world takes the session with
\* it before the next message is handled (runtime_epoch_changed,
\* advance_sandbox_bootstrap, the end of the frame).
SessionHasWorld == client.state \in {"applying", "connected"} => world = "ready"

\* The stages in which the server may have a client that is in a phase.
Counterparts(state) ==
    CASE state = "preflight"      -> {"greeted", "challenged"}
      [] state = "authenticating" -> {"known", "waiting", "loading"}
      [] state = "waiting"        -> {"waiting", "loading"}
      [] state = "loading"        -> {"loading"}
      [] state = "applying"       -> {"loading", "ready", "playing"}
      [] state = "connected"      -> {"playing"}

\* Through reconnects, refusals, stale commands and messages of the connection
\* before, client and server agree on how far the join is: a client in a phase
\* has an open connection, and the server has that very connection in a stage
\* of the same step or has just given it up.  This is so from the connect command
\* of the join on; what is left of an earlier join, a link that opens late or a
\* reconnect that falls due, may carry the client on before.
PhasesMatch ==
    client.state \in Phases /\ own =>
        /\ net.link = "open"
        /\ peer \in Counterparts(client.state) \cup {"gone"}

\* What the client says is what the server's stage waits for: a world_ready or
\* credentials of an earlier connection never reach a later one.
SaysWhatFits == peer = "confused" => ~ own

\* A disconnect the user asked for ends the session, whatever the network, the
\* server and the native world do meanwhile, while the network thread lives.
UserDisconnectEnds ==
    client.manual ~> (client.state = "disconnected" \/ ~ net.alive)

\* A join does not hang: with the reconnects it is granted it is connected, or
\* it ends, or it is closing, while the network thread lives.
JoinsSettle ==
    (client.state \notin Ended)
        ~> (client.state \in Ended \cup {"connected"} \/ ~ net.alive \/ world = "stuck")

\* "A failure first enters closing and then reaches disconnected via
\* intentional transport teardown" (transition_state_locked).
ClosingEnds ==
    (client.state = "closing") ~> (client.state = "disconnected" \/ ~ net.alive)

=============================================================================

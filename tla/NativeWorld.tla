----------------------------- MODULE NativeWorld -----------------------------
(***************************************************************************)
(* The native runtime's side of a join (src/src/kcse/native_runtime.cpp):  *)
(* it adopts or starts the game's world, watches it come up and unloads it *)
(* again, on the frames of the game thread (src/src/kcse/plugin.cpp),      *)
(* while the user plays with the game's own menu.                          *)
(*                                                                         *)
(* A frame is three steps: on_frame, the tick of the client, and the frame *)
(* handler's end.  The user's thread and the network thread run between    *)
(* them; the game itself moves between two frames.  The client is that of  *)
(* ClientConnection, cut down to the calls it makes.                       *)
(***************************************************************************)
EXTENDS Naturals

CONSTANT MaxLoads  \* bound: loads, new games and returns to the menu by the user

ASSUME MaxLoadsIsNumber == MaxLoads \in Nat

VARIABLES
    game,      \* where the engine is, see Places
    asked,     \* a debug New Game was asked for and has not begun
    unload,    \* our unload command: the engine's console holds it, or would
               \* not take it
    data,      \* m_data_loaded
    lifecycle, \* m_world_lifecycle_seen
    epoch,     \* m_epoch_invalidated
    native,    \* the rest of native_runtime, see TypeOK
    frame,     \* the step the frame does next
    client,    \* [state, load, manual, error], see TypeOK
    loads      \* what the user did with the game's menu, counted

vars == <<game, asked, unload, data, lifecycle, epoch, native, frame, client, loads>>
engine == <<game, asked, unload, data, lifecycle>>

\* No game context; a load or a new game under way; DataLoaded, but no player
\* yet; the player is in the level the server asks for, or in another one.
Places == {"menu", "loading", "spawning", "target", "other"}
InWorld == {"target", "other"}

TypeOK ==
    /\ game \in Places
    /\ {asked, data, lifecycle, epoch} \subseteq BOOLEAN
    /\ unload \in {"none", "queued", "refused"}
    /\ native \in [requested : BOOLEAN,  \* m_multiplayer_requested
                   active : BOOLEAN,     \* m_sandbox_active
                   pending : BOOLEAN,    \* m_unload_pending
                   menu : BOOLEAN,       \* m_main_menu_pending
                   expected : BOOLEAN,   \* m_expected_epoch_transition
                   locked : BOOLEAN,     \* m_save_load_locked
                   \* m_world_start_bootstrap, with its requires_lifecycle or
                   \* the failed stage
                   start : {"none", "loaded", "new", "failed"},
                   phase : {"none", "loading", "ready", "failed", "unloading"},
                   probe : {"none", "running", "done", "failed"}]
    /\ frame \in {"start", "tick", "poll", "end", "endWithError"}
    /\ client \in [state : {"idle", "runtime", "joining", "loading", "session", "closing"},
                   load : BOOLEAN,       \* m_pending_bootstrap
                   manual : BOOLEAN,     \* m_manual_disconnect_pending
                   error : BOOLEAN]      \* m_status.error
    /\ loads <= MaxLoads

Init ==
    /\ game = "menu" /\ asked = FALSE /\ unload = "none"
    /\ data = FALSE /\ lifecycle = FALSE /\ epoch = FALSE
    /\ native = [requested |-> FALSE, active |-> FALSE, pending |-> FALSE, menu |-> FALSE,
                 expected |-> FALSE, locked |-> FALSE, start |-> "none",
                 phase |-> "none", probe |-> "none"]
    /\ frame = "start"
    /\ client = [state |-> "idle", load |-> FALSE, manual |-> FALSE, error |-> FALSE]
    /\ loads = 0

-----------------------------------------------------------------------------
(* The runtime's functions, as what they make of its state n.              *)

\* finish_native_unload_if_complete.
Finished(n) ==
    IF n.pending /\ game = "menu"
      THEN [n EXCEPT !.pending = FALSE, !.active = FALSE, !.phase = "none",
                     !.locked = FALSE, !.menu = TRUE]
      ELSE n

\* begin_native_unload.
Unloading(n) ==
    Finished([n EXCEPT !.pending = TRUE, !.active = TRUE, !.phase = "unloading"])

\* cancel_multiplayer_preparation.
Cancelled(n) ==
    IF ~n.requested /\ n.probe = "none" THEN n
    ELSE [n EXCEPT !.requested = FALSE, !.expected = FALSE, !.start = "none",
                   !.probe = "none",
                   !.phase = IF n.active \/ n.pending THEN n.phase ELSE "none"]

\* end_sandbox.
Ended(n, error) ==
    LET nothing == ~n.active /\ n.start = "none"
    IN  CASE n.pending -> n
          [] ~n.pending /\ nothing /\ ~error -> n
          [] ~n.pending /\ nothing /\ error /\ game = "menu" ->
                Cancelled([n EXCEPT !.menu = TRUE, !.phase = "none"])
          [] OTHER -> Unloading([n EXCEPT !.start = "none", !.expected = FALSE])

\* fail_native_world_start.
StartFailed(n) == [n EXCEPT !.start = "failed", !.phase = "failed", !.expected = FALSE]

\* activate_loaded_sandbox: profile and world are applied; or the state was
\* left, or put back, as it was; or what was changed could not be put back.
Activated(n) == [n EXCEPT !.active = TRUE, !.phase = "ready", !.locked = TRUE,
                          !.start = "none", !.expected = FALSE]
NotActivated(n) == {n, [n EXCEPT !.locked = FALSE], Unloading([n EXCEPT !.locked = TRUE])}

\* Mutant of Invalidated: saving stays disabled after the old world is gone.
InvalidatedLocked(n) ==
    LET left == [n EXCEPT !.probe = "none"]
    IN  CASE n.expected -> [left EXCEPT !.phase = "loading"]
          [] ~n.expected /\ n.pending -> [left EXCEPT !.requested = FALSE]
          [] OTHER -> [left EXCEPT !.requested = FALSE, !.active = FALSE, !.phase = "none"]

\* invalidate_epoch_on_game_thread.
Invalidated(n) ==
    LET left == [n EXCEPT !.probe = "none"]
    IN  CASE n.expected -> [left EXCEPT !.phase = "loading"]
          [] ~n.expected /\ n.pending -> [left EXCEPT !.requested = FALSE]
          [] OTHER -> [left EXCEPT !.requested = FALSE, !.locked = FALSE,
                                   !.active = FALSE, !.phase = "none"]

\* refresh_cached_state: the probe begins with the request and the player, and
\* has its result within 900 frames.
Refreshed(n) ==
    IF n.requested /\ game \in InWorld /\ n.probe \in {"none", "running"}
      THEN {[n EXCEPT !.probe = p] : p \in {"running", "done", "failed"}}
      ELSE {n}

\* required_client_runtime_capabilities, in the level of the server.
Capable(n) == n.requested /\ n.probe = "done" /\ game = "target"

\* Mutant of Advanced: a world that was adopted has no deadline.
AdvancedPatiently(n, late) ==
    CASE n.start \in {"none", "failed"} -> {n}
      [] n.start = "new" /\ late -> {StartFailed(n)}
      [] n.start = "new" /\ ~late /\ ~lifecycle -> {n}
      [] OTHER -> IF ~data \/ game # "target" THEN {n}
                  ELSE IF n.probe = "failed" THEN {StartFailed(n)}
                  ELSE IF ~Capable(n) THEN {n}
                  ELSE {Activated(n)} \cup {StartFailed(m) : m \in NotActivated(n)}

\* advance_native_world_start.
Advanced(n, late) ==
    CASE n.start \in {"none", "failed"} -> {n}
      [] n.start \in {"loaded", "new"} /\ late -> {StartFailed(n)}
      [] n.start = "new" /\ ~late /\ ~lifecycle -> {n}
      [] OTHER -> IF ~data \/ game # "target" THEN {n}
                  ELSE IF n.probe = "failed" THEN {StartFailed(n)}
                  ELSE IF ~Capable(n) THEN {n}
                  ELSE {Activated(n)} \cup {StartFailed(m) : m \in NotActivated(n)}

\* open_main_menu_if_pending: only at the menu, and once it is there.
MenuOpened(n) ==
    IF n.menu /\ game = "menu" THEN {n, [n EXCEPT !.menu = FALSE]} ELSE {n}

\* The unload command is queued where an unload begins with a game context.
\* Nobody looks at what execute_console_command returns: where it fails, the
\* unload is pending without a command.
Queued(n) ==
    unload' \in CASE n.pending /\ ~native.pending /\ unload # "queued" ->
                           {"queued", "refused"}
                  [] ~n.pending /\ unload = "refused" -> {"none"}
                  [] OTHER -> {unload}

-----------------------------------------------------------------------------
(* The game thread.                                                        *)

\* runtime_epoch_changed: nothing, while the client waits for the epoch.
EpochChanged(n) ==
    IF client.load /\ client.state = "loading"
      THEN native' = n /\ UNCHANGED client
      ELSE /\ native' = IF n.active THEN Ended(n, TRUE) ELSE Cancelled(n)
           /\ client' =
                  CASE client.state = "idle" -> [client EXCEPT !.load = FALSE, !.error = FALSE]
                    [] client.state = "closing" -> [client EXCEPT !.load = FALSE]
                    [] OTHER -> [client EXCEPT !.state = "closing", !.load = FALSE, !.error = TRUE]

\* on_frame, and what the frame handler does if it reports a new epoch.
OnFrame(late) ==
    /\ frame = "start"
    /\ frame' = "tick"
    /\ epoch' = FALSE
    /\ \E n \in Refreshed(IF epoch THEN Invalidated(native) ELSE native) :
       \E m \in Advanced(n, late) :
       \E o \in MenuOpened(Finished(m)) :
          IF epoch /\ ~(native.pending \/ native.menu)
            THEN EpochChanged(o)
            ELSE native' = o /\ UNCHANGED client
    /\ Queued(native')
    /\ UNCHANGED <<game, asked, data, lifecycle, loads>>

\* The end of the frame follows the status the tick has left.
TickEnds(c) ==
    frame' = CASE c.state \notin {"idle", "closing"} -> "start"
               [] c.state \in {"idle", "closing"} /\ c.error -> "endWithError"
               [] c.state \in {"idle", "closing"} /\ ~c.error -> "end"

\* A failure: closing, unless the session is over anyway.
Fails(c) ==
    IF c.state \in {"idle", "closing"} THEN [c EXCEPT !.load = FALSE]
    ELSE [c EXCEPT !.state = "closing", !.load = FALSE, !.error = TRUE]

\* A disconnected client has no tick, and the user's disconnect ends it.
TickSkipped ==
    /\ frame = "tick"
    /\ client.state = "idle" \/ client.manual
    /\ client' = [client EXCEPT !.manual = FALSE]
    /\ TickEnds(client)
    /\ UNCHANGED <<engine, epoch, native, loads>>

Ticks == frame = "tick" /\ client.state # "idle" /\ ~client.manual /\ frame' = "poll"

\* advance_runtime_preflight, and no bootstrap among the messages.
TickClient ==
    /\ Ticks
    /\ CASE client.state = "runtime" /\ ~native.requested ->
               client' = [client EXCEPT !.state = "idle", !.error = TRUE]
         [] client.state = "runtime" /\ native.requested /\ ~native.pending ->
               client' = [client EXCEPT !.state = "joining"]
         [] OTHER -> UNCHANGED client
    /\ UNCHANGED <<engine, epoch, native, loads>>

\* begin_sandbox adopts the world the player is in (activate_loaded_sandbox,
\* now or once the probe is done), or starts one (begin_native_world_start).
CanAdopt == game = "target" /\ data
CanStart == game \notin InWorld /\ game = "menu" /\ native.start = "none"
NewStart == [native EXCEPT !.start = "new", !.phase = "loading", !.expected = TRUE]

BootstrapStarts ==
    \/ /\ CanAdopt
       /\ native' = IF Capable(native) THEN Activated(native)
                    ELSE [native EXCEPT !.start = "loaded", !.phase = "loading"]
       /\ UNCHANGED <<asked, lifecycle>>
    \/ CanStart /\ native' = NewStart /\ asked' = TRUE /\ lifecycle' = FALSE

BootstrapFails ==
    \/ CanAdopt /\ Capable(native) /\ native' \in NotActivated(native)
       /\ UNCHANGED <<asked, lifecycle>>
    \/ ~CanAdopt /\ ~CanStart /\ UNCHANGED <<native, asked, lifecycle>>
    \/ CanStart /\ native' = StartFailed(NewStart) /\ lifecycle' = FALSE
       /\ UNCHANGED asked

\* A ServerBootstrap among the messages.
TickBootstrap ==
    /\ Ticks
    /\ client.state = "joining"
    /\ \/ BootstrapStarts /\ client' = [client EXCEPT !.state = "loading", !.load = TRUE]
       \/ BootstrapFails /\ client' = Fails(client)
    /\ Queued(native')
    /\ UNCHANGED <<game, data, epoch, loads>>

\* advance_sandbox_bootstrap.
PollWorld ==
    /\ frame = "poll"
    /\ CASE ~client.load \/ native.phase = "loading" -> UNCHANGED <<client, native>>
         [] client.load /\ native.phase = "ready" ->
               /\ client' = IF client.state = "loading"
                              THEN [client EXCEPT !.state = "session", !.load = FALSE]
                              ELSE Fails(client)
               /\ UNCHANGED native
         [] OTHER -> client' = Fails(client) /\ native' = Ended(native, TRUE)
    /\ TickEnds(client')
    /\ Queued(native')
    /\ UNCHANGED <<game, asked, data, lifecycle, epoch, loads>>

\* The end of the frame, with the status the tick has left.
FrameEnds ==
    /\ frame \in {"end", "endWithError"}
    /\ frame' = "start"
    /\ native' = IF native.active \/ frame = "endWithError"
                   THEN Ended(native, frame = "endWithError")
                   ELSE Cancelled(native)
    /\ Queued(native')
    /\ UNCHANGED <<game, asked, data, lifecycle, epoch, client, loads>>

-----------------------------------------------------------------------------
(* The other threads.                                                      *)

\* The Connect button: prepare_multiplayer.
Connect ==
    /\ client.state = "idle"
    /\ ~native.pending
    /\ client' = [state |-> "runtime", load |-> FALSE, manual |-> FALSE, error |-> FALSE]
    /\ native' = [native EXCEPT !.requested = TRUE]
    /\ UNCHANGED <<engine, epoch, frame, loads>>

\* The Disconnect button.
Disconnect ==
    /\ client.state \notin {"idle", "closing"}
    /\ client' = [client EXCEPT !.state = "closing", !.manual = TRUE, !.error = FALSE]
    /\ UNCHANGED <<engine, epoch, native, frame, loads>>

\* A rejection, a lost connection that is joined again, the end of a closed one.
Network ==
    /\ \/ client.state \notin {"idle", "closing", "runtime"} /\ client' = Fails(client)
       \/ /\ client.state \in {"loading", "session"}
          /\ client' = [client EXCEPT !.state = "joining"]
       \/ /\ client.state = "closing"
          /\ client' = [client EXCEPT !.state = "idle", !.load = FALSE, !.manual = FALSE]
    /\ UNCHANGED <<engine, epoch, native, frame, loads>>

-----------------------------------------------------------------------------
(* The engine, between two frames: external.                               *)

\* PreDataLoaded, NewGame or LoadGame.
LoadBegins ==
    /\ game' = "loading" /\ data' = FALSE /\ lifecycle' = TRUE /\ epoch' = TRUE
    /\ UNCHANGED <<native, frame, client>>

\* The New Game of NewWorld.
NewGameBegins ==
    /\ frame = "start" /\ asked /\ game = "menu"
    /\ asked' = FALSE
    /\ LoadBegins
    /\ UNCHANGED <<unload, loads>>

\* The user loads a save or begins a game of his own.  While the engine unloads
\* there is no menu to do that from, until the unload is over and
\* open_main_menu_if_pending has run; a stuck unload leaves him where he is.
UserLoads ==
    /\ frame = "start" /\ loads < MaxLoads
    /\ ~asked /\ (native.pending => unload = "refused")
    /\ game \in InWorld => ~native.locked
    /\ game \in {"menu"} \cup InWorld
    /\ loads' = loads + 1
    /\ LoadBegins
    /\ UNCHANGED <<asked, unload>>

\* DataLoaded, later the player.
LoadEnds ==
    /\ frame = "start"
    /\ \/ /\ game = "loading" /\ game' = "spawning"
          /\ data' = TRUE /\ lifecycle' = TRUE /\ epoch' = TRUE
       \/ game = "spawning" /\ game' \in InWorld /\ UNCHANGED <<data, lifecycle, epoch>>
    /\ UNCHANGED <<asked, unload, native, frame, client, loads>>

MenuReached ==
    /\ game' = "menu" /\ data' = FALSE /\ lifecycle' = TRUE /\ epoch' = TRUE
    /\ UNCHANGED <<asked, native, frame, client>>

\* The user leaves the world himself.
UserQuits ==
    /\ frame = "start" /\ loads < MaxLoads /\ game \in InWorld
    /\ loads' = loads + 1
    /\ MenuReached
    /\ UNCHANGED unload

\* The engine runs the deferred unload command.
UnloadRuns ==
    /\ frame = "start" /\ unload = "queued"
    /\ unload' = "none"
    /\ MenuReached
    /\ UNCHANGED loads

-----------------------------------------------------------------------------
Frame == (\E late \in BOOLEAN : OnFrame(late)) \/ TickSkipped \/ TickClient
         \/ TickBootstrap \/ PollWorld \/ FrameEnds
Engine == NewGameBegins \/ UserLoads \/ LoadEnds \/ UserQuits \/ UnloadRuns

Next == Frame \/ Connect \/ Disconnect \/ Network \/ Engine

Spec == Init /\ [][Next]_vars

\* Frames run, the engine runs the commands its console holds, and the deadline
\* of a start that goes on forever passes (30 to 600 seconds).
Fairness ==
    /\ WF_vars(\E late \in BOOLEAN : OnFrame(late))
    /\ WF_vars(TickSkipped \/ TickClient \/ TickBootstrap)
    /\ WF_vars(PollWorld) /\ WF_vars(FrameEnds)
    /\ SF_vars(OnFrame(TRUE) /\ native.start \in {"loaded", "new"})
    /\ SF_vars(UnloadRuns)

FairSpec == Spec /\ Fairness

-----------------------------------------------------------------------------
\* What the client is built on: the runtime implements it, liveness included.
\* While an unload is pending, that is what it does, whatever it reports; it is
\* stuck where the console would not take the command.
Sandbox == INSTANCE Sandbox WITH
    world <- IF ~native.pending THEN native.phase
             ELSE IF unload = "refused" THEN "stuck" ELSE "unloading",
    prepared <- native.requested

SandboxContract == Sandbox!Contract

\* While the client is in a session the user cannot save the server's world,
\* and no end of a session, whether by an error, a new epoch or an unload,
\* leaves his own games without saves (AllowSave, restore_save_load).
SavesAreLocked ==
    /\ client.state = "session" /\ native.phase = "ready" => native.locked
    /\ native.locked => native.active \/ native.pending
=============================================================================

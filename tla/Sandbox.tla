------------------------------- MODULE Sandbox -------------------------------
(***************************************************************************)
(* What the client may expect of its runtime (client_runtime in            *)
(* src/src/multiplayer/runtime.hpp): the phase that                        *)
(* poll_sandbox tells it and the gate that prepare_multiplayer opens.      *)
(* NativeWorld implements it, ClientConnection is built on it.             *)
(***************************************************************************)
VARIABLES
    world,     \* the phase of the native sandbox
    prepared   \* the native gate may open

vars == <<world, prepared>>

\* An unload is under way, or it has got stuck: the console would not take its
\* command.  The client is told the same of both.
Unloads == {"unloading", "stuck"}
Phases == {"none", "loading", "ready", "failed"} \cup Unloads

Init == world = "none" /\ prepared = FALSE

\* The user asks to join: the gate opens unless a world is being unloaded.
Prepare ==
    /\ world \notin Unloads
    /\ prepared' = TRUE
    /\ UNCHANGED world

\* A bootstrap is begun: the world loads or is ready at once, or it cannot be
\* used, as it is, after a try, or as the start has left it.
Started == world \in {"none", "ready", "loading", "failed"} /\ world' \in {"loading", "ready"}
Refused == \/ world' = world
           \/ world \notin Unloads /\ world' \in Unloads \cup {"failed"}

\* A frame passes: a load comes to its end, an unload to its own, or a load
\* the runtime did not start takes the world away.  An unload that is stuck
\* ends when the user leaves the world himself.  A start may outlive the
\* session that made it (cancel_multiplayer_preparation returns early once a
\* new epoch has closed the gate) and come to its end then.
Move ==
    /\ \/ world \in {"none", "loading"} /\ world' \in Phases \ {"loading"}
       \/ world \in Unloads /\ world' = "none"
    /\ prepared' \in {prepared, FALSE}

\* The epoch changed: nothing of the old world is left.
Invalidate ==
    /\ world \notin Unloads
    /\ world' = "none"
    /\ prepared' = FALSE

\* The frame that found an epoch changed keeps it to itself, as the world is
\* being unloaded or the main menu is yet to be opened.
Conceal ==
    /\ \/ world \in Unloads /\ world' \in {world, "none"}
       \/ world = "none" /\ world' = "none"
    /\ prepared' = FALSE

\* The client ends the sandbox or takes its preparation back.
End ==
    \/ /\ world' \in {"none"} \cup (IF world \in Unloads THEN {world} ELSE Unloads)
       /\ UNCHANGED prepared
    \/ world \notin {"ready"} \cup Unloads /\ world' = "none" /\ prepared' = FALSE

Next == \/ Prepare
        \/ (Started \/ Refused) /\ UNCHANGED prepared
        \/ Move \/ Invalidate \/ Conceal \/ End

Spec == Init /\ [][Next]_vars

\* A load is over some day, and so is an unload that is not stuck.
LoadsEnd == world = "loading" ~> world # "loading"
UnloadsEnd == world = "unloading" ~> world # "unloading"

Contract == Spec /\ LoadsEnd /\ UnloadsEnd
==============================================================================

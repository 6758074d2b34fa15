-------------------------- MODULE NativeWorldProofs --------------------------
(***************************************************************************)
(* Theorems about NativeWorld, for any number of loads: each of its steps  *)
(* is one that the contract Sandbox allows, and saving is locked while the *)
(* client is in a session.                                                 *)
(***************************************************************************)
EXTENDS NativeWorld, TLAPS

Native == [requested : BOOLEAN, active : BOOLEAN, pending : BOOLEAN, menu : BOOLEAN,
           expected : BOOLEAN, locked : BOOLEAN,
           start : {"none", "loaded", "new", "failed"},
           phase : {"none", "loading", "ready", "failed", "unloading"},
           probe : {"none", "running", "done", "failed"}]

\* What poll_sandbox reports of a runtime in state n.
World(n) == IF n.pending THEN "unloading" ELSE n.phase

Starting(n) == n.start \in {"loaded", "new"}

\* What holds of the runtime in every state.  A world that is ready or being
\* unloaded is active, saving is locked in an active one only, and a new epoch
\* is expected only while a start is loading.
Consistent(n) ==
    /\ n \in Native
    /\ n.phase = "ready" => n.active
    /\ n.phase = "unloading" => n.pending
    /\ n.pending => n.active /\ ~n.expected
    /\ n.locked => n.active
    /\ n.expected => Starting(n) /\ n.phase = "loading"
    /\ Starting(n) /\ ~n.pending => n.phase \in {"none", "loading"}

\* A client that waits for a world or plays in one has its saves locked once
\* that is ready.
Guarded == client.state \in {"loading", "session"} /\ native.phase = "ready" => native.locked

\* What on_frame leaves for the rest of the frame: no unload is left that is
\* complete, and no start that could be resolved.
Settled ==
    /\ frame # "start" => ~(native.pending /\ game = "menu")
    /\ frame = "tick" /\ client.state \in {"joining", "loading", "session"}
       /\ Capable(native) /\ data => ~Starting(native)

IInv ==
    /\ TypeOK
    /\ Consistent(native)
    /\ Guarded
    /\ Settled
    /\ ~lifecycle => game = "menu"
    /\ loads \in Nat

-----------------------------------------------------------------------------
(* What each of the runtime's functions makes of a consistent state.       *)

\* A frame may move the world so, if it does not change the epoch.
Moves(v, w) ==
    \/ v = w
    \/ v \in {"none", "loading"} /\ w \in {"none", "ready", "failed", "unloading"}
    \/ v = "unloading" /\ w = "none"

LEMMA FinishedKeeps ==
    ASSUME NEW n, Consistent(n)
    PROVE  /\ Consistent(Finished(n)) /\ ~(Finished(n).pending /\ game = "menu")
           /\ Finished(n).requested = n.requested /\ Finished(n).start = n.start
           /\ Finished(n).probe = n.probe
           /\ \/ Finished(n) = n
              \/ n.pending /\ World(Finished(n)) = "none" /\ Finished(n).phase = "none"
<1>1. CASE n.pending /\ game = "menu"
  <2>1. Finished(n) = [n EXCEPT !.pending = FALSE, !.active = FALSE, !.phase = "none",
                                !.locked = FALSE, !.menu = TRUE]
    BY <1>1 DEF Finished
  <2> QED
    BY <1>1, <2>1 DEF Consistent, Native, Starting, World
<1>2. CASE ~(n.pending /\ game = "menu")
  BY <1>2 DEF Finished
<1> QED
  BY <1>1, <1>2

LEMMA UnloadingKeeps ==
    ASSUME NEW n \in Native, ~n.expected
    PROVE  /\ Consistent(Unloading(n)) /\ ~(Unloading(n).pending /\ game = "menu")
           /\ Unloading(n).requested = n.requested /\ Unloading(n).start = n.start
           /\ Unloading(n).probe = n.probe /\ Unloading(n).phase # "ready"
           /\ World(Unloading(n)) = IF game = "menu" THEN "none" ELSE "unloading"
<1> DEFINE u == [n EXCEPT !.pending = TRUE, !.active = TRUE, !.phase = "unloading"]
<1>1. Unloading(n) = Finished(u)
  BY DEF Unloading
<1>2. /\ u \in Native /\ u.pending /\ u.active /\ u.phase = "unloading" /\ ~u.expected
      /\ u.requested = n.requested /\ u.start = n.start /\ u.probe = n.probe
  BY DEF Native
<1> HIDE DEF u
<1>3. Consistent(u)
  BY <1>2 DEF Consistent
<1>4. CASE game = "menu"
  <2>1. World(Finished(u)) = "none" /\ Finished(u).phase = "none"
    BY <1>2, <1>4 DEF Finished, World, Native
  <2> QED
    BY <1>1, <1>2, <1>3, <1>4, <2>1, FinishedKeeps
<1>5. CASE game # "menu"
  <2>1. Finished(u) = u
    BY <1>5 DEF Finished
  <2> QED
    BY <1>1, <1>2, <1>3, <1>5, <2>1 DEF World
<1> QED
  BY <1>4, <1>5

LEMMA CancelledKeeps ==
    ASSUME NEW n, Consistent(n)
    PROVE  /\ Consistent(Cancelled(n)) /\ Cancelled(n).pending = n.pending
           /\ Cancelled(n).active = n.active /\ Cancelled(n).locked = n.locked
           /\ Cancelled(n).phase \in {n.phase, "none"}
           /\ \/ Cancelled(n) = n
              \/ /\ ~Cancelled(n).requested /\ ~Starting(Cancelled(n))
                 /\ World(Cancelled(n)) = IF n.active THEN World(n) ELSE "none"
<1>1. CASE ~n.requested /\ n.probe = "none"
  BY <1>1 DEF Cancelled
<1>2. CASE ~(~n.requested /\ n.probe = "none") /\ (n.active \/ n.pending)
  <2>1. Cancelled(n) = [n EXCEPT !.requested = FALSE, !.expected = FALSE, !.start = "none",
                                 !.probe = "none", !.phase = n.phase]
    BY <1>2 DEF Cancelled
  <2> QED
    BY <1>2, <2>1 DEF Consistent, Native, Starting, World
<1>3. CASE ~(~n.requested /\ n.probe = "none") /\ ~(n.active \/ n.pending)
  <2>1. Cancelled(n) = [n EXCEPT !.requested = FALSE, !.expected = FALSE, !.start = "none",
                                 !.probe = "none", !.phase = "none"]
    BY <1>3 DEF Cancelled
  <2> QED
    BY <1>3, <2>1 DEF Consistent, Native, Starting, World
<1> QED
  BY <1>1, <1>2, <1>3

\* What the client may get from end_sandbox, and what it keeps.
LEMMA EndedKeeps ==
    ASSUME NEW n, Consistent(n), NEW error \in BOOLEAN
    PROVE  /\ Consistent(Ended(n, error))
           /\ \/ Ended(n, error) = n /\ (n.pending \/ ~n.active)
              \/ /\ Ended(n, error).phase # "ready" /\ ~Starting(Ended(n, error))
                 /\ ~(Ended(n, error).pending /\ game = "menu")
                 /\ \/ /\ World(Ended(n, error)) \in {"unloading", "none"}
                       /\ Ended(n, error).requested = n.requested
                    \/ /\ World(n) \notin {"ready", "unloading"}
                       /\ World(Ended(n, error)) = "none" /\ ~Ended(n, error).requested
<1> DEFINE nothing == ~n.active /\ n.start = "none"
<1>0. n \in Native
  BY DEF Consistent
<1>1. CASE n.pending
  <2>1. Ended(n, error) = n
    BY <1>1 DEF Ended
  <2> QED
    BY <1>1, <2>1
<1>2. CASE ~n.pending /\ nothing /\ ~error
  <2>1. Ended(n, error) = n
    BY <1>2 DEF Ended
  <2> QED
    BY <1>2, <2>1
<1>3. CASE ~n.pending /\ nothing /\ error /\ game = "menu"
  <2> DEFINE m == [n EXCEPT !.menu = TRUE, !.phase = "none"]
  <2>1. Ended(n, error) = Cancelled(m)
    BY <1>3 DEF Ended
  <2>2. /\ m \in Native /\ m.phase = "none" /\ m.active = n.active /\ m.pending = n.pending
        /\ m.requested = n.requested /\ m.start = n.start /\ m.expected = n.expected
        /\ m.locked = n.locked
    BY <1>0 DEF Native
  <2> HIDE DEF m
  <2>3. Consistent(m)
    BY <1>3, <2>2 DEF Consistent, Starting
  <2>4. World(n) \notin {"ready", "unloading"}
    BY <1>3 DEF Consistent, World
  <2>5. ~Starting(m) /\ World(m) = "none" /\ ~m.active /\ ~m.pending
    BY <1>3, <2>2 DEF Starting, World
  <2>6. Cancelled(m).phase = "none" /\ ~Cancelled(m).pending
    BY <2>2, <2>3, <2>5, CancelledKeeps
  <2>7. \/ Cancelled(m) = m
        \/ /\ ~Cancelled(m).requested /\ ~Starting(Cancelled(m))
           /\ World(Cancelled(m)) = "none"
    BY <2>3, <2>5, CancelledKeeps
  <2>8. Consistent(Cancelled(m))
    BY <2>3, CancelledKeeps
  <2> QED
    BY <2>1, <2>2, <2>4, <2>5, <2>6, <2>7, <2>8
<1>4. CASE ~n.pending /\ (nothing => error /\ game # "menu")
  <2> DEFINE m == [n EXCEPT !.start = "none", !.expected = FALSE]
  <2>1. Ended(n, error) = Unloading(m)
    BY <1>4 DEF Ended
  <2>2. m \in Native /\ ~m.expected /\ m.requested = n.requested /\ m.start = "none"
    BY <1>0 DEF Native
  <2> HIDE DEF m
  <2>3. /\ Consistent(Unloading(m)) /\ ~(Unloading(m).pending /\ game = "menu")
        /\ Unloading(m).requested = m.requested /\ Unloading(m).start = m.start
        /\ Unloading(m).phase # "ready" /\ World(Unloading(m)) \in {"none", "unloading"}
    BY <2>2, UnloadingKeeps
  <2> QED
    BY <2>1, <2>2, <2>3 DEF Starting
<1> QED
  BY <1>1, <1>2, <1>3, <1>4

LEMMA StartFailedKeeps ==
    ASSUME NEW n \in Native, n.pending => n.active, n.locked => n.active
    PROVE  /\ Consistent(StartFailed(n)) /\ ~Starting(StartFailed(n))
           /\ StartFailed(n).requested = n.requested /\ StartFailed(n).phase = "failed"
           /\ StartFailed(n).pending = n.pending /\ StartFailed(n).active = n.active
           /\ World(StartFailed(n)) = IF n.pending THEN "unloading" ELSE "failed"
BY DEF Consistent, StartFailed, Native, Starting, World

LEMMA ActivatedKeeps ==
    ASSUME NEW n, Consistent(n)
    PROVE  /\ Consistent(Activated(n)) /\ ~Starting(Activated(n))
           /\ Activated(n).requested = n.requested /\ Activated(n).locked
           /\ Activated(n).pending = n.pending
           /\ World(Activated(n)) = IF n.pending THEN "unloading" ELSE "ready"
BY DEF Consistent, Activated, Native, Starting, World

\* A world that could not be activated: what the rollback has left of it.
LEMMA NotActivatedKeeps ==
    ASSUME NEW n, Consistent(n), game = "target", NEW m \in NotActivated(n)
    PROVE  /\ m \in Native /\ (m.pending => m.active) /\ (m.locked => m.active)
           /\ m.requested = n.requested /\ m.start = n.start
           /\ (~n.expected => Consistent(m)) /\ (n.pending => m.pending)
           /\ World(m) \in {World(n), "unloading"}
<1>0. n \in Native
  BY DEF Consistent
<1>1. CASE m = n
  BY <1>1 DEF Consistent
<1>2. CASE m = [n EXCEPT !.locked = FALSE]
  BY <1>2 DEF Consistent, Native, Starting, World
<1>3. CASE m = Unloading([n EXCEPT !.locked = TRUE])
  <2> DEFINE k == [n EXCEPT !.locked = TRUE]
             u == [k EXCEPT !.pending = TRUE, !.active = TRUE, !.phase = "unloading"]
  <2>1. m = u
    BY <1>3 DEF Unloading, Finished
  <2>2. k \in Native /\ k.requested = n.requested /\ k.start = n.start /\ k.expected = n.expected
    BY <1>0 DEF Native
  <2> HIDE DEF k
  <2>3. /\ u \in Native /\ u.pending /\ u.active /\ u.requested = k.requested
        /\ u.start = k.start /\ World(u) = "unloading"
    BY <2>2 DEF Native, World
  <2>4. ~n.expected => Consistent(Unloading(k))
    BY <2>2, UnloadingKeeps
  <2> HIDE DEF u
  <2> QED
    BY <1>3, <2>1, <2>2, <2>3, <2>4 DEF k
<1> QED
  BY <1>1, <1>2, <1>3 DEF NotActivated

LEMMA AdvancedKeeps ==
    ASSUME NEW n, Consistent(n), NEW late \in BOOLEAN, NEW m \in Advanced(n, late),
           ~lifecycle => game = "menu"
    PROVE  /\ Consistent(m) /\ m.requested = n.requested
           /\ Moves(World(n), World(m))
           /\ m.phase = "ready" => m = n \/ m.locked
           /\ ~(data /\ Capable(m) /\ Starting(m))
           /\ ~n.requested => m.active = n.active
           /\ m = n \/ Starting(n)
<1>0. n \in Native
  BY DEF Consistent
<1>1. CASE m = n /\ ~(data /\ Capable(n) /\ Starting(n))
  BY <1>1 DEF Moves
<1>2. Starting(n) => World(n) \in {"none", "loading", "unloading"}
                     /\ (n.pending \/ World(n) # "unloading")
  BY <1>0 DEF Consistent, World
<1>3. CASE m = StartFailed(n) /\ Starting(n)
  <2>1. /\ Consistent(m) /\ ~Starting(m) /\ m.requested = n.requested /\ m.active = n.active
        /\ m.phase = "failed" /\ World(m) = IF n.pending THEN "unloading" ELSE "failed"
    BY <1>0, <1>3, StartFailedKeeps DEF Consistent
  <2>2. Moves(World(n), World(m))
    BY <1>2, <1>3, <2>1 DEF Moves, World
  <2> QED
    BY <1>3, <2>1, <2>2
<1>4. CASE m = Activated(n) /\ Starting(n) /\ n.requested
  <2>1. /\ Consistent(m) /\ ~Starting(m) /\ m.requested = n.requested /\ m.locked
        /\ World(m) = IF n.pending THEN "unloading" ELSE "ready"
    BY <1>4, ActivatedKeeps
  <2>2. Moves(World(n), World(m))
    BY <1>2, <1>4, <2>1 DEF Moves, World
  <2> QED
    BY <1>4, <2>1, <2>2
<1>5. CASE /\ Starting(n) /\ n.requested /\ game = "target"
           /\ \E k \in NotActivated(n) : m = StartFailed(k)
  <2>1. PICK k \in NotActivated(n) : m = StartFailed(k)
    BY <1>5
  <2>2. /\ k \in Native /\ (k.pending => k.active) /\ (k.locked => k.active)
        /\ k.requested = n.requested /\ (n.pending => k.pending)
    BY <1>5, NotActivatedKeeps
  <2>3. /\ Consistent(m) /\ ~Starting(m) /\ m.requested = n.requested
        /\ m.phase = "failed" /\ World(m) = IF k.pending THEN "unloading" ELSE "failed"
    BY <2>1, <2>2, StartFailedKeeps
  <2>4. Moves(World(n), World(m))
    BY <1>2, <1>5, <2>2, <2>3 DEF Moves, World
  <2> QED
    BY <1>5, <2>3, <2>4
<1>6. \/ m = n /\ ~(data /\ Capable(n) /\ Starting(n))
      \/ m = StartFailed(n) /\ Starting(n)
      \/ m = Activated(n) /\ Starting(n) /\ n.requested
      \/ /\ Starting(n) /\ n.requested /\ game = "target"
         /\ \E k \in NotActivated(n) : m = StartFailed(k)
  <2>1. CASE n.start \in {"none", "failed"}
    <3>1. m = n
      BY <2>1 DEF Advanced
    <3> QED
      BY <2>1, <3>1 DEF Starting
  <2>2. CASE Starting(n) /\ late
    <3>1. m = StartFailed(n)
      BY <2>2 DEF Advanced, Starting
    <3> QED
      BY <2>2, <3>1
  <2>3. CASE n.start = "new" /\ ~late /\ ~lifecycle
    <3>1. m = n
      BY <2>3 DEF Advanced
    <3> QED
      BY <2>3, <3>1 DEF Capable
  <2>4. CASE Starting(n) /\ ~late /\ (n.start = "new" => lifecycle)
    <3>1. m \in IF ~data \/ game # "target" THEN {n}
                ELSE IF n.probe = "failed" THEN {StartFailed(n)}
                ELSE IF ~Capable(n) THEN {n}
                ELSE {Activated(n)} \cup {StartFailed(k) : k \in NotActivated(n)}
      BY <2>4 DEF Advanced, Starting
    <3> QED
      BY <2>4, <3>1 DEF Capable
  <2> QED
    BY <1>0, <2>1, <2>2, <2>3, <2>4 DEF Native, Starting
<1> QED
  BY <1>1, <1>3, <1>4, <1>5, <1>6

LEMMA MenuOpenedKeeps ==
    ASSUME NEW n, Consistent(n), NEW m \in MenuOpened(n)
    PROVE  /\ Consistent(m) /\ World(m) = World(n)
           /\ m.requested = n.requested /\ m.active = n.active /\ m.pending = n.pending
           /\ m.phase = n.phase /\ m.locked = n.locked /\ m.start = n.start /\ m.probe = n.probe
<1>1. m = n \/ m = [n EXCEPT !.menu = FALSE]
  BY DEF MenuOpened
<1>2. CASE m = [n EXCEPT !.menu = FALSE]
  BY <1>2 DEF Consistent, Native, Starting, World
<1> QED
  BY <1>1, <1>2

LEMMA RefreshedKeeps ==
    ASSUME NEW n, Consistent(n), NEW m \in Refreshed(n)
    PROVE  /\ Consistent(m) /\ World(m) = World(n)
           /\ m.requested = n.requested /\ m.active = n.active /\ m.pending = n.pending
           /\ m.phase = n.phase /\ m.locked = n.locked /\ m.start = n.start
           /\ ~n.requested => m = n
<1>1. \/ m = n
      \/ n.requested /\ \E p \in {"running", "done", "failed"} : m = [n EXCEPT !.probe = p]
  <2>1. CASE n.requested /\ game \in InWorld /\ n.probe \in {"none", "running"}
    <3>1. m \in {[n EXCEPT !.probe = p] : p \in {"running", "done", "failed"}}
      BY <2>1 DEF Refreshed
    <3> QED
      BY <2>1, <3>1
  <2>2. CASE ~(n.requested /\ game \in InWorld /\ n.probe \in {"none", "running"})
    BY <2>2 DEF Refreshed
  <2> QED
    BY <2>1, <2>2
<1>2. ASSUME NEW p \in {"running", "done", "failed"}
      PROVE  LET k == [n EXCEPT !.probe = p]
             IN  /\ Consistent(k) /\ World(k) = World(n)
                 /\ k.requested = n.requested /\ k.active = n.active /\ k.pending = n.pending
                 /\ k.phase = n.phase /\ k.locked = n.locked /\ k.start = n.start
  BY DEF Consistent, Native, Starting, World
<1> QED
  BY <1>1, <1>2

\* invalidate_epoch_on_game_thread: the new epoch was expected, or meets an
\* unload, or ends whatever there is.
LEMMA InvalidatedKeeps ==
    ASSUME NEW n, Consistent(n)
    PROVE  /\ Consistent(Invalidated(n)) /\ Invalidated(n).start = n.start
           /\ Invalidated(n).probe = "none" /\ Invalidated(n).pending = n.pending
           /\ n.expected => /\ World(Invalidated(n)) = "loading" /\ World(n) = "loading"
                            /\ Invalidated(n).requested = n.requested
                            /\ Invalidated(n).phase = "loading"
           /\ ~n.expected => ~Invalidated(n).requested
           /\ n.pending => /\ ~n.expected /\ Invalidated(n).phase = n.phase
                           /\ Invalidated(n).locked = n.locked
                           /\ World(Invalidated(n)) = World(n)
           /\ ~n.expected /\ ~n.pending =>
                  /\ ~Invalidated(n).active /\ Invalidated(n).phase = "none"
                  /\ World(Invalidated(n)) = "none"
<1>1. CASE n.expected
  <2>1. Invalidated(n) = [n EXCEPT !.probe = "none", !.phase = "loading"]
    BY <1>1 DEF Invalidated
  <2> QED
    BY <1>1, <2>1 DEF Consistent, Native, Starting, World
<1>2. CASE ~n.expected /\ n.pending
  <2>1. Invalidated(n) = [n EXCEPT !.probe = "none", !.requested = FALSE]
    BY <1>2 DEF Invalidated
  <2> QED
    BY <1>2, <2>1 DEF Consistent, Native, Starting, World
<1>3. CASE ~n.expected /\ ~n.pending
  <2>1. Invalidated(n) = [n EXCEPT !.probe = "none", !.requested = FALSE, !.locked = FALSE,
                                   !.active = FALSE, !.phase = "none"]
    BY <1>3 DEF Invalidated
  <2> QED
    BY <1>3, <2>1 DEF Consistent, Native, Starting, World
<1> QED
  BY <1>1, <1>2, <1>3

-----------------------------------------------------------------------------
(* The contract's steps, of what poll_sandbox reports and the gate.        *)
Allows(v, a, w, b) ==
    \/ w = v /\ b = a
    \/ v # "unloading" /\ w = v /\ b = TRUE
    \/ v # "unloading" /\ w \in {"loading", "ready"} /\ b = a
    \/ w \in {v, "unloading", "failed"} /\ (w = "failed" => v # "unloading") /\ b = a
    \/ Moves(v, w) /\ v # w /\ b \in {a, FALSE}
    \/ v # "unloading" /\ w = "none" /\ b = FALSE
    \/ v = "unloading" /\ w \in {"unloading", "none"} /\ b = FALSE
    \/ w \in {"unloading", "none"} /\ b = a
    \/ v \notin {"ready", "unloading"} /\ w = "none" /\ b = FALSE

Step == Allows(World(native), native.requested, World(native'), native'.requested)

\* An unload that is pending stays as it is, under way or stuck.
Steadfast == native.pending /\ native'.pending => (unload = "refused" <=> unload' = "refused")

\* What World leaves open of an unload that is pending, the contract tells.
LEMMA StepIsNext ==
    ASSUME Consistent(native), Consistent(native'), Step, Steadfast
    PROVE  [Sandbox!Next]_(Sandbox!vars)
<1> DEFINE x == World(native)
           y == World(native')
           v == IF ~native.pending THEN native.phase
                ELSE IF unload = "refused" THEN "stuck" ELSE "unloading"
           w == IF ~native'.pending THEN native'.phase
                ELSE IF unload' = "refused" THEN "stuck" ELSE "unloading"
           a == native.requested
           b == native'.requested
           Stuck == {"unloading", "stuck"}
           Still == {"none", "loading", "ready", "failed"}
<1>1. /\ (x = "unloading" /\ v \in Stuck) \/ (x = v /\ v \in Still)
      /\ (y = "unloading" /\ w \in Stuck) \/ (y = w /\ w \in Still)
      /\ v \in Stuck /\ w \in Stuck => w = v
  BY DEF Consistent, Native, World, Steadfast
<1>2. Allows(x, a, y, b)
  BY DEF Step
<1>3. a \in BOOLEAN /\ b \in BOOLEAN
  BY DEF Consistent, Native
<1> SUFFICES \/ w = v /\ b = a
             \/ Sandbox!Next
  BY DEF Sandbox!vars
<1> DEFINE Prepares == v \notin Stuck /\ b = TRUE /\ w = v
           Starts == v \in Still /\ w \in {"loading", "ready"}
           Refuses == w = v \/ (v \notin Stuck /\ w \in Stuck \cup {"failed"})
           Passes == /\ \/ v \in {"none", "loading"} /\ w \in {"none", "ready", "failed"} \cup Stuck
                        \/ v \in Stuck /\ w = "none"
                     /\ b \in {a, FALSE}
           Invalidates == v \notin Stuck /\ w = "none" /\ b = FALSE
           Conceals == v \in Stuck /\ w \in {v, "none"} /\ b = FALSE
           Ends == w \in {"none"} \cup (IF v \in Stuck THEN {v} ELSE Stuck) /\ b = a
<1>4. Prepares \/ ((Starts \/ Refuses) /\ b = a) \/ Passes \/ Invalidates \/ Conceals \/ Ends
      => Sandbox!Next
  BY DEF Sandbox!Next, Sandbox!Prepare, Sandbox!Started, Sandbox!Refused, Sandbox!Move,
         Sandbox!Invalidate, Sandbox!Conceal, Sandbox!End, Sandbox!Phases, Sandbox!Unloads
<1> HIDE DEF x, y, v, w, a, b
<1>5. CASE y = x /\ b = a
  BY <1>1, <1>5
<1>6. CASE x # "unloading" /\ y = x /\ b = TRUE
  BY <1>1, <1>4, <1>6
<1>7. CASE x # "unloading" /\ y \in {"loading", "ready"} /\ b = a
  BY <1>1, <1>4, <1>7
<1>8. CASE y \in {x, "unloading", "failed"} /\ (y = "failed" => x # "unloading") /\ b = a
  BY <1>1, <1>4, <1>8
<1>9. CASE Moves(x, y) /\ x # y /\ b \in {a, FALSE}
  BY <1>1, <1>4, <1>9 DEF Moves
<1>10. CASE x # "unloading" /\ y = "none" /\ b = FALSE
  BY <1>1, <1>4, <1>10
<1>11. CASE x = "unloading" /\ y \in {"unloading", "none"} /\ b = FALSE
  BY <1>1, <1>4, <1>11
<1>12. CASE y \in {"unloading", "none"} /\ b = a
  BY <1>1, <1>4, <1>12
<1>13. CASE x \notin {"ready", "unloading"} /\ y = "none" /\ b = FALSE
  BY <1>1, <1>4, <1>13
<1> HIDE DEF Prepares, Starts, Refuses, Passes, Invalidates, Conceals, Ends
<1> QED
  BY <1>2, <1>5, <1>6, <1>7, <1>8, <1>9, <1>10, <1>11, <1>12, <1>13 DEF Allows

\* A step that queues an unload, or has none to queue.
LEMMA QueuedKeeps ==
    ASSUME TypeOK, UNCHANGED unload \/ Queued(native')
    PROVE  unload' \in {"none", "queued", "refused"} /\ Steadfast
<1>1. CASE UNCHANGED unload
  BY <1>1 DEF TypeOK, Steadfast
<1>2. CASE Queued(native') /\ native'.pending /\ ~native.pending /\ unload # "queued"
  <2>1. unload' \in {"queued", "refused"}
    BY <1>2 DEF Queued
  <2> QED
    BY <1>2, <2>1 DEF Steadfast
<1>3. CASE Queued(native') /\ ~native'.pending /\ unload = "refused"
  <2>1. unload' = "none"
    BY <1>3 DEF Queued
  <2> QED
    BY <1>3, <2>1 DEF Steadfast
<1>4. CASE /\ Queued(native') /\ ~(native'.pending /\ ~native.pending /\ unload # "queued")
           /\ ~(~native'.pending /\ unload = "refused")
  <2>1. unload' = unload
    BY <1>4 DEF Queued
  <2> QED
    BY <2>1 DEF TypeOK, Steadfast
<1> QED
  BY <1>1, <1>2, <1>3, <1>4

\* Steps that leave the runtime alone.
LEMMA StepOfOthers ==
    ASSUME UNCHANGED native
    PROVE  Step
BY DEF Step, Allows

-----------------------------------------------------------------------------
(* The frame.                                                              *)

\* What on_frame has made of the runtime when the client is told of an epoch.
LEMMA FramePasses ==
    ASSUME IInv, NEW late \in BOOLEAN,
           NEW n \in Refreshed(IF epoch THEN Invalidated(native) ELSE native),
           NEW m \in Advanced(n, late), NEW o \in MenuOpened(Finished(m))
    PROVE  /\ Consistent(o) /\ ~(o.pending /\ game = "menu")
           /\ ~(data /\ Capable(o) /\ Starting(o))
           /\ o.phase = "ready" =>
                  o.locked \/ (native.phase = "ready" /\ o.locked = native.locked)
           /\ ~epoch \/ native.expected =>
                  o.requested = native.requested /\ Moves(World(native), World(o))
           /\ epoch /\ native.expected => World(native) = "loading"
           /\ epoch /\ native.pending =>
                  ~o.requested /\ World(o) \in {"unloading", "none"}
           /\ epoch /\ ~native.expected /\ ~native.pending =>
                  /\ ~o.requested /\ ~o.active
                  /\ \/ World(o) = "none"
                     \/ /\ World(native) \in {"none", "loading"}
                        /\ World(o) \in {"ready", "failed", "unloading"}
<1> DEFINE base == IF epoch THEN Invalidated(native) ELSE native
<1>0. /\ Consistent(native) /\ (~lifecycle => game = "menu") /\ epoch \in BOOLEAN
  BY DEF IInv, TypeOK
<1>1. /\ Consistent(base) /\ base.start = native.start
      /\ ~epoch => base = native
      /\ epoch => base = Invalidated(native)
  BY <1>0, InvalidatedKeeps
<1> HIDE DEF base
<1>2. /\ Consistent(n) /\ World(n) = World(base) /\ n.requested = base.requested
      /\ n.phase = base.phase /\ n.locked = base.locked /\ n.start = base.start
      /\ n.active = base.active
  BY <1>1, RefreshedKeeps DEF base
<1>3. /\ Consistent(m) /\ m.requested = n.requested /\ Moves(World(n), World(m))
      /\ m.phase = "ready" => m = n \/ m.locked
      /\ ~(data /\ Capable(m) /\ Starting(m))
      /\ ~n.requested => m.active = n.active
      /\ m = n \/ Starting(n)
  BY <1>0, <1>2, AdvancedKeeps
<1>4. /\ Consistent(Finished(m)) /\ ~(Finished(m).pending /\ game = "menu")
      /\ Finished(m).requested = m.requested /\ Finished(m).start = m.start
      /\ Finished(m).probe = m.probe
      /\ \/ Finished(m) = m
         \/ m.pending /\ World(Finished(m)) = "none" /\ Finished(m).phase = "none"
  BY <1>3, FinishedKeeps
<1> DEFINE f == Finished(m)
<1> HIDE DEF f
<1>5. /\ Consistent(o) /\ World(o) = World(f) /\ o.requested = f.requested
      /\ o.active = f.active /\ o.pending = f.pending /\ o.phase = f.phase
      /\ o.locked = f.locked /\ o.start = f.start /\ o.probe = f.probe
  BY <1>4, MenuOpenedKeeps DEF f
<1>6. ~(data /\ Capable(o) /\ Starting(o)) /\ ~(o.pending /\ game = "menu")
  BY <1>3, <1>4, <1>5 DEF Capable, Starting, f
<1>7. o.requested = base.requested
  BY <1>2, <1>3, <1>4, <1>5 DEF f
<1>8. Moves(World(base), World(o))
  <2>1. CASE f = m
    BY <1>2, <1>3, <1>5, <2>1
  <2>2. CASE m.pending /\ World(f) = "none"
    <3>1. World(m) = "unloading"
      BY <2>2 DEF World
    <3> QED
      BY <1>2, <1>3, <1>5, <2>2, <3>1 DEF Moves
  <2> QED
    BY <1>4, <2>1, <2>2 DEF f
<1>9. o.phase = "ready" => o.locked \/ (base.phase = "ready" /\ o.locked = base.locked)
  BY <1>2, <1>3, <1>4, <1>5 DEF f
<1>10. CASE ~epoch
  BY <1>1, <1>5, <1>6, <1>7, <1>8, <1>9, <1>10
<1>11. CASE epoch /\ native.expected
  <2>1. /\ World(base) = "loading" /\ World(native) = "loading"
        /\ base.requested = native.requested /\ base.phase = "loading" /\ ~native.pending
    BY <1>0, <1>1, <1>11, InvalidatedKeeps
  <2> QED
    BY <1>5, <1>6, <1>7, <1>8, <1>9, <1>11, <2>1
<1>12. CASE epoch /\ ~native.expected /\ native.pending
  <2>1. /\ World(base) = World(native) /\ ~base.requested
        /\ base.phase = native.phase /\ base.locked = native.locked
    BY <1>0, <1>1, <1>12, InvalidatedKeeps
  <2>2. World(native) = "unloading"
    BY <1>12 DEF World
  <2>3. World(o) \in {"unloading", "none"}
    BY <1>8, <2>1, <2>2 DEF Moves
  <2> QED
    BY <1>5, <1>6, <1>7, <1>9, <1>12, <2>1, <2>3
<1>13. CASE epoch /\ ~native.expected /\ ~native.pending
  <2>1. /\ World(base) = "none" /\ ~base.requested /\ ~base.active /\ base.phase = "none"
    BY <1>0, <1>1, <1>13, InvalidatedKeeps
  <2>2. ~m.active /\ ~m.pending
    BY <1>2, <1>3, <2>1 DEF Consistent
  <2>3. ~o.active
    BY <1>4, <1>5, <2>2 DEF f
  <2>4. CASE m = n
    <3>1. World(o) = "none"
      BY <1>2, <1>4, <1>5, <2>1, <2>2, <2>4 DEF f
    <3> QED
      BY <1>5, <1>6, <1>7, <1>9, <1>13, <2>1, <2>3, <3>1
  <2>5. CASE Starting(n)
    <3>1. World(native) \in {"none", "loading"}
      BY <1>0, <1>1, <1>2, <1>13, <2>5 DEF Consistent, World, Starting
    <3>2. World(o) \in {"none", "ready", "failed", "unloading"}
      BY <1>8, <2>1 DEF Moves
    <3> QED
      BY <1>5, <1>6, <1>7, <1>9, <1>13, <2>1, <2>3, <3>1, <3>2
  <2> QED
    BY <1>3, <2>4, <2>5
<1> QED
  BY <1>0, <1>10, <1>11, <1>12, <1>13 DEF Consistent

LEMMA FrameIsAllowed ==
    ASSUME NEW v, NEW w, NEW a \in BOOLEAN, NEW b \in BOOLEAN,
           \/ b = a /\ Moves(v, w)
           \/ v = "unloading" /\ ~b /\ w \in {"unloading", "none"}
           \/ v # "unloading" /\ ~b /\ w = "none"
           \/ v \in {"none", "loading"} /\ ~b /\ w \in {"ready", "failed", "unloading"}
    PROVE  Allows(v, a, w, b)
BY DEF Allows, Moves

\* What a frame makes of the client where it is told of an epoch.
LEMMA FrameRest ==
    ASSUME IInv, frame' = "tick", epoch' = FALSE, Consistent(native'),
           UNCHANGED <<game, asked, data, lifecycle, loads>>,
           Queued(native'),
           ~(native'.pending /\ game = "menu"),
           \/ /\ UNCHANGED client
              /\ ~(data /\ Capable(native') /\ Starting(native'))
              /\ native'.phase = "ready" =>
                     native'.locked \/ (native.phase = "ready" /\ native'.locked = native.locked)
           \/ client' \in [state : {"idle", "closing"}, load : BOOLEAN,
                           manual : BOOLEAN, error : BOOLEAN]
    PROVE  IInv'
<1>1. TypeOK /\ Guarded /\ (~lifecycle => game = "menu") /\ loads \in Nat
  BY DEF IInv
<1>2. native' \in Native
  BY DEF Consistent
<1>3. client' \in [state : {"idle", "runtime", "joining", "loading", "session", "closing"},
                   load : BOOLEAN, manual : BOOLEAN, error : BOOLEAN]
  BY <1>1 DEF TypeOK
<1>4. unload' \in {"none", "queued", "refused"}
  BY <1>1, QueuedKeeps
<1>5. TypeOK'
  BY <1>1, <1>2, <1>3, <1>4 DEF TypeOK, Native
<1>6. (~lifecycle => game = "menu")' /\ (loads \in Nat)'
  BY <1>1
<1>7. CASE /\ UNCHANGED client
           /\ ~(data /\ Capable(native') /\ Starting(native'))
           /\ native'.phase = "ready" =>
                  native'.locked \/ (native.phase = "ready" /\ native'.locked = native.locked)
  <2>1. Guarded'
    BY <1>1, <1>7 DEF Guarded
  <2>2. Settled'
    BY <1>7 DEF Settled, Capable, Starting
  <2> QED
    BY <1>5, <1>6, <2>1, <2>2 DEF IInv
<1>8. CASE client' \in [state : {"idle", "closing"}, load : BOOLEAN,
                        manual : BOOLEAN, error : BOOLEAN]
  <2>1. Guarded' /\ Settled'
    BY <1>8 DEF Guarded, Settled
  <2> QED
    BY <1>5, <1>6, <2>1 DEF IInv
<1> QED
  BY <1>7, <1>8

LEMMA OnFrameKeeps ==
    ASSUME IInv, NEW late \in BOOLEAN, OnFrame(late)
    PROVE  IInv' /\ Step
<1>1. PICK n \in Refreshed(IF epoch THEN Invalidated(native) ELSE native) :
      \E m \in Advanced(n, late) :
      \E o \in MenuOpened(Finished(m)) :
          IF epoch /\ ~(native.pending \/ native.menu)
            THEN EpochChanged(o)
            ELSE native' = o /\ UNCHANGED client
  BY DEF OnFrame
<1>2. PICK m \in Advanced(n, late) :
      \E o \in MenuOpened(Finished(m)) :
          IF epoch /\ ~(native.pending \/ native.menu)
            THEN EpochChanged(o)
            ELSE native' = o /\ UNCHANGED client
  BY <1>1
<1>3. PICK o \in MenuOpened(Finished(m)) :
          IF epoch /\ ~(native.pending \/ native.menu)
            THEN EpochChanged(o)
            ELSE native' = o /\ UNCHANGED client
  BY <1>2
<1>4. /\ frame' = "tick" /\ epoch' = FALSE
      /\ UNCHANGED <<game, asked, data, lifecycle, loads>>
      /\ Queued(native')
  BY DEF OnFrame
<1>5. /\ TypeOK /\ Consistent(native) /\ Guarded /\ (~lifecycle => game = "menu")
  BY DEF IInv
<1>6. /\ Consistent(o) /\ ~(o.pending /\ game = "menu")
      /\ ~(data /\ Capable(o) /\ Starting(o))
      /\ o.phase = "ready" =>
             o.locked \/ (native.phase = "ready" /\ o.locked = native.locked)
      /\ ~epoch \/ native.expected =>
             o.requested = native.requested /\ Moves(World(native), World(o))
      /\ epoch /\ native.expected => World(native) = "loading"
      /\ epoch /\ native.pending => ~o.requested /\ World(o) \in {"unloading", "none"}
      /\ epoch /\ ~native.expected /\ ~native.pending =>
             /\ ~o.requested /\ ~o.active
             /\ \/ World(o) = "none"
                \/ /\ World(native) \in {"none", "loading"}
                   /\ World(o) \in {"ready", "failed", "unloading"}
  BY FramePasses
<1>7. /\ o.requested \in BOOLEAN /\ native.requested \in BOOLEAN /\ epoch \in BOOLEAN
      /\ native.pending \in BOOLEAN /\ native.expected \in BOOLEAN
      /\ ~native.pending => World(native) # "unloading"
      /\ native.pending => World(native) = "unloading" /\ ~native.expected
  BY <1>5, <1>6 DEF Consistent, Native, World, TypeOK
<1>8. CASE native' = o /\ client' = client
  <2>1. IInv'
    BY <1>4, <1>6, <1>8, FrameRest
  <2>2. \/ o.requested = native.requested /\ Moves(World(native), World(o))
        \/ World(native) = "unloading" /\ ~o.requested /\ World(o) \in {"unloading", "none"}
        \/ World(native) # "unloading" /\ ~o.requested /\ World(o) = "none"
        \/ /\ World(native) \in {"none", "loading"} /\ ~o.requested
           /\ World(o) \in {"ready", "failed", "unloading"}
    BY <1>6, <1>7
  <2>3. Allows(World(native), native.requested, World(o), o.requested)
    BY <1>7, <2>2, FrameIsAllowed
  <2> QED
    BY <1>8, <2>1, <2>3 DEF Step
<1>9. CASE epoch /\ ~native.pending
           /\ native' = (IF o.active THEN Ended(o, TRUE) ELSE Cancelled(o))
           /\ client' \in [state : {"idle", "closing"}, load : BOOLEAN,
                           manual : BOOLEAN, error : BOOLEAN]
  <2> DEFINE e == Ended(o, TRUE)
             c == Cancelled(o)
  <2>1. ASSUME o.active
        PROVE  Consistent(native') /\ ~(native'.pending /\ game = "menu") /\ Step
    <3>1. /\ Consistent(e)
          /\ \/ e = o /\ (o.pending \/ ~o.active)
             \/ /\ e.phase # "ready" /\ ~Starting(e) /\ ~(e.pending /\ game = "menu")
                /\ \/ World(e) \in {"unloading", "none"} /\ e.requested = o.requested
                   \/ /\ World(o) \notin {"ready", "unloading"}
                      /\ World(e) = "none" /\ ~e.requested
      BY <1>6, EndedKeeps
    <3>2. native' = e
      BY <1>9, <2>1
    <3> HIDE DEF e
    <3>3. Consistent(e) /\ ~(e.pending /\ game = "menu")
      BY <1>6, <3>1
    <3>4. native.expected /\ World(native) = "loading" /\ o.requested = native.requested
      BY <1>6, <1>7, <1>9, <2>1
    <3>5. o.pending => World(o) = "unloading"
      BY DEF World
    <3>6. e.requested \in BOOLEAN
      BY <3>3 DEF Consistent, Native
    <3>7. \/ World(e) \in {"unloading", "none"} /\ e.requested = native.requested
          \/ World(e) = "none" /\ ~e.requested
      BY <2>1, <3>1, <3>4, <3>5
    <3>8. Allows(World(native), native.requested, World(e), e.requested)
      BY <1>7, <3>4, <3>6, <3>7, FrameIsAllowed DEF Moves
    <3> QED
      BY <3>2, <3>3, <3>8 DEF Step
  <2>2. ASSUME ~o.active
        PROVE  Consistent(native') /\ ~(native'.pending /\ game = "menu") /\ Step
    <3>1. /\ Consistent(c) /\ c.pending = o.pending
          /\ \/ c = o
             \/ ~c.requested /\ World(c) = IF o.active THEN World(o) ELSE "none"
      BY <1>6, CancelledKeeps
    <3>2. native' = c
      BY <1>9, <2>2
    <3> HIDE DEF c
    <3>3. Consistent(c) /\ ~(c.pending /\ game = "menu")
      BY <1>6, <3>1
    <3>4. c.requested \in BOOLEAN
      BY <3>3 DEF Consistent, Native
    <3>5. \/ c.requested = native.requested /\ Moves(World(native), World(c))
          \/ World(native) # "unloading" /\ ~c.requested /\ World(c) = "none"
          \/ /\ World(native) \in {"none", "loading"} /\ ~c.requested
             /\ World(c) \in {"ready", "failed", "unloading"}
      <4>1. CASE c = o
        BY <1>6, <1>7, <1>9, <4>1
      <4>2. CASE ~c.requested /\ World(c) = "none"
        BY <1>7, <1>9, <4>2
      <4> QED
        BY <2>2, <3>1, <4>1, <4>2
    <3>6. Allows(World(native), native.requested, World(c), c.requested)
      BY <1>7, <3>4, <3>5, FrameIsAllowed
    <3> QED
      BY <3>2, <3>3, <3>6 DEF Step
  <2>3. Consistent(native') /\ ~(native'.pending /\ game = "menu") /\ Step
    BY <2>1, <2>2
  <2>4. IInv'
    BY <1>4, <1>9, <2>3, FrameRest
  <2> QED
    BY <2>3, <2>4
<1>10. CASE EpochChanged(o) /\ epoch /\ ~native.pending
  <2>1. client \in [state : {"idle", "runtime", "joining", "loading", "session", "closing"},
                    load : BOOLEAN, manual : BOOLEAN, error : BOOLEAN]
    BY <1>5 DEF TypeOK
  <2>2. CASE client.load /\ client.state = "loading"
    BY <1>8, <1>10, <2>2 DEF EpochChanged
  <2>3. CASE ~(client.load /\ client.state = "loading")
    <3>1. /\ native' = (IF o.active THEN Ended(o, TRUE) ELSE Cancelled(o))
          /\ client' =
                 CASE client.state = "idle" -> [client EXCEPT !.load = FALSE, !.error = FALSE]
                   [] client.state = "closing" -> [client EXCEPT !.load = FALSE]
                   [] OTHER -> [client EXCEPT !.state = "closing", !.load = FALSE, !.error = TRUE]
      BY <1>10, <2>3 DEF EpochChanged
    <3>2. client' \in [state : {"idle", "closing"}, load : BOOLEAN,
                       manual : BOOLEAN, error : BOOLEAN]
      BY <2>1, <3>1
    <3> QED
      BY <1>9, <1>10, <3>1, <3>2
  <2> QED
    BY <2>2, <2>3
<1> QED
  BY <1>3, <1>8, <1>10

-----------------------------------------------------------------------------
(* The tick of the client and the frame handler's end.                     *)

\* What the rest of a frame has to show of the invariant: the world's place,
\* its epoch and the user's counter do not move.
LEMMA Collects ==
    ASSUME IInv, UNCHANGED <<game, data, epoch, loads>>,
           frame' \in {"start", "tick", "poll", "end", "endWithError"},
           asked' \in BOOLEAN, lifecycle' \in BOOLEAN, ~lifecycle' => game = "menu",
           Consistent(native'), client'.state \in {"loading", "session"} => Guarded',
           client' \in [state : {"idle", "runtime", "joining", "loading", "session", "closing"},
                        load : BOOLEAN, manual : BOOLEAN, error : BOOLEAN],
           UNCHANGED unload \/ Queued(native'), Settled'
    PROVE  IInv'
<1>1. TypeOK /\ native \in Native /\ native' \in Native /\ loads \in Nat
  BY DEF IInv, Consistent
<1>2. unload' \in {"none", "queued", "refused"}
  BY <1>1, QueuedKeeps
<1>3. TypeOK'
  BY <1>1, <1>2 DEF TypeOK, Native
<1>4. Guarded'
  BY DEF Guarded
<1> QED
  BY <1>1, <1>3, <1>4 DEF IInv

LEMMA TickEndsAt ==
    ASSUME NEW c, TickEnds(c)
    PROVE  frame' \in {"start", "end", "endWithError"}
BY DEF TickEnds

LEMMA FailsEnds ==
    ASSUME NEW c \in [state : {"idle", "runtime", "joining", "loading", "session", "closing"},
                      load : BOOLEAN, manual : BOOLEAN, error : BOOLEAN]
    PROVE  /\ Fails(c) \in [state : {"idle", "runtime", "joining", "loading", "session", "closing"},
                            load : BOOLEAN, manual : BOOLEAN, error : BOOLEAN]
           /\ Fails(c).state \in {"idle", "closing"}
<1>1. CASE c.state \in {"idle", "closing"}
  BY <1>1 DEF Fails
<1>2. CASE c.state \notin {"idle", "closing"}
  <2>1. Fails(c) = [c EXCEPT !.state = "closing", !.load = FALSE, !.error = TRUE]
    BY <1>2 DEF Fails
  <2> QED
    BY <2>1
<1> QED
  BY <1>1, <1>2

LEMMA InvParts ==
    ASSUME IInv
    PROVE  /\ Consistent(native) /\ Guarded /\ Settled /\ native \in Native
           /\ client \in [state : {"idle", "runtime", "joining", "loading", "session", "closing"},
                          load : BOOLEAN, manual : BOOLEAN, error : BOOLEAN]
           /\ game \in Places /\ asked \in BOOLEAN /\ data \in BOOLEAN
           /\ unload \in {"none", "queued", "refused"}
           /\ lifecycle \in BOOLEAN /\ epoch \in BOOLEAN
           /\ frame \in {"start", "tick", "poll", "end", "endWithError"}
           /\ ~lifecycle => game = "menu"
           /\ loads \in Nat /\ loads <= MaxLoads
BY DEF IInv, TypeOK, Consistent

LEMMA TickSkippedKeeps ==
    ASSUME IInv, TickSkipped
    PROVE  IInv' /\ Step
<1>1. /\ frame = "tick" /\ client' = [client EXCEPT !.manual = FALSE]
      /\ UNCHANGED <<game, asked, unload, data, lifecycle, epoch, native, loads>>
      /\ frame' \in {"start", "end", "endWithError"}
  BY TickEndsAt DEF TickSkipped, engine
<1>2. client'.state = client.state
  BY <1>1, InvParts
<1>3. Guarded' /\ Settled'
  BY <1>1, <1>2, InvParts DEF Guarded, Settled
<1>4. client' \in [state : {"idle", "runtime", "joining", "loading", "session", "closing"},
                   load : BOOLEAN, manual : BOOLEAN, error : BOOLEAN]
  BY <1>1, InvParts
<1>5. IInv'
  BY <1>1, <1>3, <1>4, InvParts, Collects
<1> QED
  BY <1>1, <1>5, StepOfOthers

LEMMA TickClientKeeps ==
    ASSUME IInv, TickClient
    PROVE  IInv' /\ Step
<1>1. /\ frame = "tick" /\ frame' = "poll"
      /\ UNCHANGED <<game, asked, unload, data, lifecycle, epoch, native, loads>>
      /\ \/ UNCHANGED client
         \/ client' = [client EXCEPT !.state = "idle", !.error = TRUE]
         \/ client' = [client EXCEPT !.state = "joining"]
  BY DEF TickClient, Ticks, engine
<1>2. /\ client' \in [state : {"idle", "runtime", "joining", "loading", "session", "closing"},
                      load : BOOLEAN, manual : BOOLEAN, error : BOOLEAN]
      /\ client'.state \in {"loading", "session"} => client'.state = client.state
  BY <1>1, InvParts
<1>3. Settled' /\ (client'.state \in {"loading", "session"} => Guarded')
  BY <1>1, <1>2, InvParts DEF Guarded, Settled
<1>4. IInv'
  BY <1>1, <1>2, <1>3, InvParts, Collects
<1> QED
  BY <1>1, <1>4, StepOfOthers

\* A start, whatever comes of it, keeps the gate as it is.
LEMMA StartIsAllowed ==
    ASSUME Consistent(native), native'.requested = native.requested,
           native'.pending = native.pending,
           ~native.pending => native'.phase \in {"loading", "ready", "failed"}
    PROVE  Step
<1>1. CASE native.pending
  <2>1. World(native') = World(native)
    BY <1>1 DEF World
  <2> QED
    BY <2>1 DEF Step, Allows
<1>2. CASE ~native.pending
  <2>1. World(native) # "unloading" /\ World(native') = native'.phase
    BY <1>2 DEF World, Consistent
  <2> QED
    BY <1>2, <2>1 DEF Step, Allows
<1> QED
  BY <1>1, <1>2

\* A bootstrap arrives where no start is left that could be adopted instead.
LEMMA TickBootstrapKeeps ==
    ASSUME IInv, TickBootstrap
    PROVE  IInv' /\ Step
<1>1. /\ frame = "tick" /\ frame' = "poll" /\ client.state = "joining"
      /\ Queued(native') /\ UNCHANGED <<game, data, epoch, loads>>
      /\ \/ BootstrapStarts /\ client' = [client EXCEPT !.state = "loading", !.load = TRUE]
         \/ BootstrapFails /\ client' = Fails(client)
  BY DEF TickBootstrap, Ticks
<1>2. /\ Consistent(native) /\ native \in Native /\ ~(native.pending /\ game = "menu")
      /\ Capable(native) /\ data => ~Starting(native)
  BY <1>1, InvParts DEF Settled
<1>3. /\ client' \in [state : {"idle", "runtime", "joining", "loading", "session", "closing"},
                      load : BOOLEAN, manual : BOOLEAN, error : BOOLEAN]
      /\ client' = Fails(client) => client'.state \notin {"loading", "session"}
  BY <1>1, InvParts, FailsEnds
<1>4. SUFFICES
        /\ asked' \in BOOLEAN /\ lifecycle' \in BOOLEAN /\ (~lifecycle' => game = "menu")
        /\ Consistent(native')
        /\ client'.state \in {"loading", "session"} => (native'.phase = "ready" => native'.locked)
        /\ ~(native'.pending /\ game = "menu")
        /\ Step
  <2>1. Guarded' \/ client'.state \notin {"loading", "session"}
    BY <1>4 DEF Guarded
  <2>2. Settled'
    BY <1>1, <1>4 DEF Settled
  <2> QED
    BY <1>1, <1>3, <1>4, <2>1, <2>2, Collects
<1>5. asked \in BOOLEAN /\ lifecycle \in BOOLEAN /\ (~lifecycle => game = "menu")
  BY InvParts
<1>6. CASE CanAdopt /\ Capable(native) /\ native' = Activated(native)
           /\ UNCHANGED <<asked, lifecycle>>
  <2>1. /\ Consistent(native') /\ native'.locked /\ native'.pending = native.pending
        /\ native'.requested = native.requested
        /\ World(native') = IF native.pending THEN "unloading" ELSE "ready"
    BY <1>2, <1>6, ActivatedKeeps
  <2>2. Step
    BY <1>2, <2>1, StartIsAllowed DEF World
  <2> QED
    BY <1>2, <1>5, <1>6, <2>1, <2>2
<1>7. CASE /\ CanAdopt /\ native' = [native EXCEPT !.start = "loaded", !.phase = "loading"]
           /\ UNCHANGED <<asked, lifecycle>>
  <2>1. /\ Consistent(native') /\ native'.pending = native.pending
        /\ native'.requested = native.requested /\ native'.phase = "loading"
    BY <1>2, <1>7 DEF Consistent, Native, Starting
  <2>2. Step
    BY <1>2, <2>1, StartIsAllowed
  <2> QED
    BY <1>2, <1>5, <1>7, <2>1, <2>2
<1>8. CanStart => /\ Consistent(NewStart) /\ NewStart.pending = native.pending /\ ~native.pending
                  /\ NewStart.requested = native.requested /\ NewStart.phase = "loading"
  BY <1>2 DEF CanStart, NewStart, Consistent, Native, Starting
<1>9. CASE CanStart /\ native' = NewStart /\ asked' = TRUE /\ lifecycle' = FALSE
  <2>1. Step
    BY <1>2, <1>8, <1>9, StartIsAllowed
  <2> QED
    BY <1>8, <1>9, <2>1 DEF CanStart
<1>10. CASE /\ CanAdopt /\ Capable(native) /\ native' \in NotActivated(native)
            /\ UNCHANGED <<asked, lifecycle>> /\ client' = Fails(client)
  <2>1. ~native.expected /\ game = "target"
    BY <1>2, <1>10 DEF Consistent, CanAdopt
  <2>2. /\ Consistent(native') /\ native'.requested = native.requested
        /\ World(native') \in {World(native), "unloading"}
    BY <1>2, <1>10, <2>1, NotActivatedKeeps
  <2>3. Step
    BY <2>2 DEF Step, Allows
  <2> QED
    BY <1>3, <1>5, <1>10, <2>1, <2>2, <2>3
<1>11. CASE UNCHANGED <<native, asked, lifecycle>> /\ client' = Fails(client)
  BY <1>2, <1>3, <1>5, <1>11, StepOfOthers
<1>12. CASE /\ CanStart /\ native' = StartFailed(NewStart) /\ lifecycle' = FALSE
            /\ UNCHANGED asked /\ client' = Fails(client)
  <2>1. /\ Consistent(native') /\ native'.requested = native.requested
        /\ native'.pending = native.pending /\ World(native') = "failed"
    BY <1>8, <1>12, StartFailedKeeps DEF Consistent
  <2>2. Step
    BY <1>2, <1>8, <2>1, StartIsAllowed DEF World
  <2> QED
    BY <1>3, <1>5, <1>8, <1>12, <2>1, <2>2 DEF CanStart
<1> QED
  BY <1>1, <1>6, <1>7, <1>9, <1>10, <1>11, <1>12 DEF BootstrapStarts, BootstrapFails

\* The client ends its sandbox, in the tick or at the end of the frame.
LEMMA EndedIsAllowed ==
    ASSUME IInv, NEW error \in BOOLEAN
    PROVE  /\ Consistent(Ended(native, error))
           /\ frame # "start" => ~(Ended(native, error).pending /\ game = "menu")
           /\ Ended(native, error).phase = "ready" => Ended(native, error) = native
           /\ Allows(World(native), native.requested,
                     World(Ended(native, error)), Ended(native, error).requested)
<1> DEFINE e == Ended(native, error)
<1>1. /\ Consistent(e)
      /\ \/ e = native
         \/ /\ e.phase # "ready" /\ ~(e.pending /\ game = "menu")
            /\ \/ World(e) \in {"unloading", "none"} /\ e.requested = native.requested
               \/ /\ World(native) \notin {"ready", "unloading"}
                  /\ World(e) = "none" /\ ~e.requested
  BY InvParts, EndedKeeps
<1> HIDE DEF e
<1>2. e.requested \in BOOLEAN /\ (frame # "start" => ~(native.pending /\ game = "menu"))
  BY <1>1, InvParts DEF Consistent, Native, Settled
<1>3. Allows(World(native), native.requested, World(e), e.requested)
  BY <1>1, <1>2 DEF Allows
<1> QED
  BY <1>1, <1>2, <1>3 DEF e

LEMMA PollWorldKeeps ==
    ASSUME IInv, PollWorld
    PROVE  IInv' /\ Step
<1>1. /\ frame = "poll" /\ Queued(native')
      /\ UNCHANGED <<game, asked, data, lifecycle, epoch, loads>>
      /\ frame' \in {"start", "end", "endWithError"}
  BY TickEndsAt DEF PollWorld
<1>2. \/ UNCHANGED <<client, native>>
      \/ /\ client.state = "loading" /\ native.phase = "ready" /\ UNCHANGED native
         /\ client' = [client EXCEPT !.state = "session", !.load = FALSE]
      \/ client' = Fails(client) /\ UNCHANGED native
      \/ client' = Fails(client) /\ native' = Ended(native, TRUE)
  BY DEF PollWorld
<1>3. /\ client' \in [state : {"idle", "runtime", "joining", "loading", "session", "closing"},
                      load : BOOLEAN, manual : BOOLEAN, error : BOOLEAN]
      /\ client' = Fails(client) => client'.state \notin {"loading", "session"}
  BY <1>2, InvParts, FailsEnds
<1>4. /\ Consistent(native') /\ ~(native'.pending /\ game = "menu") /\ Step
  <2>1. CASE UNCHANGED native
    BY <1>1, <2>1, InvParts, StepOfOthers DEF Settled
  <2>2. CASE native' = Ended(native, TRUE)
    BY <1>1, <2>2, EndedIsAllowed DEF Step
  <2> QED
    BY <1>2, <2>1, <2>2
<1>5. client'.state \in {"loading", "session"} => Guarded'
  BY <1>2, <1>3, InvParts DEF Guarded
<1>6. Settled'
  BY <1>1, <1>4 DEF Settled
<1> QED
  BY <1>1, <1>3, <1>4, <1>5, <1>6, InvParts, Collects

LEMMA FrameEndsKeeps ==
    ASSUME IInv, FrameEnds
    PROVE  IInv' /\ Step
<1>1. /\ frame' = "start" /\ Queued(native')
      /\ UNCHANGED <<game, asked, data, lifecycle, epoch, client, loads>>
      /\ \/ \E error \in BOOLEAN : native' = Ended(native, error)
         \/ ~native.active /\ native' = Cancelled(native)
  BY DEF FrameEnds
<1>2. /\ Consistent(native') /\ Step
      /\ native'.phase = "ready" => native.phase = "ready" /\ native'.locked = native.locked
  <2>1. CASE \E error \in BOOLEAN : native' = Ended(native, error)
    BY <2>1, EndedIsAllowed DEF Step
  <2>2. CASE ~native.active /\ native' = Cancelled(native)
    <3> DEFINE c == Cancelled(native)
    <3>1. /\ Consistent(c) /\ c.locked = native.locked /\ c.phase \in {native.phase, "none"}
          /\ \/ c = native
             \/ ~c.requested /\ World(c) = IF native.active THEN World(native) ELSE "none"
      BY InvParts, CancelledKeeps
    <3> HIDE DEF c
    <3>2. c.requested \in BOOLEAN /\ World(native) \notin {"ready", "unloading"}
      BY <2>2, <3>1, InvParts DEF Consistent, Native, World
    <3>3. Allows(World(native), native.requested, World(c), c.requested)
      BY <2>2, <3>1, <3>2 DEF Allows
    <3> QED
      BY <2>2, <3>1, <3>3 DEF Step, c
  <2> QED
    BY <1>1, <2>1, <2>2
<1>3. Guarded' /\ Settled'
  BY <1>1, <1>2, InvParts DEF Guarded, Settled
<1> QED
  BY <1>1, <1>2, <1>3, InvParts, Collects

-----------------------------------------------------------------------------
(* The other threads and the engine.                                       *)

LEMMA ConnectKeeps ==
    ASSUME IInv, Connect
    PROVE  IInv' /\ Step
<1>1. /\ ~native.pending
      /\ client' = [state |-> "runtime", load |-> FALSE, manual |-> FALSE, error |-> FALSE]
      /\ native' = [native EXCEPT !.requested = TRUE]
      /\ UNCHANGED <<game, asked, unload, data, lifecycle, epoch, frame, loads>>
  BY DEF Connect, engine
<1>2. /\ Consistent(native') /\ ~native'.pending /\ native'.requested = TRUE
      /\ native'.phase = native.phase
  BY <1>1, InvParts DEF Consistent, Native, Starting
<1>3. Settled'
  BY <1>1, <1>2 DEF Settled
<1>4. IInv'
  BY <1>1, <1>2, <1>3, InvParts, Collects
<1>5. World(native) # "unloading" /\ World(native') = World(native)
  BY <1>1, <1>2, InvParts DEF World, Consistent
<1>6. Step
  BY <1>2, <1>5 DEF Step, Allows
<1> QED
  BY <1>4, <1>6

LEMMA NetworkKeeps ==
    ASSUME IInv, Disconnect \/ Network
    PROVE  IInv' /\ Step
<1>1. /\ UNCHANGED <<game, asked, unload, data, lifecycle, epoch, native, frame, loads>>
      /\ \/ client' = [client EXCEPT !.state = "closing", !.manual = TRUE, !.error = FALSE]
         \/ client' = Fails(client)
         \/ client.state \in {"loading", "session"} /\ client' = [client EXCEPT !.state = "joining"]
         \/ client' = [client EXCEPT !.state = "idle", !.load = FALSE, !.manual = FALSE]
  BY DEF Disconnect, Network, engine
<1>2. /\ client' \in [state : {"idle", "runtime", "joining", "loading", "session", "closing"},
                      load : BOOLEAN, manual : BOOLEAN, error : BOOLEAN]
      /\ client'.state \notin {"loading", "session"}
      /\ client'.state = "joining" => client.state \in {"loading", "session"}
  BY <1>1, InvParts, FailsEnds
<1>3. Settled'
  BY <1>1, <1>2, InvParts DEF Settled, Capable
<1>4. IInv'
  BY <1>1, <1>2, <1>3, InvParts, Collects
<1> QED
  BY <1>1, <1>4, StepOfOthers

LEMMA EngineKeeps ==
    ASSUME IInv, Engine
    PROVE  IInv' /\ Step
<1>1. /\ frame = "start" /\ UNCHANGED <<native, frame, client>>
      /\ game' \in Places /\ asked' \in BOOLEAN /\ data' \in BOOLEAN
      /\ unload' \in {"none", "queued", "refused"}
      /\ lifecycle' \in BOOLEAN /\ epoch' \in BOOLEAN
      /\ lifecycle' \/ (game # "menu" /\ lifecycle' = lifecycle)
      /\ loads' = loads \/ (loads < MaxLoads /\ loads' = loads + 1)
  <2>1. CASE NewGameBegins
    BY <2>1, InvParts DEF NewGameBegins, LoadBegins, Places
  <2>2. CASE UserLoads
    BY <2>2, InvParts DEF UserLoads, LoadBegins, Places
  <2>3. CASE LoadEnds
    BY <2>3, InvParts DEF LoadEnds, Places, InWorld
  <2>4. CASE UserQuits
    BY <2>4, InvParts DEF UserQuits, MenuReached, Places
  <2>5. CASE UnloadRuns
    BY <2>5, InvParts DEF UnloadRuns, MenuReached, Places
  <2> QED
    BY <2>1, <2>2, <2>3, <2>4, <2>5 DEF Engine
<1>2. loads' \in Nat /\ loads' <= MaxLoads
  BY <1>1, InvParts, MaxLoadsIsNumber
<1>3. TypeOK'
  BY <1>1, <1>2, InvParts DEF TypeOK, Native
<1>4. Guarded' /\ Settled' /\ Consistent(native)'
  BY <1>1, InvParts DEF Guarded, Settled
<1>5. (~lifecycle => game = "menu")'
  BY <1>1, InvParts
<1>6. IInv'
  BY <1>2, <1>3, <1>4, <1>5 DEF IInv
<1> QED
  BY <1>1, <1>6, StepOfOthers

-----------------------------------------------------------------------------
LEMMA InitHolds == Init => IInv
<1> SUFFICES ASSUME Init PROVE IInv
  OBVIOUS
<1>1. /\ native \in Native /\ native.phase = "none" /\ ~native.pending /\ ~native.locked
      /\ ~native.expected /\ native.start = "none"
  BY DEF Init, Native
<1>2. Consistent(native) /\ Guarded /\ Settled
  BY <1>1 DEF Init, Consistent, Starting, Guarded, Settled
<1>3. game = "menu" /\ loads \in Nat /\ loads <= MaxLoads
  BY MaxLoadsIsNumber DEF Init
<1>4. TypeOK
  BY <1>1, <1>3 DEF Init, TypeOK, Native, Places
<1> QED
  BY <1>2, <1>3, <1>4 DEF IInv

LEMMA NextKeeps ==
    ASSUME IInv, [Next]_vars
    PROVE  IInv' /\ Step
<1>1. CASE UNCHANGED vars
  <2>1. UNCHANGED <<game, asked, unload, data, lifecycle, epoch, native, frame, client, loads>>
    BY <1>1 DEF vars
  <2>2. Guarded' /\ Settled'
    BY <2>1, InvParts DEF Guarded, Settled, Capable, Starting
  <2> QED
    BY <2>1, <2>2, InvParts, Collects, StepOfOthers
<1>2. CASE \E late \in BOOLEAN : OnFrame(late)
  BY <1>2, OnFrameKeeps
<1>3. CASE TickSkipped
  BY <1>3, TickSkippedKeeps
<1>4. CASE TickClient
  BY <1>4, TickClientKeeps
<1>5. CASE TickBootstrap
  BY <1>5, TickBootstrapKeeps
<1>6. CASE PollWorld
  BY <1>6, PollWorldKeeps
<1>7. CASE FrameEnds
  BY <1>7, FrameEndsKeeps
<1>8. CASE Connect
  BY <1>8, ConnectKeeps
<1>9. CASE Disconnect \/ Network
  BY <1>9, NetworkKeeps
<1>10. CASE Engine
  BY <1>10, EngineKeeps
<1> QED
  BY <1>1, <1>2, <1>3, <1>4, <1>5, <1>6, <1>7, <1>8, <1>9, <1>10 DEF Next, Frame

\* No step turns an unload that is pending into one that is stuck, or back.
LEMMA NextIsSteadfast ==
    ASSUME IInv, [Next]_vars
    PROVE  Steadfast
<1>1. CASE UNCHANGED unload \/ Queued(native')
  BY <1>1, QueuedKeeps DEF IInv
<1>2. CASE UnloadRuns
  BY <1>2 DEF UnloadRuns, Steadfast
<1>3. \/ UNCHANGED unload \/ Queued(native')
      \/ UnloadRuns
  BY DEF Next, Frame, Engine, vars, engine, OnFrame, TickSkipped, TickClient, TickBootstrap,
         PollWorld, FrameEnds, Connect, Disconnect, Network, NewGameBegins, UserLoads,
         LoadEnds, UserQuits
<1> QED
  BY <1>1, <1>2, <1>3

LEMMA IInvHolds == Spec => []IInv
<1>1. IInv /\ [Next]_vars => IInv'
  BY NextKeeps
<1> QED
  BY InitHolds, <1>1, PTL DEF Spec

\* The runtime's state keeps its types (native_runtime, its members).
THEOREM TypeCorrect == Spec => []TypeOK
<1>1. IInv => TypeOK
  BY DEF IInv
<1> QED
  BY IInvHolds, <1>1, PTL

\* While a session runs in a world that is ready, the user cannot save the
\* server's world, and saving is disabled only as long as a sandbox is active
\* or unloading: the user gets it back however the session ends
\* (activate_loaded_sandbox, invalidate_epoch_on_game_thread,
\* finish_native_unload_if_complete).
THEOREM SavesStayLocked == Spec => []SavesAreLocked
<1>1. IInv => SavesAreLocked
  BY DEF IInv, SavesAreLocked, Guarded, Consistent
<1> QED
  BY IInvHolds, <1>1, PTL

\* Every step of the runtime, of its client, of the user and of the engine is
\* one that the client's view of its runtime (client_runtime) allows: the
\* contract ClientConnection is built on, but for its liveness.
THEOREM RuntimeKeepsContract == Spec => Sandbox!Spec
<1>1. Init => Sandbox!Init
  BY DEF Init, Sandbox!Init
<1>2. IInv /\ IInv' /\ [Next]_vars => [Sandbox!Next]_(Sandbox!vars)
  BY NextKeeps, NextIsSteadfast, StepIsNext DEF IInv
<1> QED
  BY <1>1, <1>2, IInvHolds, PTL DEF Spec, Sandbox!Spec
=============================================================================

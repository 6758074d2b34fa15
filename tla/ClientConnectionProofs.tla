----------------------- MODULE ClientConnectionProofs -----------------------
(***************************************************************************)
(* Theorems about ClientConnection, for any number of joins and attempts   *)
(* and queues of any capacity: a session has its world, client and server  *)
(* agree on the phase of the join, and nothing the client says comes to a  *)
(* stage of the server that does not wait for it.                          *)
(***************************************************************************)
EXTENDS ClientConnection, TLAPS

Clients == [state : States, manual : BOOLEAN, wish : BOOLEAN,
            load : BOOLEAN]

\* A client as it may be: it wishes to connect until it has ended, and a
\* disconnect that the user asked for is one of a client that is closing.
Sound(c) ==
    /\ c \in Clients
    /\ c.wish => c.state # "disconnected"
    /\ c.manual => c.state = "closing"

Holds(seq, message) == \E i \in 1..Len(seq) : seq[i] = message
OnlyFirst(seq, message) == \A i \in 1..Len(seq) : seq[i] = message => i = 1

\* A world_ready is all there is to say.
ReadyAlone ==
    \/ running = <<>> /\ commands = <<"ready">>
    \/ running = <<"ready">> /\ commands = <<>>

\* From the connect command of its join on, a client that goes on with the join
\* has nothing to say but the world_ready it has pushed, and by the time it
\* reconnects network_loop has swapped out and run that as well.
OwnIsQuiet ==
    own =>
        /\ client.state # "runtime"
        /\ client.state = "connecting" => running = <<>> /\ commands = <<>>
        /\ client.state \in Phases \cup {"reconnecting"} =>
               \/ running = <<>> /\ commands = <<>>
               \/ client.state \in {"applying", "connected", "reconnecting"} /\ ReadyAlone
        /\ client.state = "reconnecting" =>
               \/ net.again = "set" /\ running = <<>>
               \/ net.again = "due" /\ commands = <<>>

\* A world_ready of the join has nothing before it, and the server waits for it
\* while it has the connection.
ReadyGoesFirst ==
    own =>
        /\ OnlyFirst(running, "ready") /\ OnlyFirst(commands, "ready")
        /\ Holds(commands, "ready") => running = <<>>
        /\ Holds(running, "ready") \/ Holds(commands, "ready") =>
               peer \in {"none", "loading", "gone"} /\ net.link # "connecting"

\* While the game thread starts a world the session is not in it yet, and
\* while it ends one there is no session.
FrameFits == frame \in {"begin", "leave"} => client.state \notin {"applying", "connected"}

\* What the server has said to a connection it has at a stage.
WireFits ==
    /\ peer \in {"none", "fresh", "greeted"} => wire = <<>>
    /\ peer \in {"challenged", "known"} => ~ Holds(wire, "wait")
    /\ peer \in {"challenged", "known", "waiting"} => ~ Holds(wire, "bootstrap")
    /\ peer \in {"challenged", "known", "waiting", "loading", "ready"} =>
           ~ Holds(wire, "accepted")

IInv ==
    /\ TypeOK
    /\ SessionHasWorld /\ PhasesMatch /\ SaysWhatFits
    /\ OwnIsQuiet /\ ReadyGoesFirst
    /\ FrameFits /\ WireFits

-----------------------------------------------------------------------------
(* Sequences.                                                              *)

LEMMA AppendHolds ==
    ASSUME NEW S, NEW seq \in Seq(S), NEW m \in S
    PROVE  /\ Append(seq, m) \in Seq(S)
           /\ Len(Append(seq, m)) = Len(seq) + 1
           /\ \A x : Holds(Append(seq, m), x) <=> Holds(seq, x) \/ x = m
           /\ \A x : OnlyFirst(seq, x) /\ x # m => OnlyFirst(Append(seq, m), x)
<1> DEFINE long == Append(seq, m)
<1>1. /\ long \in Seq(S)
      /\ Len(long) = Len(seq) + 1
      /\ \A i \in 1..Len(seq) : long[i] = seq[i]
      /\ long[Len(seq) + 1] = m
      /\ Len(seq) \in Nat
  OBVIOUS
<1> HIDE DEF long
<1>2. ASSUME NEW x PROVE Holds(long, x) <=> Holds(seq, x) \/ x = m
  <2>1. ASSUME Holds(seq, x) PROVE Holds(long, x)
    <3>1. PICK i \in 1..Len(seq) : seq[i] = x
      BY <2>1 DEF Holds
    <3>2. i \in 1..Len(long) /\ long[i] = x
      BY <3>1, <1>1
    <3> QED BY <3>2 DEF Holds
  <2>2. ASSUME x = m PROVE Holds(long, x)
    <3>1. Len(seq) + 1 \in 1..Len(long) /\ long[Len(seq) + 1] = x
      BY <2>2, <1>1
    <3> QED BY <3>1 DEF Holds
  <2>3. ASSUME Holds(long, x), x # m PROVE Holds(seq, x)
    <3>1. PICK i \in 1..Len(long) : long[i] = x
      BY <2>3 DEF Holds
    <3>2. i \in 1..Len(seq) /\ seq[i] = x
      BY <3>1, <2>3, <1>1
    <3> QED BY <3>2 DEF Holds
  <2> QED BY <2>1, <2>2, <2>3
<1>3. ASSUME NEW x, OnlyFirst(seq, x), x # m PROVE OnlyFirst(long, x)
  <2>1. ASSUME NEW i \in 1..Len(long), long[i] = x PROVE i = 1
    <3>1. i \in 1..Len(seq) /\ seq[i] = x
      BY <2>1, <1>3, <1>1
    <3> QED BY <3>1, <1>3 DEF OnlyFirst
  <2> QED BY <2>1 DEF OnlyFirst
<1> QED BY <1>1, <1>2, <1>3 DEF long

LEMMA TailHolds ==
    ASSUME NEW S, NEW seq \in Seq(S), seq # <<>>
    PROVE  /\ Tail(seq) \in Seq(S) /\ Head(seq) \in S
           /\ Len(Tail(seq)) = Len(seq) - 1 /\ Len(seq) \in Nat
           /\ Holds(seq, Head(seq))
           /\ \A x : Holds(Tail(seq), x) => Holds(seq, x)
           /\ \A x : OnlyFirst(seq, x) => ~ Holds(Tail(seq), x)
<1> DEFINE rest == Tail(seq)
<1>1. /\ rest \in Seq(S) /\ Head(seq) \in S
      /\ Len(seq) \in Nat /\ Len(seq) >= 1
      /\ Len(rest) = Len(seq) - 1
      /\ \A i \in 1..Len(rest) : rest[i] = seq[i + 1]
      /\ Head(seq) = seq[1]
  OBVIOUS
<1> HIDE DEF rest
<1>2. Holds(seq, Head(seq))
  <2>1. 1 \in 1..Len(seq)
    BY <1>1
  <2> QED BY <2>1, <1>1 DEF Holds
<1>3. ASSUME NEW x, Holds(rest, x)
      PROVE  Holds(seq, x) /\ ~ OnlyFirst(seq, x)
  <2>1. PICK i \in 1..Len(rest) : rest[i] = x
    BY <1>3 DEF Holds
  <2>2. i + 1 \in 1..Len(seq) /\ seq[i + 1] = x /\ i + 1 # 1
    BY <2>1, <1>1
  <2> QED BY <2>2 DEF Holds, OnlyFirst
<1> QED BY <1>1, <1>2, <1>3 DEF rest

LEMMA EmptyHolds ==
    /\ Len(<<>>) = 0
    /\ \A S : <<>> \in Seq(S)
    /\ \A x : ~ Holds(<<>>, x) /\ OnlyFirst(<<>>, x)
BY DEF Holds, OnlyFirst

\* Nothing comes before what is alone.
LEMMA AloneIsFirst ==
    ASSUME NEW S, NEW m \in S, NEW seq \in Seq(S), seq = <<>>
    PROVE  /\ Append(seq, m) = <<m>>
           /\ OnlyFirst(Append(seq, m), m)
<1>1. Append(seq, m) = <<m>> /\ Len(<<m>>) = 1
  OBVIOUS
<1> QED BY <1>1 DEF OnlyFirst

-----------------------------------------------------------------------------
(* The phases.                                                             *)

\* The phases that is_valid_client_transition leads to a phase from.
LEMMA Sources ==
    ASSUME NEW from \in States
    PROVE  /\ CanMove(from, "runtime") <=> from = "disconnected"
           /\ CanMove(from, "connecting") <=> from \in {"runtime", "reconnecting"}
           /\ CanMove(from, "preflight") <=> from = "connecting"
           /\ CanMove(from, "authenticating") <=> from = "preflight"
           /\ CanMove(from, "waiting") <=> from = "authenticating"
           /\ CanMove(from, "loading") <=> from \in {"authenticating", "waiting"}
           /\ CanMove(from, "applying") <=> from = "loading"
           /\ CanMove(from, "connected") <=> from = "applying"
           /\ CanMove(from, "reconnecting") <=> from \in Phases \cup {"connecting"}
           /\ CanMove(from, "closing") <=> from \notin Ended
           /\ CanMove(from, "disconnected")
BY DEF CanMove, Follows, States, Phases, Ended

LEMMA ToEnded ==
    ASSUME NEW c, Sound(c)
    PROVE  /\ Sound(To(c, "closing")) /\ To(c, "closing").state \in Ended
           /\ To(c, "closing").state = "disconnected" => c.state = "disconnected"
           /\ To(c, "closing").state # "disconnected" => To(c, "closing").state = "closing"
           /\ To(c, "closing").manual = c.manual
           /\ To(c, "disconnected") = Nothing
           /\ Sound(Nothing)
<1>1. c \in Clients /\ c.state \in States
  BY DEF Sound, Clients
<1>2. To(c, "closing") = IF c.state \in Ended THEN c ELSE [c EXCEPT !.state = "closing"]
  BY <1>1, Sources DEF To, Ended
<1>3. To(c, "disconnected") = Nothing
  BY <1>1, Sources DEF To
<1>4. Sound(Nothing)
  BY DEF Sound, Nothing, Clients, States, Ended
<1> QED BY <1>1, <1>2, <1>3, <1>4 DEF Sound, Clients, States, Ended

LEMMA ToPhase ==
    ASSUME NEW c, Sound(c), NEW s \in States \ Ended
    PROVE  /\ Sound(To(c, s))
           /\ To(c, s).state \in Ended \cup {s}
           /\ To(c, s).state = s <=> CanMove(c.state, s)
           /\ To(c, s).state = "disconnected" => c.state = "disconnected"
           /\ c.state \in Ended /\ s # "runtime" => To(c, s).state \in Ended
<1>1. c \in Clients /\ c.state \in States
  BY DEF Sound, Clients
<1>2. CanMove(c.state, s) => /\ c.state = "disconnected" <=> s = "runtime"
                             /\ c.state # "closing"
  BY <1>1 DEF CanMove, Follows, States, Phases, Ended
<1>3. To(c, s) = IF CanMove(c.state, s) THEN [c EXCEPT !.state = s]
                 ELSE IF c.state \in Ended THEN c ELSE [c EXCEPT !.state = "closing"]
  BY <1>1 DEF To, Ended
<1>4. CASE CanMove(c.state, s)
  BY <1>1, <1>2, <1>3, <1>4 DEF Sound, Clients, States, Ended, Phases
<1>5. CASE ~ CanMove(c.state, s)
  BY <1>1, <1>2, <1>3, <1>5 DEF Sound, Clients, States, Ended, Phases
<1> QED BY <1>4, <1>5

\* What relates the phase of the client to the rest.
Agreed ==
    /\ SessionHasWorld /\ PhasesMatch /\ SaysWhatFits
    /\ OwnIsQuiet /\ ReadyGoesFirst
    /\ FrameFits /\ WireFits

LEMMA SoundClient == TypeOK => Sound(client) /\ client.state \in States
BY DEF TypeOK, Sound, Clients

-----------------------------------------------------------------------------
(* The steps of the user and of the game thread.                           *)

\* What is said after the rest and is no world_ready.
LEMMA Said ==
    ASSUME IInv, NEW m \in CommandNames \ {"ready"}, commands' = Append(commands, m),
           UNCHANGED <<running, peer, own>>, net'.link = net.link
    PROVE  commands' \in Seq(CommandNames) /\ ReadyGoesFirst'
<1>1. commands \in Seq(CommandNames) /\ ReadyGoesFirst
  BY DEF IInv, TypeOK
<1>2. /\ commands' \in Seq(CommandNames)
      /\ \A x : Holds(commands', x) <=> Holds(commands, x) \/ x = m
      /\ \A x : OnlyFirst(commands, x) /\ x # m => OnlyFirst(commands', x)
  BY <1>1, AppendHolds
<1>3. ReadyGoesFirst'
  BY <1>1, <1>2 DEF ReadyGoesFirst
<1> QED BY <1>2, <1>3

\* The step leaves the client ended, and tells the network thread at most.
LEMMA EndingKeeps ==
    ASSUME IInv, UNCHANGED <<running, net, peer, wire, own>>, client'.state \in Ended,
           \/ UNCHANGED commands
           \/ \E m \in {"disconnect", "failed"} : commands' = Append(commands, m)
    PROVE  Agreed' /\ commands' \in Seq(CommandNames)
<1>1. commands' \in Seq(CommandNames) /\ ReadyGoesFirst'
  <2>1. CASE UNCHANGED commands
    BY <2>1 DEF IInv, TypeOK, ReadyGoesFirst
  <2>2. ASSUME NEW m \in {"disconnect", "failed"}, commands' = Append(commands, m)
        PROVE  commands' \in Seq(CommandNames) /\ ReadyGoesFirst'
    BY <2>2, Said DEF CommandNames
  <2> QED BY <2>1, <2>2
<1>2. SessionHasWorld' /\ PhasesMatch' /\ OwnIsQuiet' /\ FrameFits'
  BY DEF SessionHasWorld, PhasesMatch, OwnIsQuiet, FrameFits, Ended, Phases
<1>3. SaysWhatFits' /\ WireFits'
  BY DEF IInv, SaysWhatFits, WireFits
<1> QED BY <1>1, <1>2, <1>3 DEF Agreed

\* The step leaves the client's phase and the network thread alone.
LEMMA StayingKeeps ==
    ASSUME IInv, UNCHANGED <<running, net, peer, wire, commands, own>>,
           client'.state = client.state,
           client.state \in {"applying", "connected"} =>
               world' = world /\ frame' \notin {"begin", "leave"}
    PROVE  Agreed' /\ commands' \in Seq(CommandNames)
<1>1. SessionHasWorld' /\ PhasesMatch' /\ SaysWhatFits' /\ FrameFits'
  BY DEF IInv, SessionHasWorld, PhasesMatch, SaysWhatFits, FrameFits
<1>2. OwnIsQuiet' /\ ReadyGoesFirst' /\ WireFits'
  BY DEF IInv, OwnIsQuiet, ReadyAlone, ReadyGoesFirst, WireFits
<1> QED BY <1>1, <1>2 DEF Agreed, IInv, TypeOK

LEMMA ConnectKeeps ==
    ASSUME IInv, Connect
    PROVE  IInv'
<1> USE DEF IInv
<1>1. Sound(client) /\ client.state = "disconnected"
  BY SoundClient DEF Connect
<1>2. To(client, "runtime") = [client EXCEPT !.state = "runtime"]
  BY <1>1 DEF To, CanMove, Follows
<1>3. Sound(client') /\ client'.state = "runtime"
  BY <1>1, <1>2 DEF Connect, Sound, Clients, States
<1>4. own' = FALSE /\ UNCHANGED <<commands, running, queue, frame, batch, net, peer, wire, world>>
  BY DEF Connect, Sandbox!Prepare
<1>5. prepared' = TRUE /\ joins' = joins + 1 /\ joins < MaxJoins
  BY DEF Connect, Sandbox!Prepare
<1>6. joins' \in 0..MaxJoins
  BY <1>5, BoundsAreNumbers DEF TypeOK
<1>7. TypeOK'
  BY <1>3, <1>4, <1>5, <1>6 DEF TypeOK, Sound, Clients
<1>8. SessionHasWorld' /\ FrameFits' /\ WireFits'
  BY <1>3, <1>4 DEF SessionHasWorld, FrameFits, WireFits
<1>9. PhasesMatch' /\ SaysWhatFits' /\ OwnIsQuiet' /\ ReadyGoesFirst'
  BY <1>4 DEF PhasesMatch, SaysWhatFits, OwnIsQuiet, ReadyGoesFirst
<1> QED BY <1>7, <1>8, <1>9

LEMMA DisconnectKeeps == ASSUME IInv, Disconnect PROVE IInv'
<1>1. Sound(client) /\ client.state \notin Ended /\ client.state \in States
  BY SoundClient DEF Disconnect, IInv
<1>2. To(client, "closing") = [client EXCEPT !.state = "closing"]
  BY <1>1, Sources DEF To
<1>3. Sound(client') /\ client'.state = "closing"
  BY <1>1, <1>2 DEF Disconnect, Sound, Clients, States, Ended
<1>4. UNCHANGED <<commands, running, queue, frame, batch, net, peer, wire, world, prepared,
                  joins, own>>
  BY DEF Disconnect
<1>5. Agreed'
  BY <1>3, <1>4, EndingKeeps DEF Ended
<1>6. TypeOK'
  BY <1>3, <1>4 DEF TypeOK, Sound, Clients, IInv
<1> QED BY <1>5, <1>6 DEF IInv, Agreed

LEMMA WorldMovesKeeps == ASSUME IInv, WorldMoves PROVE IInv'
<1>1. /\ UNCHANGED <<client, commands, running, queue, frame, batch, net, peer, wire, joins, own>>
      /\ frame = "start"
  BY DEF WorldMoves
<1>2. world' \in Sandbox!Phases /\ prepared' \in BOOLEAN /\ world # "ready"
  BY DEF WorldMoves, Sandbox!Move, Sandbox!Conceal, Sandbox!Phases, Sandbox!Unloads, IInv, TypeOK
<1>3. client.state \notin {"applying", "connected"}
  BY <1>2 DEF IInv, SessionHasWorld
<1>4. Agreed'
  BY <1>1, <1>3, StayingKeeps DEF IInv, FrameFits
<1>5. TypeOK'
  BY <1>1, <1>2 DEF TypeOK, IInv
<1> QED BY <1>4, <1>5 DEF IInv, Agreed

\* A failure that the game thread reports closes the client.
LEMMA CloseKeeps ==
    ASSUME IInv, NEW c, Sound(c), c.state = client.state, Close(c),
           UNCHANGED <<running, net, peer, wire, own>>
    PROVE  Agreed' /\ commands' \in Seq(CommandNames) /\ Sound(client')
<1>1. /\ Sound(client') /\ client'.state \in Ended
      /\ commands' = Append(commands, "disconnect")
  BY ToEnded DEF Close
<1>2. Agreed' /\ commands' \in Seq(CommandNames)
  BY <1>1, EndingKeeps
<1> QED BY <1>1, <1>2

LEMMA EpochChangesKeeps == ASSUME IInv, EpochChanges PROVE IInv'
<1>1. /\ frame = "start" /\ UNCHANGED <<frame, batch, running, net, peer, wire, joins, own>>
      /\ world' \in Sandbox!Phases /\ prepared' \in BOOLEAN
      /\ queue' = queue \/ queue' = <<>>
  BY DEF EpochChanges, Sandbox!Invalidate, Sandbox!Phases, Sandbox!Unloads, Close
<1> DEFINE lost == [client EXCEPT !.load = FALSE, !.wish = FALSE]
<1>2. Sound(client) /\ Sound(lost) /\ lost.state = client.state
  BY SoundClient DEF IInv, Sound, Clients
<1>3. Agreed' /\ commands' \in Seq(CommandNames) /\ Sound(client')
  <2>1. CASE client.load /\ client.state = "loading"
    <3>1. UNCHANGED <<client, commands>>
      BY <2>1 DEF EpochChanges
    <3>2. Agreed' /\ commands' \in Seq(CommandNames)
      BY <2>1, <3>1, <1>1, StayingKeeps
    <3> QED BY <3>1, <3>2, <1>2
  <2>2. CASE ~(client.load /\ client.state = "loading") /\ client.state \in Ended
    <3>1. client' = lost /\ UNCHANGED commands
      BY <2>2 DEF EpochChanges
    <3>2. Agreed' /\ commands' \in Seq(CommandNames)
      BY <2>2, <3>1, <1>1, <1>2, StayingKeeps DEF Ended
    <3> QED BY <3>1, <3>2, <1>2
  <2>3. CASE ~(client.load /\ client.state = "loading") /\ client.state \notin Ended
    <3>1. Close(lost)
      BY <2>3 DEF EpochChanges
    <3> HIDE DEF lost
    <3> QED BY <3>1, <1>1, <1>2, CloseKeeps
  <2> QED BY <2>1, <2>2, <2>3
<1>4. TypeOK'
  BY <1>1, <1>3, BoundsAreNumbers, EmptyHolds DEF TypeOK, IInv, Sound, Clients
<1> QED BY <1>3, <1>4 DEF IInv, Agreed

\* The client connects: the command is the last one said.
LEMMA PreflightKeeps ==
    ASSUME IInv, GateDecides, Preflight, frame' = "handle",
           UNCHANGED <<running, net, peer, wire, world, own>>
    PROVE  Agreed' /\ commands' \in Seq(CommandNames) /\ Sound(client')
<1>1. Sound(client) /\ client.state = "runtime"
  BY SoundClient DEF IInv, GateDecides
<1>2. CASE ~ prepared
  <2>1. client' = Nothing /\ UNCHANGED commands
    BY <1>1, <1>2, ToEnded DEF Preflight
  <2>2. client'.state = "disconnected" /\ Sound(client')
    BY <2>1, <1>1, ToEnded DEF Nothing
  <2> QED BY <2>1, <2>2, <1>1, EndingKeeps DEF Ended
<1>3. CASE prepared
  <2>1. commands' = Append(commands, "connect")
    BY <1>3 DEF Preflight
  <2>2. commands' \in Seq(CommandNames) /\ ReadyGoesFirst'
    BY <2>1, Said DEF CommandNames
  <2>3. To(client, "connecting") = [client EXCEPT !.state = "connecting"]
    BY <1>1 DEF To, CanMove, Follows, Ended
  <2>4. Sound(client') /\ client'.state = "connecting"
    BY <1>1, <1>3, <2>3 DEF Preflight, Sound, Clients, States
  <2>5. ~ own
    BY <1>1 DEF IInv, OwnIsQuiet
  <2>6. SessionHasWorld' /\ PhasesMatch' /\ OwnIsQuiet' /\ FrameFits'
    BY <2>4, <2>5 DEF SessionHasWorld, PhasesMatch, OwnIsQuiet, FrameFits, Phases
  <2>7. SaysWhatFits' /\ WireFits'
    BY DEF IInv, SaysWhatFits, WireFits
  <2> QED BY <2>2, <2>4, <2>6, <2>7 DEF Agreed
<1> QED BY <1>2, <1>3

LEMMA StartTickKeeps == ASSUME IInv, StartTick PROVE IInv'
<1>1. frame = "start" /\ UNCHANGED <<running, net, peer, wire, world, prepared, joins, own>>
  BY DEF StartTick
<1>2. Sound(client) /\ client.state \in States
  BY SoundClient DEF IInv
<1>3. CASE client.state = "disconnected" \/ client.manual
  <2>1. /\ frame' = "leave" /\ client' = [client EXCEPT !.manual = FALSE]
        /\ UNCHANGED commands \/ commands' = Append(commands, "disconnect")
        /\ UNCHANGED <<queue, batch>>
    BY <1>3 DEF StartTick
  <2>2. Sound(client') /\ client'.state = client.state /\ client.state \in Ended
    BY <2>1, <1>2, <1>3 DEF Sound, Clients, Ended
  <2>3. Agreed' /\ commands' \in Seq(CommandNames)
    BY <2>1, <2>2, <1>1, EndingKeeps
  <2>4. TypeOK'
    BY <1>1, <2>1, <2>2, <2>3 DEF TypeOK, IInv, Sound, Clients
  <2> QED BY <2>3, <2>4 DEF IInv, Agreed
<1>4. CASE client.state # "disconnected" /\ ~ client.manual
  <2>1. /\ frame' = "handle" /\ batch' = queue /\ queue' = <<>>
        /\ IF GateDecides THEN Preflight ELSE UNCHANGED <<client, commands>>
    BY <1>4 DEF StartTick, Drain
  <2>2. Agreed' /\ commands' \in Seq(CommandNames) /\ Sound(client')
    <3>1. CASE GateDecides
      BY <3>1, <1>1, <2>1, PreflightKeeps
    <3>2. CASE ~ GateDecides
      BY <3>2, <1>1, <1>2, <2>1, StayingKeeps
    <3> QED BY <3>1, <3>2
  <2>3. TypeOK'
    BY <1>1, <2>1, <2>2, EmptyHolds, BoundsAreNumbers DEF TypeOK, IInv, Sound, Clients
  <2> QED BY <2>2, <2>3 DEF IInv, Agreed
<1> QED BY <1>3, <1>4

LEMMA HandleKeeps == ASSUME IInv, Handle PROVE IInv'
<1>1. /\ frame = "handle" /\ batch # <<>> /\ batch' = Tail(batch)
      /\ UNCHANGED <<running, queue, net, peer, wire, world, prepared, joins, own>>
      /\ frame' \in {"handle", "begin"}
  BY DEF Handle
<1>2. Sound(client) /\ client.state \in States
  BY SoundClient DEF IInv
<1>3. /\ frame' = "begin" => client.state \in {"waiting", "loading"}
      /\ UNCHANGED <<client, commands>> \/ Close(client)
  BY <1>1 DEF Handle
<1>4. Agreed' /\ commands' \in Seq(CommandNames) /\ Sound(client')
  <2>1. CASE UNCHANGED <<client, commands>>
    BY <2>1, <1>1, <1>2, <1>3, StayingKeeps
  <2>2. CASE Close(client)
    BY <2>2, <1>1, <1>2, CloseKeeps
  <2> QED BY <1>3, <2>1, <2>2
<1>5. batch' \in Seq(ForGameThread)
  BY <1>1, TailHolds DEF IInv, TypeOK
<1>6. TypeOK'
  BY <1>1, <1>4, <1>5 DEF TypeOK, IInv, Sound, Clients
<1> QED BY <1>4, <1>6 DEF IInv, Agreed

\* A world that cannot be used closes the client, and the server is told.
LEMMA FailKeeps ==
    ASSUME IInv, NEW c, Sound(c), c.state = client.state, client' = To(c, "closing"),
           commands' = Append(commands, "failed"), UNCHANGED <<running, net, peer, wire, own>>
    PROVE  Agreed' /\ commands' \in Seq(CommandNames) /\ Sound(client')
<1>1. Sound(client') /\ client'.state \in Ended
  BY ToEnded
<1>2. Agreed' /\ commands' \in Seq(CommandNames)
  BY <1>1, EndingKeeps
<1> QED BY <1>1, <1>2

LEMMA BeginKeeps == ASSUME IInv, Begin PROVE IInv'
<1>1. /\ frame = "begin" /\ frame' = "handle"
      /\ UNCHANGED <<running, queue, batch, net, peer, wire, prepared, joins, own>>
      /\ world' \in Sandbox!Phases
  BY DEF Begin, Sandbox!Started, Sandbox!Refused, Sandbox!Phases, Sandbox!Unloads, IInv, TypeOK
<1>2. Sound(client) /\ client.state \in States /\ client.state \notin {"applying", "connected"}
  BY <1>1, SoundClient DEF IInv, FrameFits
<1>3. Agreed' /\ commands' \in Seq(CommandNames) /\ Sound(client')
  <2>1. CASE /\ client' \in {client, [client EXCEPT !.load = TRUE]}
             /\ UNCHANGED commands
    <3>1. Sound(client') /\ client'.state = client.state
      BY <1>2, <2>1 DEF Sound, Clients
    <3>2. Agreed' /\ commands' \in Seq(CommandNames)
      BY <2>1, <3>1, <1>1, <1>2, StayingKeeps
    <3> QED BY <3>1, <3>2
  <2>2. CASE client' = To(client, "closing") /\ commands' = Append(commands, "failed")
    BY <2>2, <1>1, <1>2, FailKeeps
  <2> QED BY <2>1, <2>2 DEF Begin
<1>4. TypeOK'
  BY <1>1, <1>3 DEF TypeOK, IInv, Sound, Clients
<1> QED BY <1>3, <1>4 DEF IInv, Agreed

LEMMA LeaveKeeps == ASSUME IInv, Leave PROVE IInv'
<1>1. /\ frame = "leave" /\ frame' = "start"
      /\ UNCHANGED <<client, commands, running, queue, batch, net, peer, wire, joins, own>>
      /\ world' \in Sandbox!Phases /\ prepared' \in BOOLEAN
  BY DEF Leave, Sandbox!End, Sandbox!Phases, Sandbox!Unloads, IInv, TypeOK
<1>2. client.state \notin {"applying", "connected"}
  BY <1>1 DEF IInv, FrameFits
<1>3. Agreed'
  BY <1>1, <1>2, StayingKeeps
<1>4. TypeOK'
  BY <1>1 DEF TypeOK, IInv
<1> QED BY <1>3, <1>4 DEF IInv, Agreed

\* The world is there: world_ready is said to a server that waits for it.
LEMMA ReadyKeeps ==
    ASSUME IInv, frame = "handle", UNCHANGED <<running, net, peer, wire, world, own>>, world = "ready",
           NEW c, Sound(c), c.state = client.state, client' = To(c, "applying"),
           commands' = IF CanMove(client.state, "applying")
                         THEN Append(commands, "ready") ELSE commands,
           frame' = IF client'.state \in Ended THEN "leave" ELSE "start"
    PROVE  Agreed' /\ commands' \in Seq(CommandNames) /\ Sound(client')
<1>1. /\ client.state \in States /\ commands \in Seq(CommandNames)
      /\ CanMove(client.state, "applying") <=> client.state = "loading"
  BY SoundClient, Sources DEF IInv, TypeOK
<1>2. /\ Sound(client')
      /\ client'.state \in Ended \cup {"applying"}
      /\ client'.state = "applying" <=> client.state = "loading"
  BY <1>1, ToPhase DEF States, Ended, Phases
<1>3. CASE client.state # "loading"
  <2>1. client'.state \in Ended /\ UNCHANGED commands
    BY <1>1, <1>2, <1>3
  <2> QED BY <1>2, <2>1, EndingKeeps
<1>4. CASE client.state = "loading"
  <2>1. client'.state = "applying" /\ commands' = Append(commands, "ready")
    BY <1>1, <1>2, <1>4
  <2>2. commands' \in Seq(CommandNames)
    BY <1>1, <2>1, AppendHolds DEF CommandNames
  <2>3. own => /\ net.link = "open" /\ peer \in {"loading", "gone"}
               /\ running = <<>> /\ commands = <<>>
    BY <1>4 DEF IInv, OwnIsQuiet, PhasesMatch, Counterparts, Phases
  <2>4. own => commands' = <<"ready">> /\ OnlyFirst(commands', "ready")
    <3>1. "ready" \in CommandNames
      BY DEF CommandNames
    <3> QED BY <1>1, <2>1, <2>3, <3>1, AloneIsFirst
  <2>5. SessionHasWorld' /\ PhasesMatch'
    BY <2>1, <2>3 DEF SessionHasWorld, PhasesMatch, Counterparts
  <2>6. OwnIsQuiet' /\ ReadyGoesFirst'
    BY <2>1, <2>3, <2>4, EmptyHolds DEF OwnIsQuiet, ReadyAlone, ReadyGoesFirst
  <2>7. SaysWhatFits' /\ FrameFits' /\ WireFits'
    BY <2>1 DEF IInv, SaysWhatFits, FrameFits, WireFits, Ended
  <2> QED BY <1>2, <2>2, <2>5, <2>6, <2>7 DEF Agreed
<1> QED BY <1>3, <1>4

LEMMA AdvanceKeeps == ASSUME IInv, Advance PROVE IInv'
<1> DEFINE done == [client EXCEPT !.load = FALSE]
<1>1. /\ frame = "handle" /\ batch = <<>>
      /\ UNCHANGED <<running, queue, batch, net, peer, wire, joins, own>>
      /\ frame' = IF client'.state \in Ended THEN "leave" ELSE "start"
      /\ world' \in Sandbox!Phases /\ prepared' \in BOOLEAN
  BY DEF Advance, Sandbox!End, Sandbox!Phases, Sandbox!Unloads, IInv, TypeOK
<1>2. /\ Sound(client) /\ client.state \in States
      /\ Sound(done) /\ done.state = client.state
  BY SoundClient DEF IInv, Sound, Clients
<1>3. Agreed' /\ commands' \in Seq(CommandNames) /\ Sound(client')
  <2>1. CASE UNCHANGED <<client, commands, world>>
    BY <2>1, <1>1, <1>2, StayingKeeps DEF Ended
  <2>2. CASE Close(client)
    BY <2>2, <1>1, <1>2, CloseKeeps
  <2>3. CASE /\ client.state = "connected"
             /\ client' = To(client, "disconnected")
             /\ commands' = Append(commands, "disconnect")
    <3>0. Nothing.state = "disconnected"
      BY DEF Nothing
    <3>1. Sound(client') /\ client'.state = "disconnected"
      BY <2>3, <1>2, <3>0, ToEnded
    <3>2. Agreed' /\ commands' \in Seq(CommandNames)
      BY <2>3, <3>1, <1>1, EndingKeeps DEF Ended
    <3> QED BY <3>1, <3>2
  <2>4. CASE client' = To(done, "closing") /\ commands' = Append(commands, "failed")
    <3> HIDE DEF done
    <3> QED BY <2>4, <1>1, <1>2, FailKeeps
  <2>5. CASE /\ world = "ready" /\ UNCHANGED world
             /\ client' = To(done, "applying")
             /\ commands' = IF CanMove(client.state, "applying")
                              THEN Append(commands, "ready") ELSE commands
    <3> HIDE DEF done
    <3> QED BY <2>5, <1>1, <1>2, ReadyKeeps
  <2> QED BY <2>1, <2>2, <2>3, <2>4, <2>5 DEF Advance
<1>4. TypeOK'
  BY <1>1, <1>3 DEF TypeOK, IInv, Sound, Clients
<1> QED BY <1>3, <1>4 DEF IInv, Agreed

-----------------------------------------------------------------------------
(* The steps of the network thread.                                        *)

Links == [alive : BOOLEAN, link : {"none", "connecting", "open", "dead"},
          again : {"no", "set", "due"}, attempt : 0..MaxAttempts]

LEMMA TakeCommandsKeeps == ASSUME IInv, TakeCommands PROVE IInv'
<1>1. /\ running = <<>> /\ running' = commands /\ commands' = <<>>
      /\ net' = IF net.again = "set" THEN [net EXCEPT !.again = "due"] ELSE net
      /\ UNCHANGED <<client, queue, frame, batch, peer, wire, world, prepared, joins, own>>
  BY DEF TakeCommands
<1>2. /\ net' \in Links /\ net'.link = net.link
      /\ net.again \in {"set", "due"} => net'.again = "due"
  BY <1>1 DEF IInv, TypeOK, Links
<1>3. SessionHasWorld' /\ PhasesMatch' /\ SaysWhatFits' /\ FrameFits' /\ WireFits'
  BY <1>1, <1>2 DEF IInv, SessionHasWorld, PhasesMatch, SaysWhatFits, FrameFits, WireFits
<1>4. OwnIsQuiet'
  BY <1>1, <1>2 DEF IInv, OwnIsQuiet, ReadyAlone
<1>5. ReadyGoesFirst'
  BY <1>1, <1>2, EmptyHolds DEF IInv, ReadyGoesFirst
<1>6. TypeOK'
  BY <1>1, <1>2, EmptyHolds DEF IInv, TypeOK, Links
<1> QED BY <1>3, <1>4, <1>5, <1>6 DEF IInv

\* What is left to run once a command has been run.
LEMMA RunFacts ==
    ASSUME IInv, running # <<>>, running' = Tail(running)
    PROVE  /\ running' \in Seq(CommandNames) /\ Head(running) \in CommandNames
           /\ Holds(running, Head(running))
           /\ own => /\ ~ Holds(running', "ready") /\ ~ Holds(commands, "ready")
                     /\ OnlyFirst(running', "ready") /\ OnlyFirst(commands, "ready")
<1>1. running \in Seq(CommandNames)
  BY DEF IInv, TypeOK
<1>2. /\ running' \in Seq(CommandNames) /\ Head(running) \in CommandNames
      /\ Holds(running, Head(running))
      /\ OnlyFirst(running, "ready") => ~ Holds(running', "ready")
  BY <1>1, TailHolds
<1>3. own => /\ OnlyFirst(running, "ready") /\ OnlyFirst(commands, "ready")
             /\ ~ Holds(commands, "ready")
  BY DEF IInv, ReadyGoesFirst
<1>4. ~ Holds(running', "ready") => OnlyFirst(running', "ready")
  BY DEF Holds, OnlyFirst
<1> QED BY <1>2, <1>3, <1>4

LEMMA RunSendKeeps ==
    ASSUME IInv, net.alive, running # <<>>, running' = Tail(running),
           Head(running) \in {"ready", "failed"}, RunSend(Head(running)),
           UNCHANGED <<commands, frame, world>>
    PROVE  Agreed' /\ peer' \in Peers /\ (peer' = "none" <=> peer = "none")
<1> DEFINE message == Head(running)
<1>1. /\ UNCHANGED <<client, net, wire, own>>
      /\ peer' = IF net.link = "open" THEN Received(peer, message) ELSE peer
  BY DEF RunSend
<1>2. /\ Holds(running, message)
      /\ own => /\ ~ Holds(running', "ready") /\ ~ Holds(commands, "ready")
                /\ OnlyFirst(running', "ready") /\ OnlyFirst(commands, "ready")
  BY RunFacts
<1>3. message = "ready" /\ own => peer \in {"none", "loading", "gone"}
  BY <1>2 DEF IInv, ReadyGoesFirst
<1>4. /\ peer' \in Peers
      /\ \/ peer' = peer
         \/ message = "ready" /\ peer = "loading" /\ peer' = "ready"
         \/ message = "ready" /\ peer \notin {"none", "loading", "gone"} /\ peer' = "confused"
         \/ message = "failed" /\ peer \notin {"none", "gone"} /\ peer' = "sorry"
  <2>1. peer \in Peers /\ message \in {"ready", "failed"}
    BY DEF IInv, TypeOK
  <2>2. peer \in {"none", "gone"} => Received(peer, message) = peer
    BY DEF Received
  <2>3. message = "ready" /\ peer = "loading" => Received(peer, message) = "ready"
    BY DEF Received
  <2>4. message = "ready" /\ peer \notin {"none", "loading", "gone"}
            => Received(peer, message) = "confused"
    BY DEF Received
  <2>5. message = "failed" /\ peer \notin {"none", "gone"} => Received(peer, message) = "sorry"
    BY DEF Received
  <2> HIDE DEF message
  <2> QED BY <1>1, <2>1, <2>2, <2>3, <2>4, <2>5 DEF Peers
<1>5. own => /\ client.state # "connecting"
             /\ client.state \in Phases \cup {"reconnecting"} =>
                    /\ message = "ready" /\ running' = <<>> /\ commands' = <<>>
                    /\ client.state \in {"applying", "connected", "reconnecting"}
  <2>1. running = <<"ready">> => message = "ready" /\ running' = <<>>
    OBVIOUS
  <2> QED BY <2>1 DEF IInv, OwnIsQuiet, ReadyAlone
<1>6. SaysWhatFits' /\ PhasesMatch'
  <2>1. SaysWhatFits'
    BY <1>1, <1>3, <1>4 DEF IInv, SaysWhatFits
  <2>2. PhasesMatch'
    BY <1>1, <1>3, <1>4, <1>5 DEF IInv, PhasesMatch, Counterparts, Phases
  <2> QED BY <2>1, <2>2
<1>7. OwnIsQuiet' /\ ReadyGoesFirst'
  BY <1>1, <1>2, <1>5 DEF IInv, OwnIsQuiet, ReadyGoesFirst
<1>8. SessionHasWorld' /\ FrameFits'
  BY <1>1 DEF IInv, SessionHasWorld, FrameFits
<1>9. WireFits'
  BY <1>1, <1>4 DEF IInv, WireFits
<1> QED BY <1>4, <1>6, <1>7, <1>8, <1>9 DEF Agreed

\* The step takes the connection away, or finds none.
LEMMA CutKeeps ==
    ASSUME IInv, UNCHANGED <<frame, world>>, peer' = "none", wire' = <<>>,
           client'.state \notin Phases
    PROVE  SessionHasWorld' /\ PhasesMatch' /\ SaysWhatFits' /\ FrameFits' /\ WireFits'
<1>1. SessionHasWorld' /\ PhasesMatch' /\ FrameFits'
  BY DEF SessionHasWorld, PhasesMatch, FrameFits, Phases
<1>2. SaysWhatFits' /\ WireFits'
  BY DEF SaysWhatFits, WireFits
<1> QED BY <1>1, <1>2

LEMMA RunCommandKeeps == ASSUME IInv, RunCommand PROVE IInv'
<1>1. /\ net.alive /\ running # <<>> /\ running' = Tail(running)
      /\ UNCHANGED <<commands, queue, frame, batch, world, prepared, joins>>
  BY DEF RunCommand
<1>2. net \in Links /\ 0 \in 0..MaxAttempts
  BY BoundsAreNumbers DEF IInv, TypeOK, Links
<1>3. /\ running' \in Seq(CommandNames) /\ Head(running) \in CommandNames
      /\ own => /\ ~ Holds(running', "ready") /\ ~ Holds(commands, "ready")
                /\ OnlyFirst(running', "ready") /\ OnlyFirst(commands, "ready")
  BY <1>1, RunFacts
<1>4. Sound(client) /\ client.state \in States
  BY SoundClient DEF IInv
<1>5. CASE Head(running) = "connect" /\ RunConnect
  <2>1. /\ net' \in Links /\ net'.link = "connecting"
        /\ peer' = "none" /\ wire' = <<>> /\ UNCHANGED client
        /\ own' \in BOOLEAN
        /\ own' => client.state = "connecting" /\ running' = <<>> /\ commands' = <<>>
    BY <1>1, <1>2, <1>5 DEF RunConnect, Opened, Links
  <2>2. SessionHasWorld' /\ FrameFits' /\ WireFits'
    BY <1>1, <2>1 DEF IInv, SessionHasWorld, FrameFits, WireFits
  <2>3. PhasesMatch' /\ SaysWhatFits' /\ OwnIsQuiet' /\ ReadyGoesFirst'
    BY <2>1, EmptyHolds DEF PhasesMatch, SaysWhatFits, OwnIsQuiet, ReadyGoesFirst, Phases
  <2>4. TypeOK'
    BY <1>1, <1>3, <2>1, EmptyHolds, BoundsAreNumbers DEF TypeOK, IInv, Links, Peers
  <2> QED BY <2>2, <2>3, <2>4 DEF IInv
<1>6. CASE RunMisdirected \/ RunDisconnect
  <2>1. UNCHANGED own
    BY <1>6 DEF RunMisdirected, RunDisconnect
  <2>2. client' = Nothing /\ Sound(client')
    BY <1>4, <1>6, ToEnded DEF RunMisdirected, RunDisconnect
  <2>3. client'.state = "disconnected"
    BY <2>2 DEF Nothing
  <2>4. net' \in Links /\ net'.link = "none" /\ peer' = "none" /\ wire' = <<>>
    BY <1>2, <1>6 DEF RunMisdirected, RunDisconnect, NoLink, Links
  <2>5. SessionHasWorld' /\ PhasesMatch' /\ SaysWhatFits' /\ FrameFits' /\ WireFits'
    BY <1>1, <2>3, <2>4, CutKeeps DEF Phases
  <2>6. OwnIsQuiet' /\ ReadyGoesFirst'
    BY <1>1, <1>3, <2>1, <2>3 DEF OwnIsQuiet, ReadyGoesFirst, Phases
  <2>7. TypeOK'
    BY <1>1, <1>3, <2>1, <2>2, <2>3, <2>4, EmptyHolds, BoundsAreNumbers
       DEF TypeOK, IInv, Links, Peers, Sound, Clients
  <2> QED BY <2>5, <2>6, <2>7 DEF IInv
<1>7. CASE Head(running) \in {"ready", "failed"}
  <2>1. RunSend(Head(running))
    BY <1>7 DEF RunCommand
  <2>2. Agreed' /\ peer' \in Peers /\ (peer' = "none" <=> peer = "none")
    BY <1>1, <1>7, <2>1, RunSendKeeps
  <2>3. UNCHANGED <<client, net, wire, own>>
    BY <2>1 DEF RunSend
  <2>4. TypeOK'
    BY <1>1, <1>3, <2>2, <2>3 DEF TypeOK, IInv
  <2> QED BY <2>2, <2>4 DEF IInv, Agreed
<1>8. \/ Head(running) = "connect" /\ RunConnect
      \/ RunMisdirected \/ RunDisconnect
      \/ Head(running) \in {"ready", "failed"}
  BY <1>3 DEF CommandNames, RunCommand
<1> QED BY <1>5, <1>6, <1>7, <1>8

\* The network thread has nothing to do but to reconnect and to listen.
LEMMA PollFacts ==
    ASSUME IInv, Polls
    PROVE  /\ net \in Links /\ net.alive /\ running = <<>>
           /\ Sound(client) /\ client.state \in States
           /\ net.link # "open" => peer = "none" /\ wire = <<>>
           /\ frame \in {"begin", "leave"} => client.state \notin {"applying", "connected"}
BY SoundClient DEF IInv, Polls, TypeOK, Links, FrameFits, WireFits

LEMMA ReconnectKeeps == ASSUME IInv, Reconnect PROVE IInv'
<1>1. /\ Polls /\ net.link = "none" /\ net.again = "due"
      /\ UNCHANGED <<commands, running, queue, frame, batch, peer, wire, world, prepared,
                     joins, own>>
      /\ client' = To(client, "connecting")
  BY DEF Reconnect
<1>2. /\ net \in Links /\ running = <<>> /\ Sound(client) /\ client.state \in States
      /\ peer = "none" /\ wire = <<>>
  BY <1>1, PollFacts
<1>3. /\ Sound(client') /\ client'.state \in Ended \cup {"connecting"}
      /\ client'.state = "connecting" <=> client.state \in {"runtime", "reconnecting"}
  BY <1>1, <1>2, ToPhase, Sources DEF States, Ended, Phases
<1>4. /\ net' \in Links
      /\ net'.link = IF client.state \in {"runtime", "reconnecting"} THEN "connecting" ELSE "none"
  BY <1>1, <1>2, Sources DEF Reconnect, Opened, Links
<1>5. SessionHasWorld' /\ PhasesMatch' /\ SaysWhatFits' /\ FrameFits' /\ WireFits'
  BY <1>1, <1>2, <1>3, CutKeeps DEF Phases, Ended
<1>6. own /\ client.state \in {"runtime", "reconnecting"} => commands = <<>>
  BY <1>1 DEF IInv, OwnIsQuiet
<1>7. OwnIsQuiet'
  BY <1>1, <1>2, <1>3, <1>6 DEF OwnIsQuiet, Phases, Ended
<1>8. ReadyGoesFirst'
  BY <1>1, <1>2, <1>4, <1>6, EmptyHolds DEF IInv, ReadyGoesFirst
<1>9. TypeOK'
  BY <1>1, <1>2, <1>3, <1>4 DEF TypeOK, IInv, Links, Sound, Clients
<1> QED BY <1>5, <1>7, <1>8, <1>9 DEF IInv

LEMMA LinkOpensKeeps == ASSUME IInv, LinkOpens PROVE IInv'
<1>1. /\ Polls /\ net.link = "connecting" /\ net' = [net EXCEPT !.link = "open"]
      /\ UNCHANGED <<commands, running, queue, frame, batch, wire, world, prepared, joins, own>>
  BY DEF LinkOpens
<1>2. /\ net \in Links /\ running = <<>>
      /\ Sound(client) /\ client.state \in States
      /\ peer = "none" /\ wire = <<>>
  BY <1>1, PollFacts
<1>3. net' \in Links /\ net'.link = "open"
  BY <1>1, <1>2 DEF Links
<1>4. /\ Sound(client') /\ peer' \in {"fresh", "greeted"}
      /\ \/ client'.state \in Ended
         \/ /\ client.state = "connecting" /\ client'.state = "preflight"
            /\ peer' = "greeted"
  <2>1. CASE /\ client' = To(client, "preflight")
             /\ peer' = IF CanMove(client.state, "preflight")
                          THEN Received("fresh", "hello") ELSE "fresh"
    <3>1. /\ Sound(client') /\ client'.state \in Ended \cup {"preflight"}
          /\ client'.state = "preflight" <=> CanMove(client.state, "preflight")
          /\ CanMove(client.state, "preflight") <=> client.state = "connecting"
      BY <1>2, <2>1, ToPhase, Sources DEF States, Ended, Phases
    <3>2. Received("fresh", "hello") = "greeted"
      BY DEF Received
    <3> QED BY <1>2, <2>1, <3>1, <3>2
  <2>2. CASE client' = To(client, "disconnected") /\ peer' = "fresh"
    <3>1. client' = Nothing /\ Sound(client')
      BY <1>2, <2>2, ToEnded
    <3>2. client'.state \in Ended
      BY <3>1 DEF Nothing, Ended
    <3> QED BY <2>2, <3>1, <3>2
  <2> QED BY <2>1, <2>2 DEF LinkOpens
<1>5. own => ~ Holds(commands, "ready") /\ ~ Holds(running, "ready")
  BY <1>1 DEF IInv, ReadyGoesFirst
<1>6. own /\ client.state = "connecting" => commands = <<>>
  BY DEF IInv, OwnIsQuiet
<1>7. SessionHasWorld' /\ PhasesMatch' /\ SaysWhatFits' /\ FrameFits' /\ WireFits'
  BY <1>1, <1>2, <1>3, <1>4
     DEF SessionHasWorld, PhasesMatch, SaysWhatFits, FrameFits, WireFits, Counterparts,
         Phases, Ended
<1>8. OwnIsQuiet' /\ ReadyGoesFirst'
  BY <1>1, <1>2, <1>4, <1>5, <1>6 DEF IInv, OwnIsQuiet, ReadyGoesFirst, Phases, Ended
<1>9. TypeOK'
  BY <1>1, <1>3, <1>4 DEF TypeOK, IInv, Links, Sound, Clients, Peers
<1> QED BY <1>7, <1>8, <1>9 DEF IInv

LEMMA LinkEndsKeeps == ASSUME IInv, LinkEnds PROVE IInv'
<1> DEFINE retry == peer # "gone" /\ net.attempt < MaxAttempts
           ends == client.state \in Ended \/ ~ retry
<1>1. /\ Polls /\ net.link \in {"connecting", "open"} /\ peer' = "none" /\ wire' = <<>>
      /\ UNCHANGED <<commands, running, queue, frame, batch, world, prepared, joins, own>>
  BY DEF LinkEnds
<1>2. /\ net \in Links /\ running = <<>>
      /\ Sound(client) /\ client.state \in States
  BY <1>1, PollFacts
<1>3. /\ Sound(client') /\ net' \in Links /\ net'.link = "none"
      /\ \/ client'.state \in Ended
         \/ /\ client.state \in Phases \cup {"connecting"}
            /\ client'.state = "reconnecting" /\ net'.again = "set"
  <2>1. CASE ends
    <3>1. client' = Nothing /\ Sound(client') /\ net' = NoLink
      BY <1>2, <2>1, ToEnded DEF LinkEnds
    <3>2. client'.state \in Ended
      BY <3>1 DEF Nothing, Ended
    <3>3. net' \in Links /\ net'.link = "none"
      BY <1>2, <3>1 DEF NoLink, Links
    <3> QED BY <3>1, <3>2, <3>3
  <2>2. CASE ~ ends
    <3>1. /\ client' = To(client, "reconnecting")
          /\ net' = [NoLink EXCEPT !.again = "set", !.attempt = @ + 1]
          /\ net.attempt < MaxAttempts
      BY <2>2 DEF LinkEnds
    <3>2. /\ Sound(client') /\ client'.state \in Ended \cup {"reconnecting"}
          /\ client'.state = "reconnecting" => client.state \in Phases \cup {"connecting"}
      BY <1>2, <3>1, ToPhase, Sources DEF States, Ended, Phases
    <3>3. net.attempt \in Nat /\ MaxAttempts \in Nat
      BY <1>2, BoundsAreNumbers DEF Links
    <3>4. net.attempt + 1 \in 0..MaxAttempts
      BY <3>1, <3>3
    <3>5. net' \in Links /\ net'.link = "none" /\ net'.again = "set"
      BY <1>2, <3>1, <3>4 DEF NoLink, Links
    <3> QED BY <3>2, <3>5
  <2> QED BY <2>1, <2>2
<1>4. SessionHasWorld' /\ PhasesMatch' /\ SaysWhatFits' /\ FrameFits' /\ WireFits'
  BY <1>1, <1>3, CutKeeps DEF Phases, Ended
<1>5. OwnIsQuiet'
  BY <1>1, <1>2, <1>3 DEF IInv, OwnIsQuiet, ReadyAlone, Phases, Ended
<1>6. ReadyGoesFirst'
  BY <1>1, <1>3 DEF IInv, ReadyGoesFirst
<1>7. TypeOK'
  BY <1>1, <1>3, EmptyHolds, BoundsAreNumbers DEF TypeOK, IInv, Links, Sound, Clients, Peers
<1> QED BY <1>4, <1>5, <1>6, <1>7 DEF IInv

\* The client gives the connection up.
LEMMA AbortKeeps ==
    ASSUME IInv, Polls, net.link = "open", NEW attempt \in 0..MaxAttempts, Abort(attempt),
           Sound(client'), client'.state \in Ended,
           UNCHANGED <<commands, running, queue, frame, batch, world, prepared, joins, own>>
    PROVE  IInv'
<1>1. net \in Links
  BY PollFacts
<1>2. net' \in Links /\ net'.link = "dead" /\ peer' = "none" /\ wire' = <<>>
  BY <1>1 DEF Abort, Links
<1>3. SessionHasWorld' /\ PhasesMatch' /\ SaysWhatFits' /\ FrameFits' /\ WireFits'
  BY <1>2, CutKeeps DEF Phases, Ended
<1>4. OwnIsQuiet' /\ ReadyGoesFirst'
  BY <1>2 DEF IInv, OwnIsQuiet, ReadyGoesFirst, Phases, Ended
<1>5. TypeOK'
  BY <1>2, EmptyHolds, BoundsAreNumbers DEF TypeOK, IInv, Links, Sound, Clients, Peers
<1> QED BY <1>3, <1>4, <1>5 DEF IInv

\* The next message is read.
LEMMA ReadKeeps ==
    ASSUME IInv, wire # <<>>, wire' = Tail(wire),
           \/ peer' = peer
           \/ peer = "challenged" /\ peer' = "known"
           \/ peer' = "confused"
    PROVE  /\ WireFits' /\ wire' \in Seq(MessageNames) /\ Len(wire') <= MaxWire
           /\ peer' \notin {"none", "fresh", "greeted"}
<1>1. wire \in Seq(MessageNames) /\ Len(wire) <= MaxWire
  BY DEF IInv, TypeOK
<1>2. /\ wire' \in Seq(MessageNames)
      /\ Len(wire') = Len(wire) - 1 /\ Len(wire) \in Nat /\ MaxWire \in Nat
      /\ \A x : Holds(wire', x) => Holds(wire, x)
  BY <1>1, TailHolds, BoundsAreNumbers
<1>3. peer \notin {"none", "fresh", "greeted"}
  BY DEF IInv, WireFits
<1>4. WireFits'
  BY <1>2, <1>3 DEF IInv, WireFits
<1> QED BY <1>1, <1>2, <1>3, <1>4

LEMMA TakeChallengeKeeps ==
    ASSUME IInv, Polls, net.link = "open", wire # <<>>, client.state = "preflight",
           TakeChallenge,
           UNCHANGED <<commands, running, frame, batch, world, prepared, joins, own>>
    PROVE  IInv'
<1>1. Sound(client)
  BY PollFacts
<1>2. wire' = Tail(wire) /\ UNCHANGED <<net, queue>>
  BY DEF TakeChallenge
<1>3. /\ peer \in Peers \ {"none", "fresh", "greeted"}
      /\ own => /\ peer \in {"challenged", "gone"}
                /\ commands = <<>> /\ running = <<>>
  BY DEF IInv, TypeOK, PhasesMatch, OwnIsQuiet, Counterparts, Phases, WireFits
<1>4. /\ Sound(client') /\ peer' \in Peers
      /\ \/ peer' = peer
         \/ peer = "challenged" /\ peer' = "known"
         \/ ~ own /\ peer' = "confused"
      /\ \/ client'.state = "disconnected"
         \/ client'.state = "authenticating" /\ (own => peer' \in {"known", "gone"})
  <2>1. CASE /\ client' = To(client, "authenticating")
             /\ peer' = Received(peer, "authenticate")
    <3>1. Sound(client') /\ client'.state = "authenticating"
      BY <1>1, <2>1, ToPhase, Sources DEF States, Ended, Phases
    <3>2. Received(peer, "authenticate") =
              CASE peer = "gone" -> "gone"
                [] peer = "challenged" -> "known"
                [] OTHER -> "confused"
      BY <1>3 DEF Received
    <3> QED BY <1>3, <2>1, <3>1, <3>2 DEF Peers
  <2>2. CASE client' = To(client, "disconnected") /\ UNCHANGED peer
    <3>1. client' = Nothing /\ Sound(client')
      BY <1>1, <2>2, ToEnded
    <3>2. client'.state = "disconnected"
      BY <3>1 DEF Nothing
    <3> QED BY <1>3, <2>2, <3>1, <3>2
  <2> QED BY <2>1, <2>2 DEF TakeChallenge
<1>5. /\ WireFits' /\ wire' \in Seq(MessageNames) /\ Len(wire') <= MaxWire
      /\ peer' # "none"
  BY <1>2, <1>4, ReadKeeps
<1>6. SessionHasWorld' /\ PhasesMatch' /\ FrameFits'
  BY <1>2, <1>4 DEF SessionHasWorld, PhasesMatch, FrameFits, Counterparts, Phases
<1>7. SaysWhatFits'
  BY <1>2, <1>3, <1>4 DEF IInv, SaysWhatFits
<1>8. OwnIsQuiet' /\ ReadyGoesFirst'
  BY <1>2, <1>3, <1>4, EmptyHolds DEF OwnIsQuiet, ReadyGoesFirst, Phases
<1>9. TypeOK'
  BY <1>2, <1>4, <1>5 DEF TypeOK, IInv, Sound, Clients
<1> QED BY <1>5, <1>6, <1>7, <1>8, <1>9 DEF IInv

\* The phase a message for the game thread moves a client to that accepts it.
LEMMA PhaseAfterFacts ==
    ASSUME Sound(client), client.state \in States, NEW m \in ForGameThread,
           Allowed(client.state, m)
    PROVE  /\ Sound(PhaseAfter(m)) /\ client.state \in Phases
           /\ \/ PhaseAfter(m).state = "closing"
              \/ /\ m = "wait" /\ client.state = "authenticating"
                 /\ PhaseAfter(m).state = "waiting"
              \/ /\ m = "bootstrap" /\ client.state \in {"authenticating", "waiting"}
                 /\ PhaseAfter(m).state = "loading"
              \/ /\ m = "accepted" /\ client.state = "applying"
                 /\ PhaseAfter(m).state = "connected"
              \/ m = "play" /\ client.state = "connected" /\ PhaseAfter(m) = client
<1>1. CASE m = "wait"
  <2>1. client.state \in {"authenticating", "waiting"} /\ PhaseAfter(m) = To(client, "waiting")
    BY <1>1 DEF Allowed, PhaseAfter
  <2>2. /\ Sound(To(client, "waiting"))
        /\ To(client, "waiting").state \in Ended \cup {"waiting"}
        /\ To(client, "waiting").state = "waiting" <=> client.state = "authenticating"
        /\ To(client, "waiting").state # "disconnected"
    BY <2>1, ToPhase, Sources DEF States, Ended, Phases
  <2> QED BY <1>1, <2>1, <2>2 DEF Ended, Phases
<1>2. CASE m = "bootstrap"
  <2>1. client.state \in {"authenticating", "waiting"} /\ PhaseAfter(m) = To(client, "loading")
    BY <1>2 DEF Allowed, PhaseAfter
  <2>2. Sound(To(client, "loading")) /\ To(client, "loading").state = "loading"
    BY <2>1, ToPhase, Sources DEF States, Ended, Phases
  <2> QED BY <1>2, <2>1, <2>2 DEF Phases
<1>3. CASE m = "accepted"
  <2>1. client.state = "applying" /\ PhaseAfter(m) = To(client, "connected")
    BY <1>3 DEF Allowed, PhaseAfter
  <2>2. Sound(To(client, "connected")) /\ To(client, "connected").state = "connected"
    BY <2>1, ToPhase, Sources DEF States, Ended, Phases
  <2> QED BY <1>3, <2>1, <2>2 DEF Phases
<1>4. CASE m = "play"
  BY <1>4 DEF Allowed, PhaseAfter, Phases
<1> QED BY <1>1, <1>2, <1>3, <1>4 DEF ForGameThread

LEMMA PassToGameKeeps ==
    ASSUME IInv, Polls, net.link = "open", wire # <<>>, NEW m \in ForGameThread,
           m = Head(wire), Allowed(client.state, m), PassToGame(m),
           UNCHANGED <<commands, running, frame, batch, world, prepared, joins, own>>
    PROVE  IInv'
<1> DEFINE attempt == IF m = "accepted" THEN 0 ELSE net.attempt
           after == PhaseAfter(m)
<1>1. /\ net \in Links /\ Sound(client) /\ client.state \in States
      /\ attempt \in 0..MaxAttempts
      /\ frame \in {"begin", "leave"} => client.state \notin {"applying", "connected"}
  BY PollFacts, BoundsAreNumbers DEF Links
<1>2. /\ Sound(after) /\ client.state \in Phases
      /\ \/ after.state = "closing"
         \/ m = "wait" /\ client.state = "authenticating" /\ after.state = "waiting"
         \/ /\ m = "bootstrap" /\ client.state \in {"authenticating", "waiting"}
            /\ after.state = "loading"
         \/ m = "accepted" /\ client.state = "applying" /\ after.state = "connected"
         \/ m = "play" /\ client.state = "connected" /\ after = client
  BY <1>1, PhaseAfterFacts
<1>3. CASE Len(queue) < Capacity
  <2>1. /\ queue' = Append(queue, m) /\ client' = after
        /\ net' = [net EXCEPT !.attempt = attempt]
        /\ wire' = Tail(wire) /\ UNCHANGED peer
    BY <1>3 DEF PassToGame
  <2>2. net' \in Links /\ net'.link = "open"
    BY <1>1, <2>1 DEF Links
  <2>3. queue' \in Seq(ForGameThread) /\ Len(queue') <= Capacity
    <3>1. queue \in Seq(ForGameThread)
      BY DEF IInv, TypeOK
    <3>2. queue' \in Seq(ForGameThread) /\ Len(queue') = Len(queue) + 1
      BY <2>1, <3>1, AppendHolds
    <3>3. Len(queue) \in Nat /\ Capacity \in Nat
      BY <3>1, BoundsAreNumbers
    <3> QED BY <1>3, <3>2, <3>3
  <2>4. /\ WireFits' /\ wire' \in Seq(MessageNames) /\ Len(wire') <= MaxWire
        /\ Holds(wire, m)
    <3>1. Holds(wire, Head(wire))
      BY TailHolds DEF IInv, TypeOK
    <3> QED BY <2>1, <3>1, ReadKeeps
  <2>5. PhasesMatch'
    <3>1. /\ m = "wait" => peer # "known"
          /\ m = "bootstrap" => peer \notin {"known", "waiting"}
          /\ m = "accepted" => peer \notin {"loading", "ready"}
      BY <2>4 DEF IInv, WireFits
    <3>2. own => peer \in Counterparts(client.state) \cup {"gone"}
      BY <1>2 DEF IInv, PhasesMatch
    <3>3. CASE after.state = "closing"
      BY <2>1, <3>3 DEF PhasesMatch, Phases
    <3>4. CASE m = "wait" /\ client.state = "authenticating" /\ after.state = "waiting"
      BY <2>1, <2>2, <3>1, <3>2, <3>4 DEF PhasesMatch, Counterparts
    <3>5. CASE /\ m = "bootstrap" /\ client.state \in {"authenticating", "waiting"}
               /\ after.state = "loading"
      BY <2>1, <2>2, <3>1, <3>2, <3>5 DEF PhasesMatch, Counterparts
    <3>6. CASE m = "accepted" /\ client.state = "applying" /\ after.state = "connected"
      BY <2>1, <2>2, <3>1, <3>2, <3>6 DEF PhasesMatch, Counterparts
    <3>7. CASE m = "play" /\ client.state = "connected" /\ after = client
      BY <2>1, <2>2, <3>2, <3>7 DEF PhasesMatch
    <3> QED BY <1>2, <3>3, <3>4, <3>5, <3>6, <3>7
  <2>6. SessionHasWorld' /\ SaysWhatFits' /\ FrameFits'
    <3>1. client'.state \in {"applying", "connected"}
              => client.state \in {"applying", "connected"}
      BY <1>2, <2>1
    <3> QED BY <1>1, <2>1, <3>1 DEF IInv, SessionHasWorld, SaysWhatFits, FrameFits
  <2>7. OwnIsQuiet' /\ ReadyGoesFirst'
    <3>1. OwnIsQuiet'
      BY <1>2, <2>1 DEF IInv, OwnIsQuiet, ReadyAlone, Phases
    <3>2. ReadyGoesFirst'
      BY <2>1, <2>2 DEF IInv, ReadyGoesFirst
    <3> QED BY <3>1, <3>2
  <2>8. TypeOK'
    <3> HIDE DEF after
    <3> QED BY <1>2, <2>1, <2>2, <2>3, <2>4 DEF TypeOK, IInv, Links, Sound, Clients
  <2> QED BY <2>4, <2>5, <2>6, <2>7, <2>8 DEF IInv
<1>4. CASE ~ (Len(queue) < Capacity)
  <2>1. client' = To(after, "disconnected") /\ Abort(attempt) /\ UNCHANGED queue
    BY <1>4 DEF PassToGame
  <2>2. client' = Nothing /\ Sound(client')
    BY <1>2, <2>1, ToEnded
  <2>3. client'.state \in Ended
    BY <2>2 DEF Nothing, Ended
  <2> QED BY <1>1, <2>1, <2>2, <2>3, AbortKeeps
<1> QED BY <1>3, <1>4

LEMMA ReceiveKeeps == ASSUME IInv, Receive PROVE IInv'
<1> DEFINE m == Head(wire)
<1>1. /\ Polls /\ net.link = "open" /\ wire # <<>>
      /\ UNCHANGED <<commands, running, frame, batch, world, prepared, joins, own>>
  BY DEF Receive
<1>2. Sound(client) /\ client.state \in States /\ net.attempt \in 0..MaxAttempts
  BY <1>1, PollFacts DEF Links
<1>3. CASE RefuseMessage
  <2>1. client' = To(client, "closing") /\ Abort(net.attempt) /\ UNCHANGED queue
    BY <1>3 DEF RefuseMessage
  <2>2. Sound(client') /\ client'.state \in Ended
    BY <1>2, <2>1, ToEnded
  <2> QED BY <1>1, <1>2, <2>1, <2>2, AbortKeeps
<1>4. CASE TakeRefusal
  <2>1. client' = To(client, "disconnected") /\ Abort(net.attempt) /\ UNCHANGED queue
    BY <1>4 DEF TakeRefusal
  <2>2. client' = Nothing /\ Sound(client')
    BY <1>2, <2>1, ToEnded
  <2>3. client'.state \in Ended
    BY <2>2 DEF Nothing, Ended
  <2> QED BY <1>1, <1>2, <2>1, <2>2, <2>3, AbortKeeps
<1>5. CASE m = "challenge" /\ Allowed(client.state, m) /\ TakeChallenge
  <2>1. client.state = "preflight"
    BY <1>5 DEF Allowed
  <2> QED BY <1>1, <1>5, <2>1, TakeChallengeKeeps
<1>6. CASE m \in ForGameThread /\ Allowed(client.state, m) /\ PassToGame(m)
  BY <1>1, <1>6, PassToGameKeeps
<1> QED BY <1>3, <1>4, <1>5, <1>6 DEF Receive

-----------------------------------------------------------------------------
(* The steps of the server.                                                *)

LEMMA ServerKeeps == ASSUME IInv, Server PROVE IInv'
<1>1. PICK m \in MessageNames, stage \in Peers :
          /\ Says(m, stage)
          /\ \/ peer = "greeted" /\ m = "challenge" /\ stage = "challenged"
             \/ peer = "known" /\ m = "wait" /\ stage = "waiting"
             \/ peer \in {"known", "waiting"} /\ m = "bootstrap" /\ stage = "loading"
             \/ peer = "ready" /\ m = "accepted" /\ stage = "playing"
             \/ peer = "playing" /\ m = "play" /\ stage = "playing"
             \/ peer # "none" /\ m = "refused" /\ stage = "gone"
  <2> USE DEF MessageNames, ForGameThread, Peers
  <2>1. CASE Challenge
    BY <2>1 DEF Challenge
  <2>2. CASE LetWait
    BY <2>2 DEF LetWait
  <2>3. CASE Bootstrap
    BY <2>3 DEF Bootstrap
  <2>4. CASE Accept
    BY <2>4 DEF Accept
  <2>5. CASE Play
    BY <2>5 DEF Play
  <2>6. CASE Refuse
    BY <2>6 DEF Refuse
  <2> QED BY <2>1, <2>2, <2>3, <2>4, <2>5, <2>6 DEF Server
<1>2. /\ wire' = Append(wire, m) /\ peer' = stage /\ Len(wire) < MaxWire
      /\ UNCHANGED <<client, commands, running, queue, frame, batch, net, world, prepared,
                     joins, own>>
  BY <1>1 DEF Says
<1>3. /\ wire' \in Seq(MessageNames) /\ Len(wire') <= MaxWire
      /\ \A x : Holds(wire', x) => Holds(wire, x) \/ x = m
  <2>1. wire \in Seq(MessageNames) /\ Len(wire) \in Nat /\ MaxWire \in Nat
    BY BoundsAreNumbers DEF IInv, TypeOK
  <2> QED BY <1>2, <2>1, AppendHolds
<1>4. peer # "none" /\ stage \notin {"none", "fresh", "greeted", "confused"}
  BY <1>1
<1>5. WireFits'
  <2>1. peer \in {"greeted"} => \A x : ~ Holds(wire, x)
    BY EmptyHolds DEF IInv, WireFits
  <2> QED BY <1>1, <1>2, <1>3, <1>4, <2>1 DEF IInv, WireFits
<1>6. PhasesMatch'
  BY <1>1, <1>2 DEF IInv, PhasesMatch, Counterparts, Phases
<1>7. ReadyGoesFirst'
  BY <1>1, <1>2 DEF IInv, ReadyGoesFirst
<1>8. SessionHasWorld' /\ SaysWhatFits' /\ FrameFits'
  BY <1>2, <1>4 DEF IInv, SessionHasWorld, SaysWhatFits, FrameFits
<1>9. OwnIsQuiet'
  BY <1>2 DEF IInv, OwnIsQuiet, ReadyAlone
<1>10. TypeOK'
  BY <1>2, <1>3, <1>4 DEF IInv, TypeOK
<1> QED BY <1>5, <1>6, <1>7, <1>8, <1>9, <1>10 DEF IInv

-----------------------------------------------------------------------------
(* The theorems.                                                           *)

LEMMA InitInv == Init => IInv
<1> SUFFICES ASSUME Init PROVE IInv
  OBVIOUS
<1>1. /\ commands = <<>> /\ queue = <<>> /\ batch = <<>> /\ wire = <<>>
      /\ client = Nothing /\ client.state = "disconnected" /\ frame = "start"
      /\ net = [alive |-> TRUE, link |-> "none", again |-> "no", attempt |-> 0]
      /\ peer = "none" /\ world = "none" /\ prepared = FALSE /\ joins = 0
      /\ running = <<>> /\ own = FALSE
  BY DEF Init, Sandbox!Init, Nothing
<1>2. TypeOK
  <2>1. Sound(client)
    BY <1>1 DEF Sound, Clients, Nothing, States, Ended
  <2>2. 0 \in 0..MaxAttempts /\ 0 \in 0..MaxJoins /\ 0 <= Capacity /\ 0 <= MaxWire
    BY BoundsAreNumbers
  <2>3. net \in Links /\ net.link = "none"
    BY <1>1, <2>2 DEF Links
  <2> QED BY <1>1, <2>1, <2>2, <2>3, EmptyHolds
          DEF TypeOK, Sound, Clients, Links, Peers, Sandbox!Phases
<1>3. SessionHasWorld /\ PhasesMatch /\ SaysWhatFits /\ FrameFits
  BY <1>1 DEF SessionHasWorld, PhasesMatch, SaysWhatFits, FrameFits
<1>4. OwnIsQuiet /\ ReadyGoesFirst /\ WireFits
  BY <1>1 DEF OwnIsQuiet, ReadyGoesFirst, WireFits
<1> QED BY <1>2, <1>3, <1>4 DEF IInv

LEMMA NextInv == IInv /\ [Next]_vars => IInv'
<1> SUFFICES ASSUME IInv, [Next]_vars PROVE IInv'
  OBVIOUS
<1>1. CASE User
  BY <1>1, ConnectKeeps, DisconnectKeeps DEF User
<1>2. CASE Game
  BY <1>2, WorldMovesKeeps, EpochChangesKeeps, StartTickKeeps, HandleKeeps, BeginKeeps,
     AdvanceKeeps, LeaveKeeps DEF Game, Tick
<1>3. CASE Network
  BY <1>3, TakeCommandsKeeps, RunCommandKeeps, ReconnectKeeps, LinkOpensKeeps, LinkEndsKeeps,
     ReceiveKeeps DEF Network, Commands
<1>4. CASE Server
  BY <1>4, ServerKeeps
<1>5. CASE UNCHANGED vars
  <2>1. TypeOK'
    BY <1>5 DEF IInv, TypeOK, vars
  <2>2. SessionHasWorld' /\ PhasesMatch' /\ SaysWhatFits' /\ FrameFits'
    BY <1>5 DEF IInv, SessionHasWorld, PhasesMatch, SaysWhatFits, FrameFits, vars
  <2>3. OwnIsQuiet' /\ ReadyGoesFirst' /\ WireFits'
    BY <1>5 DEF IInv, OwnIsQuiet, ReadyAlone, ReadyGoesFirst, WireFits, vars
  <2> QED BY <2>1, <2>2, <2>3 DEF IInv
<1> QED BY <1>1, <1>2, <1>3, <1>4, <1>5 DEF Next

LEMMA Invariance == Spec => []IInv
BY InitInv, NextInv, PTL DEF Spec

\* The client, its queues and what it is connected to are what they should be,
\* however often it joins and however the threads interleave.
THEOREM TypeCorrect == Spec => []TypeOK
<1>1. IInv => TypeOK
  BY DEF IInv
<1> QED BY <1>1, Invariance, PTL

\* A client is in a session, or lets itself into one, only while the world that
\* was loaded for it is ready: begin_sandbox, end_sandbox and a changed epoch
\* all find it out of the session or take it out in the same step.
THEOREM SessionsHaveTheirWorld == Spec => []SessionHasWorld
<1>1. IInv => SessionHasWorld
  BY DEF IInv
<1> QED BY <1>1, Invariance, PTL

\* From the connect command of a join on, client and server agree how far it is,
\* over any number of reconnects, with any commands queued meanwhile and with any
\* number of messages under way: no wait, bootstrap or accept of the server comes
\* to a client in a phase that it is not for, and no new transport replaces the
\* connection of a client in a phase.
THEOREM PhasesAgree == Spec => []PhasesMatch
<1>1. IInv => PhasesMatch
  BY DEF IInv
<1> QED BY <1>1, Invariance, PTL

\* From the connect command of a join on, what the client says never comes to a
\* stage of the server that does not wait for it: a world_ready has nothing before
\* it in m_network_commands, so it goes to the connection it was pushed for or to
\* none, though network_loop swaps it out long before it is sent.
THEOREM NothingConfuses == Spec => []SaysWhatFits
<1>1. IInv => SaysWhatFits
  BY DEF IInv
<1> QED BY <1>1, Invariance, PTL
=============================================================================

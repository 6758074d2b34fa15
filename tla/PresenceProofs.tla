--------------------------- MODULE PresenceProofs ---------------------------
(***************************************************************************)
(* Theorems about Presence, for any finite number of players, any stations *)
(* and any number of messages under way.                                   *)
(***************************************************************************)
EXTENDS Presence, FiniteSetTheorems, SequenceTheorems, TLAPS

-----------------------------------------------------------------------------
(* What is on a stream.                                                    *)

Has(q, type) == \E i \in 1..Len(q) : q[i].type = type

Once(q, type) ==
    \A i, j \in 1..Len(q) : q[i].type = type /\ q[j].type = type => i = j

\* Each message of the one type is ahead of each message of the other.
Ahead(q, first, second) ==
    \A i, j \in 1..Len(q) : q[i].type = first /\ q[j].type = second => i < j

\* The last of the sleep states on the stream, or what the client has shown,
\* says that there are n votes.
Tells(q, shown, n) ==
    /\ \A i \in 1..Len(q) :
          /\ q[i].type = "sleep_state"
          /\ \A j \in 1..Len(q) : q[j].type = "sleep_state" => j <= i
          => q[i].sleepers = n
    /\ ~Has(q, "sleep_state") => shown = n

-----------------------------------------------------------------------------
(* What the two ends of a connection and the streams between them agree    *)
(* on: c is p's client, up and down are its streams, d is who is dead and  *)
(* a the activity p has, as the server knows them.                         *)

\* A death on its way, the server's word that p is dead, and a respawn on its
\* way back exclude one another, and p's client is dead while there is one; it
\* has asked to respawn while the question or the answer is on its way.
Mortal(p, c, up, down, d) ==
    /\ Once(up, "death") /\ Once(up, "respawn") /\ Once(down, "respawn")
    /\ Ahead(up, "death", "respawn")
    /\ Has(up, "death") => c.dead /\ p \notin d /\ ~Has(down, "respawn")
    /\ p \in d => c.dead /\ ~Has(down, "respawn")
    /\ c.dead => Has(up, "death") \/ p \in d \/ Has(down, "respawn")
    /\ c.respawning => c.dead /\ (Has(up, "respawn") \/ Has(down, "respawn"))
    /\ Has(up, "respawn") => c.respawning /\ ~Has(down, "respawn")
    /\ Has(down, "respawn") => c.respawning

\* A start on its way, its refusal and its grant exclude one another; the
\* client waits while there is one and has no activity then.  An activity is
\* the server's until its end is on its way, which follows the grant.
Busy(c, up, down, a) ==
    /\ Once(up, "start") /\ Once(down, "granted") /\ Once(down, "denied")
    /\ Once(down, "ended") /\ Ahead(down, "granted", "ended")
    /\ c.started = None \/ c.own = None
    /\ Has(up, "start") =>
           /\ c.started # None /\ a = None
           /\ ~Has(down, "denied") /\ ~Has(down, "granted") /\ ~Has(down, "ended")
    /\ Has(down, "denied") =>
           /\ c.started # None /\ a = None
           /\ ~Has(down, "granted") /\ ~Has(down, "ended")
    /\ Has(down, "granted") => c.started # None /\ (a # None \/ Has(down, "ended"))
    /\ Has(down, "ended") => a = None /\ (c.own # None \/ Has(down, "granted"))
    /\ c.started # None => Has(up, "start") \/ Has(down, "denied") \/ Has(down, "granted")
    /\ c.own # None => a # None \/ Has(down, "ended")
    /\ a # None => c.own = a \/ Has(down, "granted")
    /\ \A i \in 1..Len(up) : up[i].type = "start" => up[i].station = c.started
    /\ \A i \in 1..Len(down) : down[i].type = "denied" => down[i].station = c.started
    /\ \A i \in 1..Len(down) : down[i].type = "granted" =>
           /\ down[i].activity.station = c.started
           /\ a # None => down[i].activity = a

\* A client that was dead when it reconnected stays so: the server takes it to
\* be alive, whatever it asks.
Ghost(p, c, up, down, d) ==
    c.dead /\ p \notin d /\ ~Has(up, "death") /\ ~Has(down, "respawn")

Life(p, c, k, up, down, d) ==
    IF "death" \in k THEN Ghost(p, c, up, down, d) ELSE Mortal(p, c, up, down, d)

\* A client that kept an activity or a start can neither end it nor start one.
Stuck(c, up, down, a) ==
    /\ c.started # None \/ c.own # None
    /\ a = None /\ ~Has(up, "start")
    /\ ~Has(down, "granted") /\ ~Has(down, "denied") /\ ~Has(down, "ended")

Work(c, k, up, down, a) ==
    IF "activity" \in k THEN Stuck(c, up, down, a) ELSE Busy(c, up, down, a)

Linked(p, c, k, up, down, d, a, n) ==
    /\ Life(p, c, k, up, down, d)
    /\ Work(c, k, up, down, a)
    /\ Tells(down, c.shown, n)
    /\ ~c.closing

\* Nothing is left of a player whose connection is lost, but the death at the
\* server and what the client believes of itself.
Gone(p) ==
    /\ toServer[p] = <<>> /\ toClient[p] = <<>>
    /\ client[p].respawning => client[p].dead
    /\ ~client[p].closing
    /\ activity[p] = None /\ p \notin sleeping

Types ==
    /\ TypeOK
    /\ toServer \in [Players -> Seq(ClientMessage)]
    /\ toClient \in [Players -> Seq(ServerMessage)]

IInv ==
    /\ Types
    /\ StationsMatchActivities
    /\ \A p \in connected : Linked(p, client[p], carried[p], toServer[p], toClient[p],
                                   dead, activity[p], Cardinality(sleeping))
    /\ \A p \in Players \ connected : Gone(p)

-----------------------------------------------------------------------------
(* A message joins a stream at its end or leaves it at its head.           *)

LEMMA Appended ==
    ASSUME NEW S, NEW q \in Seq(S), NEW m \in S
    PROVE  /\ Append(q, m) \in Seq(S)
           /\ \A t : Has(Append(q, m), t) <=> Has(q, t) \/ m.type = t
           /\ \A t : Once(q, t) /\ ~(Has(q, t) /\ m.type = t) => Once(Append(q, m), t)
           /\ \A t, u : Ahead(q, t, u) /\ (m.type = t => m.type # u /\ ~Has(q, u)) =>
                  Ahead(Append(q, m), t, u)
<1> DEFINE r == Append(q, m)
<1>1. /\ r \in Seq(S) /\ Len(r) = Len(q) + 1 /\ Len(q) \in Nat
      /\ \A i \in 1..Len(q) : r[i] = q[i]
      /\ r[Len(q) + 1] = m
  BY AppendProperties, LenProperties
<1> HIDE DEF r
<1>2. \A i \in 1..Len(r) : (i \in 1..Len(q) /\ r[i] = q[i]) \/ (i = Len(q) + 1 /\ r[i] = m)
  BY <1>1
<1>3. \A i \in 1..Len(q) : i \in 1..Len(r) /\ i < Len(q) + 1
  BY <1>1
<1>4. Len(q) + 1 \in 1..Len(r)
  BY <1>1
<1>5. \A t : Has(r, t) <=> Has(q, t) \/ m.type = t
  BY <1>1, <1>2, <1>3, <1>4 DEF Has
<1>6. \A t : Once(q, t) /\ ~(Has(q, t) /\ m.type = t) => Once(r, t)
  BY <1>2 DEF Has, Once
<1>7. ASSUME NEW t, NEW u, Ahead(q, t, u), m.type = t => m.type # u /\ ~Has(q, u)
      PROVE  Ahead(r, t, u)
  BY <1>2, <1>3, <1>7 DEF Has, Ahead
<1> QED
  BY <1>1, <1>5, <1>6, <1>7 DEF r

LEMMA AppendedAt ==
    ASSUME NEW S, NEW q \in Seq(S), NEW m \in S, NEW i \in 1..Len(Append(q, m))
    PROVE  (i \in 1..Len(q) /\ Append(q, m)[i] = q[i]) \/ Append(q, m)[i] = m
BY AppendProperties, LenProperties

LEMMA TailAt ==
    ASSUME NEW S, NEW q \in Seq(S), q # <<>>, NEW i \in 1..Len(Tail(q))
    PROVE  i + 1 \in 1..Len(q) /\ Tail(q)[i] = q[i + 1]
BY HeadTailProperties, LenProperties

LEMMA Taken ==
    ASSUME NEW S, NEW q \in Seq(S), q # <<>>
    PROVE  /\ Tail(q) \in Seq(S) /\ Head(q) \in S
           /\ 1 \in 1..Len(q) /\ Head(q) = q[1]
           /\ \A t : Has(q, t) <=> Has(Tail(q), t) \/ Head(q).type = t
           /\ \A t : Once(q, t) => /\ Once(Tail(q), t)
                                   /\ Head(q).type = t => ~Has(Tail(q), t)
           /\ \A t, u : Ahead(q, t, u) => /\ Ahead(Tail(q), t, u)
                                          /\ Head(q).type = u => ~Has(q, t)
<1> DEFINE r == Tail(q)
<1>1. /\ r \in Seq(S) /\ Head(q) \in S /\ Len(r) = Len(q) - 1 /\ Len(q) \in Nat /\ Len(q) # 0
      /\ \A i \in 1..Len(r) : r[i] = q[i + 1]
      /\ Head(q) = q[1]
  BY HeadTailProperties, LenProperties, EmptySeq
<1> HIDE DEF r
<1>2. \A i \in 1..Len(r) : i + 1 \in 1..Len(q) /\ r[i] = q[i + 1] /\ i + 1 # 1
  BY <1>1
<1>3. \A i \in 1..Len(q) : i = 1 \/ (i - 1 \in 1..Len(r) /\ r[i - 1] = q[i])
  BY <1>1
<1>4. 1 \in 1..Len(q)
  BY <1>1
<1>5. \A t : Has(q, t) <=> Has(r, t) \/ Head(q).type = t
  BY <1>1, <1>2, <1>3, <1>4 DEF Has
<1>6. ASSUME NEW t, Once(q, t)
      PROVE  Once(r, t) /\ (Head(q).type = t => ~Has(r, t))
  <2>1. \A i, j \in 1..Len(r) : r[i].type = t /\ r[j].type = t => i + 1 = j + 1
    BY <1>2, <1>6 DEF Once
  <2>2. Once(r, t)
    BY <2>1 DEF Once
  <2>3. Head(q).type = t => ~Has(r, t)
    BY <1>1, <1>2, <1>4, <1>6 DEF Once, Has
  <2> QED
    BY <2>2, <2>3
<1>7. ASSUME NEW t, NEW u, Ahead(q, t, u)
      PROVE  Ahead(r, t, u) /\ (Head(q).type = u => ~Has(q, t))
  <2>1. \A i, j \in 1..Len(r) : r[i].type = t /\ r[j].type = u => i + 1 < j + 1
    BY <1>2, <1>7 DEF Ahead
  <2>2. Ahead(r, t, u)
    BY <2>1 DEF Ahead
  <2>3. Head(q).type = u => \A i \in 1..Len(q) : q[i].type = t => i < 1
    BY <1>1, <1>4, <1>7 DEF Ahead
  <2> QED
    BY <2>2, <2>3 DEF Has
<1> QED
  BY <1>1, <1>4, <1>5, <1>6, <1>7 DEF r

\* The votes a stream tells of, as messages come and go.
LEMMA TellsAppended ==
    ASSUME NEW S, NEW q \in Seq(S), NEW m \in S, NEW shown, NEW n
    PROVE  /\ m.type # "sleep_state" /\ Tells(q, shown, n) => Tells(Append(q, m), shown, n)
           /\ m.type = "sleep_state" /\ m.sleepers = n => Tells(Append(q, m), shown, n)
<1> DEFINE r == Append(q, m)
<1>1. /\ Len(r) = Len(q) + 1 /\ Len(q) \in Nat
      /\ \A i \in 1..Len(q) : r[i] = q[i]
      /\ r[Len(q) + 1] = m
  BY AppendProperties, LenProperties
<1>2. Has(r, "sleep_state") <=> Has(q, "sleep_state") \/ m.type = "sleep_state"
  BY Appended
<1> HIDE DEF r
<1>3. \A i \in 1..Len(q) : i \in 1..Len(r) /\ r[i] = q[i] /\ ~(Len(q) + 1 <= i)
  BY <1>1
<1>4. \A i \in 1..Len(r) : i \in 1..Len(q) \/ i = Len(q) + 1
  BY <1>1
<1>5. Len(q) + 1 \in 1..Len(r)
  BY <1>1
<1>6. CASE m.type # "sleep_state" /\ Tells(q, shown, n)
  <2>1. ASSUME NEW i \in 1..Len(r), r[i].type = "sleep_state",
               \A j \in 1..Len(r) : r[j].type = "sleep_state" => j <= i
        PROVE  r[i].sleepers = n
    <3>1. i \in 1..Len(q) /\ r[i] = q[i]
      BY <1>1, <1>3, <1>4, <1>6, <2>1
    <3>2. \A j \in 1..Len(q) : q[j].type = "sleep_state" => j <= i
      BY <1>3, <2>1
    <3> QED
      BY <1>6, <2>1, <3>1, <3>2 DEF Tells
  <2> QED
    BY <1>2, <1>6, <2>1 DEF Tells, r
<1>7. CASE m.type = "sleep_state" /\ m.sleepers = n
  <2>1. ASSUME NEW i \in 1..Len(r), r[i].type = "sleep_state",
               \A j \in 1..Len(r) : r[j].type = "sleep_state" => j <= i
        PROVE  r[i].sleepers = n
    <3>1. Len(q) + 1 <= i
      BY <1>1, <1>5, <1>7, <2>1
    <3> QED
      BY <1>1, <1>3, <1>4, <1>7, <2>1, <3>1
  <2> QED
    BY <1>2, <1>7, <2>1 DEF Tells, r
<1> QED
  BY <1>6, <1>7 DEF r

LEMMA TellsTaken ==
    ASSUME NEW S, NEW q \in Seq(S), q # <<>>, NEW shown, NEW n, Tells(q, shown, n)
    PROVE  /\ Head(q).type # "sleep_state" => Tells(Tail(q), shown, n)
           /\ Head(q).type = "sleep_state" => Tells(Tail(q), Head(q).sleepers, n)
<1> DEFINE r == Tail(q)
<1>1. /\ Len(r) = Len(q) - 1 /\ Len(q) \in Nat /\ Len(q) # 0
      /\ \A i \in 1..Len(r) : r[i] = q[i + 1]
      /\ Head(q) = q[1]
  BY HeadTailProperties, LenProperties, EmptySeq
<1>2. Has(q, "sleep_state") <=> Has(r, "sleep_state") \/ Head(q).type = "sleep_state"
  BY Taken
<1> HIDE DEF r
<1>3. \A i \in 1..Len(q) : i = 1 \/ (i - 1 \in 1..Len(r) /\ r[i - 1] = q[i])
  BY <1>1
<1>4. ASSUME NEW i \in 1..Len(r), r[i].type = "sleep_state",
             \A j \in 1..Len(r) : r[j].type = "sleep_state" => j <= i
      PROVE  r[i].sleepers = n
  <2>1. i + 1 \in 1..Len(q) /\ r[i] = q[i + 1]
    BY <1>1
  <2>2. ASSUME NEW j \in 1..Len(q), q[j].type = "sleep_state" PROVE j <= i + 1
    <3>1. CASE j = 1
      BY <3>1
    <3>2. CASE j # 1
      <4>1. j - 1 \in 1..Len(r) /\ r[j - 1].type = "sleep_state"
        BY <1>3, <2>2, <3>2
      <4>2. j - 1 <= i
        BY <1>4, <4>1
      <4> QED
        BY <4>2
    <3> QED
      BY <3>1, <3>2
  <2> QED
    BY <1>4, <2>1, <2>2 DEF Tells
<1>5. ASSUME Head(q).type = "sleep_state", ~Has(r, "sleep_state")
      PROVE  Head(q).sleepers = n
  <2>1. \A j \in 1..Len(q) : q[j].type = "sleep_state" => j <= 1
    BY <1>3, <1>5 DEF Has
  <2>2. 1 \in 1..Len(q)
    BY <1>1
  <2> QED
    BY <1>1, <1>5, <2>1, <2>2 DEF Tells
<1> QED
  BY <1>2, <1>4, <1>5 DEF Tells, r

-----------------------------------------------------------------------------
(* What a message changes of what the two ends agree on.                   *)

\* What is agreed on depends on these fields only.
LEMMA SameMortal ==
    ASSUME NEW p, NEW c, NEW c2, NEW up, NEW down, NEW d, NEW d2,
           Mortal(p, c, up, down, d),
           c2.dead = c.dead, c2.respawning = c.respawning, p \in d2 <=> p \in d
    PROVE  Mortal(p, c2, up, down, d2)
BY DEF Mortal

LEMMA SameBusy ==
    ASSUME NEW c, NEW c2, NEW up, NEW down, NEW a, Busy(c, up, down, a),
           c2.started = c.started, c2.own = c.own
    PROVE  Busy(c2, up, down, a)
BY DEF Busy

LEMMA MortalUpAppended ==
    ASSUME NEW S, NEW p, NEW c, NEW up \in Seq(S), NEW down, NEW d, NEW m \in S,
           Mortal(p, c, up, down, d), m.type \notin {"death", "respawn"}
    PROVE  Mortal(p, c, Append(up, m), down, d)
BY Appended DEF Mortal

LEMMA MortalDownAppended ==
    ASSUME NEW S, NEW p, NEW c, NEW up, NEW down \in Seq(S), NEW d, NEW m \in S,
           Mortal(p, c, up, down, d), m.type # "respawn"
    PROVE  Mortal(p, c, up, Append(down, m), d)
BY Appended DEF Mortal

LEMMA MortalUpTaken ==
    ASSUME NEW S, NEW p, NEW c, NEW up \in Seq(S), NEW down, NEW d,
           Mortal(p, c, up, down, d), up # <<>>, Head(up).type \notin {"death", "respawn"}
    PROVE  Mortal(p, c, Tail(up), down, d)
BY Taken DEF Mortal

LEMMA MortalDownTaken ==
    ASSUME NEW S, NEW p, NEW c, NEW up, NEW down \in Seq(S), NEW d,
           Mortal(p, c, up, down, d), down # <<>>, Head(down).type # "respawn"
    PROVE  Mortal(p, c, up, Tail(down), d)
BY Taken DEF Mortal

LEMMA MortalDies ==
    ASSUME NEW S, NEW p, NEW c, NEW c2, NEW up \in Seq(S), NEW down, NEW d, NEW m \in S,
           Mortal(p, c, up, down, d), m.type = "death", ~c.dead, c2.dead, ~c2.respawning
    PROVE  Mortal(p, c2, Append(up, m), down, d)
BY Appended DEF Mortal

LEMMA MortalAsks ==
    ASSUME NEW S, NEW p, NEW c, NEW c2, NEW up \in Seq(S), NEW down, NEW d, NEW m \in S,
           Mortal(p, c, up, down, d), m.type = "respawn",
           c.dead, ~c.respawning, c2.dead, c2.respawning
    PROVE  Mortal(p, c2, Append(up, m), down, d)
BY Appended DEF Mortal

LEMMA MortalDeath ==
    ASSUME NEW S, NEW p, NEW c, NEW up \in Seq(S), NEW down, NEW d,
           Mortal(p, c, up, down, d), up # <<>>, Head(up).type = "death"
    PROVE  p \notin d /\ Mortal(p, c, Tail(up), down, d \cup {p})
BY Taken DEF Mortal

LEMMA MortalAnswer ==
    ASSUME NEW S, NEW T, NEW p, NEW c, NEW up \in Seq(S), NEW down \in Seq(T), NEW d, NEW m \in T,
           Mortal(p, c, up, down, d), up # <<>>, Head(up).type = "respawn", m.type = "respawn"
    PROVE  p \in d /\ Mortal(p, c, Tail(up), Append(down, m), d \ {p})
<1>1. c.respawning /\ ~Has(up, "death") /\ ~Has(down, "respawn")
  BY Taken DEF Mortal
<1>2. c.dead /\ p \in d
  BY <1>1 DEF Mortal
<1>3. /\ Once(Tail(up), "death") /\ Once(Tail(up), "respawn") /\ ~Has(Tail(up), "respawn")
      /\ Ahead(Tail(up), "death", "respawn") /\ ~Has(Tail(up), "death")
  BY <1>1, Taken DEF Mortal
<1>4. Once(Append(down, m), "respawn") /\ Has(Append(down, m), "respawn")
  BY <1>1, Appended DEF Mortal
<1> QED
  BY <1>1, <1>2, <1>3, <1>4 DEF Mortal

LEMMA MortalAsked ==
    ASSUME NEW S, NEW p, NEW c, NEW up \in Seq(S), NEW down, NEW d,
           Mortal(p, c, up, down, d), up # <<>>, Head(up).type = "respawn"
    PROVE  p \in d
<1>1. c.respawning /\ ~Has(up, "death") /\ ~Has(down, "respawn")
  BY Taken DEF Mortal
<1> QED
  BY <1>1 DEF Mortal

LEMMA MortalRespawns ==
    ASSUME NEW S, NEW p, NEW c, NEW c2, NEW up, NEW down \in Seq(S), NEW d,
           Mortal(p, c, up, down, d), down # <<>>, Head(down).type = "respawn"
    PROVE  /\ c.dead /\ c.respawning
           /\ ~c2.dead /\ ~c2.respawning => Mortal(p, c2, up, Tail(down), d)
BY Taken DEF Mortal

LEMMA BusyUpAppended ==
    ASSUME NEW S, NEW c, NEW up \in Seq(S), NEW down, NEW a, NEW m \in S,
           Busy(c, up, down, a), m.type # "start"
    PROVE  Busy(c, Append(up, m), down, a)
<1>1. \A i \in 1..Len(Append(up, m)) : Append(up, m)[i].type = "start" =>
          Append(up, m)[i].station = c.started
  BY AppendedAt DEF Busy
<1> QED
  BY <1>1, Appended DEF Busy

LEMMA BusyDownAppended ==
    ASSUME NEW S, NEW c, NEW up, NEW down \in Seq(S), NEW a, NEW m \in S,
           Busy(c, up, down, a), m.type \notin {"granted", "denied", "ended"}
    PROVE  Busy(c, up, Append(down, m), a)
<1>1. \A i \in 1..Len(Append(down, m)) :
          /\ Append(down, m)[i].type = "denied" => Append(down, m)[i].station = c.started
          /\ Append(down, m)[i].type = "granted" =>
                 /\ Append(down, m)[i].activity.station = c.started
                 /\ a # None => Append(down, m)[i].activity = a
  BY AppendedAt DEF Busy
<1> QED
  BY <1>1, Appended DEF Busy

LEMMA BusyUpTaken ==
    ASSUME NEW S, NEW c, NEW up \in Seq(S), NEW down, NEW a,
           Busy(c, up, down, a), up # <<>>, Head(up).type # "start"
    PROVE  Busy(c, Tail(up), down, a)
<1>1. \A i \in 1..Len(Tail(up)) : Tail(up)[i].type = "start" => Tail(up)[i].station = c.started
  BY TailAt DEF Busy
<1> QED
  BY <1>1, Taken DEF Busy

LEMMA BusyDownTail ==
    ASSUME NEW S, NEW c, NEW up, NEW down \in Seq(S), NEW a, Busy(c, up, down, a), down # <<>>
    PROVE  \A i \in 1..Len(Tail(down)) :
               /\ Tail(down)[i].type = "denied" => Tail(down)[i].station = c.started
               /\ Tail(down)[i].type = "granted" =>
                      /\ Tail(down)[i].activity.station = c.started
                      /\ a # None => Tail(down)[i].activity = a
BY TailAt DEF Busy

LEMMA BusyDownTaken ==
    ASSUME NEW S, NEW c, NEW up, NEW down \in Seq(S), NEW a, Busy(c, up, down, a),
           down # <<>>, Head(down).type \notin {"granted", "denied", "ended"}
    PROVE  Busy(c, up, Tail(down), a)
BY Taken, BusyDownTail DEF Busy

LEMMA BusyBegins ==
    ASSUME NEW S, NEW c, NEW c2, NEW up \in Seq(S), NEW down, NEW a, NEW m \in S,
           Busy(c, up, down, a), c.own = None, c.started = None,
           m.type = "start", m.station # None, c2.started = m.station, c2.own = None
    PROVE  Busy(c2, Append(up, m), down, a)
<1>1. /\ ~Has(up, "start") /\ ~Has(down, "denied") /\ ~Has(down, "granted")
      /\ ~Has(down, "ended") /\ a = None
  BY DEF Busy
<1>2. \A i \in 1..Len(Append(up, m)) : Append(up, m)[i].type = "start" =>
          Append(up, m)[i].station = c2.started
  BY <1>1, AppendedAt DEF Has
<1>3. \A i \in 1..Len(down) : down[i].type \notin {"denied", "granted"}
  BY <1>1 DEF Has
<1>4. Once(Append(up, m), "start") /\ Has(Append(up, m), "start")
  BY <1>1, Appended DEF Busy
<1> QED
  BY <1>1, <1>2, <1>3, <1>4 DEF Busy

\* Where a start is answered, there is nothing else under way.
LEMMA BusyAsked ==
    ASSUME NEW S, NEW c, NEW up \in Seq(S), NEW down, NEW a,
           Busy(c, up, down, a), up # <<>>, Head(up).type = "start"
    PROVE  /\ c.started # None /\ c.own = None /\ a = None /\ Head(up).station = c.started
           /\ ~Has(Tail(up), "start")
           /\ ~Has(down, "denied") /\ ~Has(down, "granted") /\ ~Has(down, "ended")
BY Taken DEF Busy

LEMMA BusyGranted ==
    ASSUME NEW S, NEW T, NEW c, NEW up \in Seq(S), NEW down \in Seq(T), NEW a, NEW m \in T,
           Busy(c, up, down, a), up # <<>>, Head(up).type = "start",
           m.type = "granted", m.activity.station = Head(up).station, m.activity # None
    PROVE  Busy(c, Tail(up), Append(down, m), m.activity)
<1>1. /\ c.started # None /\ c.own = None /\ Head(up).station = c.started
      /\ ~Has(Tail(up), "start")
      /\ ~Has(down, "denied") /\ ~Has(down, "granted") /\ ~Has(down, "ended")
  BY BusyAsked
<1>2. \A i \in 1..Len(Append(down, m)) :
          /\ Append(down, m)[i].type # "denied"
          /\ Append(down, m)[i].type = "granted" => Append(down, m)[i] = m
  BY <1>1, AppendedAt DEF Has
<1>3. /\ ~Has(Append(down, m), "denied") /\ ~Has(Append(down, m), "ended")
      /\ Has(Append(down, m), "granted") /\ Once(Append(down, m), "granted")
      /\ Once(Append(down, m), "denied") /\ Once(Append(down, m), "ended")
      /\ Ahead(Append(down, m), "granted", "ended")
  BY <1>1, Appended DEF Busy
<1>4. Once(Tail(up), "start") /\ \A i \in 1..Len(Tail(up)) : Tail(up)[i].type # "start"
  BY <1>1, Taken DEF Busy, Has
<1> QED
  BY <1>1, <1>2, <1>3, <1>4 DEF Busy

LEMMA BusyDenied ==
    ASSUME NEW S, NEW T, NEW c, NEW up \in Seq(S), NEW down \in Seq(T), NEW a, NEW m \in T,
           Busy(c, up, down, a), up # <<>>, Head(up).type = "start",
           m.type = "denied", m.station = Head(up).station
    PROVE  Busy(c, Tail(up), Append(down, m), a)
<1>1. /\ c.started # None /\ c.own = None /\ a = None /\ Head(up).station = c.started
      /\ ~Has(Tail(up), "start")
      /\ ~Has(down, "denied") /\ ~Has(down, "granted") /\ ~Has(down, "ended")
  BY BusyAsked
<1>2. \A i \in 1..Len(Append(down, m)) :
          /\ Append(down, m)[i].type # "granted"
          /\ Append(down, m)[i].type = "denied" => Append(down, m)[i] = m
  BY <1>1, AppendedAt DEF Has
<1>3. /\ ~Has(Append(down, m), "granted") /\ ~Has(Append(down, m), "ended")
      /\ Has(Append(down, m), "denied") /\ Once(Append(down, m), "granted")
      /\ Once(Append(down, m), "denied") /\ Once(Append(down, m), "ended")
      /\ Ahead(Append(down, m), "granted", "ended")
  BY <1>1, Appended DEF Busy
<1>4. Once(Tail(up), "start") /\ \A i \in 1..Len(Tail(up)) : Tail(up)[i].type # "start"
  BY <1>1, Taken DEF Busy, Has
<1> QED
  BY <1>1, <1>2, <1>3, <1>4 DEF Busy

\* An activity ends at the server: by its end, by a death.
LEMMA BusyEnded ==
    ASSUME NEW S, NEW c, NEW up, NEW down \in Seq(S), NEW a, NEW m \in S,
           Busy(c, up, down, a), a # None, m.type = "ended"
    PROVE  Busy(c, up, Append(down, m), None)
<1>1. /\ ~Has(down, "ended") /\ ~Has(up, "start") /\ ~Has(down, "denied")
      /\ c.own = a \/ Has(down, "granted")
  BY DEF Busy
<1>2. /\ Has(Append(down, m), "granted") <=> Has(down, "granted")
      /\ ~Has(Append(down, m), "denied") /\ Has(Append(down, m), "ended")
      /\ Once(Append(down, m), "granted") /\ Once(Append(down, m), "denied")
      /\ Once(Append(down, m), "ended") /\ Ahead(Append(down, m), "granted", "ended")
  BY <1>1, Appended DEF Busy
<1>3. \A i \in 1..Len(Append(down, m)) :
          /\ Append(down, m)[i].type # "denied"
          /\ Append(down, m)[i].type = "granted" =>
                 Append(down, m)[i].activity.station = c.started
  BY <1>1, AppendedAt DEF Busy, Has
<1> QED
  BY <1>1, <1>2, <1>3 DEF Busy

LEMMA BusyAwaits ==
    ASSUME NEW S, NEW c, NEW up, NEW down \in Seq(S), NEW a,
           Busy(c, up, down, a), down # <<>>
    PROVE  /\ Head(down).type = "granted" => Head(down).activity.station = c.started
           /\ Head(down).type = "denied" => Head(down).station = c.started
BY Taken DEF Busy

LEMMA BusyTakesGrant ==
    ASSUME NEW S, NEW c, NEW c2, NEW up, NEW down \in Seq(S), NEW a,
           Busy(c, up, down, a), down # <<>>, Head(down).type = "granted",
           Head(down).activity # None,
           c2.started = None, c2.own = Head(down).activity
    PROVE  Busy(c2, up, Tail(down), a)
<1>1. /\ Head(down).activity.station = c.started
      /\ a # None => Head(down).activity = a
      /\ ~Has(Tail(down), "granted") /\ ~Has(down, "denied") /\ ~Has(up, "start")
      /\ a # None \/ Has(down, "ended")
  BY Taken DEF Busy
<1>2. /\ Has(Tail(down), "ended") <=> Has(down, "ended")
      /\ ~Has(Tail(down), "denied")
      /\ Once(Tail(down), "granted") /\ Once(Tail(down), "denied") /\ Once(Tail(down), "ended")
      /\ Ahead(Tail(down), "granted", "ended")
  BY <1>1, Taken DEF Busy
<1>3. /\ \A i \in 1..Len(up) : up[i].type # "start"
      /\ \A i \in 1..Len(Tail(down)) : Tail(down)[i].type \notin {"granted", "denied"}
  BY <1>1, <1>2 DEF Has
<1>4. Once(up, "start") /\ (Has(down, "ended") => a = None)
  BY DEF Busy
<1> QED
  BY <1>1, <1>2, <1>3, <1>4 DEF Busy

LEMMA BusyTakesRefusal ==
    ASSUME NEW S, NEW c, NEW c2, NEW up, NEW down \in Seq(S), NEW a,
           Busy(c, up, down, a), down # <<>>, Head(down).type = "denied",
           c2.started = None, c2.own = c.own
    PROVE  Busy(c2, up, Tail(down), a)
<1>1. /\ Head(down).station = c.started /\ c.own = None /\ a = None
      /\ ~Has(Tail(down), "denied") /\ ~Has(down, "granted") /\ ~Has(down, "ended")
      /\ ~Has(up, "start")
  BY Taken DEF Busy
<1>2. /\ ~Has(Tail(down), "granted") /\ ~Has(Tail(down), "ended")
      /\ Once(Tail(down), "granted") /\ Once(Tail(down), "denied") /\ Once(Tail(down), "ended")
      /\ Ahead(Tail(down), "granted", "ended") /\ Once(up, "start")
  BY <1>1, Taken DEF Busy
<1>3. /\ \A i \in 1..Len(up) : up[i].type # "start"
      /\ \A i \in 1..Len(Tail(down)) : Tail(down)[i].type \notin {"granted", "denied"}
  BY <1>1, <1>2 DEF Has
<1> QED
  BY <1>1, <1>2, <1>3 DEF Busy

LEMMA BusyTakesEnd ==
    ASSUME NEW S, NEW c, NEW c2, NEW up, NEW down \in Seq(S), NEW a,
           Busy(c, up, down, a), down # <<>>, Head(down).type = "ended",
           c2.started = None, c2.own = None
    PROVE  Busy(c2, up, Tail(down), a)
<1>1. /\ ~Has(down, "granted") /\ ~Has(Tail(down), "ended") /\ a = None
      /\ ~Has(up, "start") /\ ~Has(down, "denied")
  BY Taken DEF Busy
<1>2. /\ ~Has(Tail(down), "granted") /\ ~Has(Tail(down), "denied")
      /\ Once(Tail(down), "granted") /\ Once(Tail(down), "denied") /\ Once(Tail(down), "ended")
      /\ Ahead(Tail(down), "granted", "ended") /\ Once(up, "start")
  BY <1>1, Taken DEF Busy
<1>3. /\ \A i \in 1..Len(up) : up[i].type # "start"
      /\ \A i \in 1..Len(Tail(down)) : Tail(down)[i].type \notin {"granted", "denied"}
  BY <1>1, <1>2 DEF Has
<1> QED
  BY <1>1, <1>2, <1>3 DEF Busy

-----------------------------------------------------------------------------
(* The same of every client, also of one that kept something.              *)

LEMMA SameLife ==
    ASSUME NEW p, NEW c, NEW c2, NEW k, NEW up, NEW down, NEW d, NEW d2,
           Life(p, c, k, up, down, d),
           c2.dead = c.dead, c2.respawning = c.respawning, p \in d2 <=> p \in d
    PROVE  Life(p, c2, k, up, down, d2)
BY SameMortal DEF Life, Ghost

LEMMA SameWork ==
    ASSUME NEW c, NEW c2, NEW k, NEW up, NEW down, NEW a, Work(c, k, up, down, a),
           c2.started = c.started, c2.own = c.own
    PROVE  Work(c2, k, up, down, a)
BY SameBusy DEF Work, Stuck

LEMMA LifeUpAppended ==
    ASSUME NEW S, NEW p, NEW c, NEW k, NEW up \in Seq(S), NEW down, NEW d, NEW m \in S,
           Life(p, c, k, up, down, d), m.type \notin {"death", "respawn"}
    PROVE  Life(p, c, k, Append(up, m), down, d)
BY MortalUpAppended, Appended DEF Life, Ghost

LEMMA LifeDownAppended ==
    ASSUME NEW S, NEW p, NEW c, NEW k, NEW up, NEW down \in Seq(S), NEW d, NEW m \in S,
           Life(p, c, k, up, down, d), m.type # "respawn"
    PROVE  Life(p, c, k, up, Append(down, m), d)
BY MortalDownAppended, Appended DEF Life, Ghost

LEMMA LifeUpTaken ==
    ASSUME NEW S, NEW p, NEW c, NEW k, NEW up \in Seq(S), NEW down, NEW d,
           Life(p, c, k, up, down, d), up # <<>>, Head(up).type \notin {"death", "respawn"}
    PROVE  Life(p, c, k, Tail(up), down, d)
BY MortalUpTaken, Taken DEF Life, Ghost

LEMMA LifeDownTaken ==
    ASSUME NEW S, NEW p, NEW c, NEW k, NEW up, NEW down \in Seq(S), NEW d,
           Life(p, c, k, up, down, d), down # <<>>, Head(down).type # "respawn"
    PROVE  Life(p, c, k, up, Tail(down), d)
BY MortalDownTaken, Taken DEF Life, Ghost

LEMMA LifeDies ==
    ASSUME NEW S, NEW p, NEW c, NEW c2, NEW k, NEW up \in Seq(S), NEW down, NEW d, NEW m \in S,
           Life(p, c, k, up, down, d), m.type = "death", ~c.dead, c2.dead, ~c2.respawning
    PROVE  Life(p, c2, k, Append(up, m), down, d)
BY MortalDies DEF Life, Ghost

LEMMA LifeAsks ==
    ASSUME NEW S, NEW p, NEW c, NEW c2, NEW k, NEW up \in Seq(S), NEW down, NEW d, NEW m \in S,
           Life(p, c, k, up, down, d), m.type = "respawn",
           c.dead, ~c.respawning, c2.dead, c2.respawning
    PROVE  Life(p, c2, k, Append(up, m), down, d)
BY MortalAsks, Appended DEF Life, Ghost

LEMMA LifeDeath ==
    ASSUME NEW S, NEW p, NEW c, NEW k, NEW up \in Seq(S), NEW down, NEW d,
           Life(p, c, k, up, down, d), up # <<>>, Head(up).type = "death"
    PROVE  p \notin d /\ Life(p, c, k, Tail(up), down, d \cup {p})
BY MortalDeath, Taken DEF Life, Ghost

LEMMA LifeAnswer ==
    ASSUME NEW S, NEW T, NEW p, NEW c, NEW k, NEW up \in Seq(S), NEW down \in Seq(T),
           NEW d, NEW m \in T, p \in d,
           Life(p, c, k, up, down, d), up # <<>>, Head(up).type = "respawn", m.type = "respawn"
    PROVE  Life(p, c, k, Tail(up), Append(down, m), d \ {p})
BY MortalAnswer DEF Life, Ghost

\* Who the server takes to be alive asks for nothing, or in vain.
LEMMA LifeUnanswered ==
    ASSUME NEW S, NEW p, NEW c, NEW k, NEW up \in Seq(S), NEW down, NEW d, p \notin d,
           Life(p, c, k, up, down, d), up # <<>>, Head(up).type = "respawn"
    PROVE  Life(p, c, k, Tail(up), down, d)
<1>1. "death" \in k
  <2>1. "death" \notin k => Mortal(p, c, up, down, d)
    BY DEF Life
  <2> QED
    BY <2>1, MortalAsked
<1> QED
  BY <1>1, Taken DEF Life, Ghost

LEMMA LifeRespawns ==
    ASSUME NEW S, NEW p, NEW c, NEW c2, NEW k, NEW up, NEW down \in Seq(S), NEW d,
           Life(p, c, k, up, down, d), down # <<>>, Head(down).type = "respawn"
    PROVE  /\ c.dead /\ c.respawning
           /\ ~c2.dead /\ ~c2.respawning => Life(p, c2, k, up, Tail(down), d)
BY MortalRespawns, Taken DEF Life, Ghost

LEMMA WorkUpAppended ==
    ASSUME NEW S, NEW c, NEW k, NEW up \in Seq(S), NEW down, NEW a, NEW m \in S,
           Work(c, k, up, down, a), m.type # "start"
    PROVE  Work(c, k, Append(up, m), down, a)
BY BusyUpAppended, Appended DEF Work, Stuck

LEMMA WorkDownAppended ==
    ASSUME NEW S, NEW c, NEW k, NEW up, NEW down \in Seq(S), NEW a, NEW m \in S,
           Work(c, k, up, down, a), m.type \notin {"granted", "denied", "ended"}
    PROVE  Work(c, k, up, Append(down, m), a)
BY BusyDownAppended, Appended DEF Work, Stuck

LEMMA WorkUpTaken ==
    ASSUME NEW S, NEW c, NEW k, NEW up \in Seq(S), NEW down, NEW a,
           Work(c, k, up, down, a), up # <<>>, Head(up).type # "start"
    PROVE  Work(c, k, Tail(up), down, a)
BY BusyUpTaken, Taken DEF Work, Stuck

LEMMA WorkDownTaken ==
    ASSUME NEW S, NEW c, NEW k, NEW up, NEW down \in Seq(S), NEW a, Work(c, k, up, down, a),
           down # <<>>, Head(down).type \notin {"granted", "denied", "ended"}
    PROVE  Work(c, k, up, Tail(down), a)
BY BusyDownTaken, Taken DEF Work, Stuck

LEMMA WorkBegins ==
    ASSUME NEW S, NEW c, NEW c2, NEW k, NEW up \in Seq(S), NEW down, NEW a, NEW m \in S,
           Work(c, k, up, down, a), c.own = None, c.started = None,
           m.type = "start", m.station # None, c2.started = m.station, c2.own = None
    PROVE  Work(c2, k, Append(up, m), down, a)
BY BusyBegins DEF Work, Stuck

\* A start is only answered where nothing was kept.
LEMMA WorkAsked ==
    ASSUME NEW S, NEW c, NEW k, NEW up \in Seq(S), NEW down, NEW a,
           Work(c, k, up, down, a), up # <<>>, Head(up).type = "start"
    PROVE  "activity" \notin k /\ Busy(c, up, down, a)
BY Taken DEF Work, Stuck

LEMMA WorkGranted ==
    ASSUME NEW S, NEW T, NEW c, NEW k, NEW up \in Seq(S), NEW down \in Seq(T), NEW a, NEW m \in T,
           Work(c, k, up, down, a), up # <<>>, Head(up).type = "start",
           m.type = "granted", m.activity.station = Head(up).station, m.activity # None
    PROVE  Work(c, k, Tail(up), Append(down, m), m.activity)
BY BusyGranted, WorkAsked DEF Work

LEMMA WorkDenied ==
    ASSUME NEW S, NEW T, NEW c, NEW k, NEW up \in Seq(S), NEW down \in Seq(T), NEW a, NEW m \in T,
           Work(c, k, up, down, a), up # <<>>, Head(up).type = "start",
           m.type = "denied", m.station = Head(up).station
    PROVE  Work(c, k, Tail(up), Append(down, m), a)
BY BusyDenied, WorkAsked DEF Work

LEMMA WorkEnded ==
    ASSUME NEW S, NEW c, NEW k, NEW up, NEW down \in Seq(S), NEW a, NEW m \in S,
           Work(c, k, up, down, a), a # None, m.type = "ended"
    PROVE  Work(c, k, up, Append(down, m), None)
BY BusyEnded DEF Work, Stuck

\* The answers to a start and the end of an activity are nowhere on the way to
\* a client that kept something.
LEMMA WorkAwaits ==
    ASSUME NEW S, NEW c, NEW k, NEW up, NEW down \in Seq(S), NEW a,
           Work(c, k, up, down, a), down # <<>>,
           Head(down).type \in {"granted", "denied", "ended"}
    PROVE  /\ "activity" \notin k /\ Busy(c, up, down, a)
           /\ Head(down).type = "granted" => Head(down).activity.station = c.started
           /\ Head(down).type = "denied" => Head(down).station = c.started
<1>1. "activity" \notin k /\ Busy(c, up, down, a)
  BY Taken DEF Work, Stuck
<1> QED
  BY <1>1, BusyAwaits

LEMMA WorkTakesGrant ==
    ASSUME NEW S, NEW c, NEW c2, NEW k, NEW up, NEW down \in Seq(S), NEW a,
           Work(c, k, up, down, a), down # <<>>, Head(down).type = "granted",
           Head(down).activity # None,
           c2.started = None, c2.own = Head(down).activity
    PROVE  Work(c2, k, up, Tail(down), a)
BY BusyTakesGrant, WorkAwaits DEF Work

LEMMA WorkTakesRefusal ==
    ASSUME NEW S, NEW c, NEW c2, NEW k, NEW up, NEW down \in Seq(S), NEW a,
           Work(c, k, up, down, a), down # <<>>, Head(down).type = "denied",
           c2.started = None, c2.own = c.own
    PROVE  Work(c2, k, up, Tail(down), a)
BY BusyTakesRefusal, WorkAwaits DEF Work

LEMMA WorkTakesEnd ==
    ASSUME NEW S, NEW c, NEW c2, NEW k, NEW up, NEW down \in Seq(S), NEW a,
           Work(c, k, up, down, a), down # <<>>, Head(down).type = "ended",
           c2.started = None, c2.own = None
    PROVE  Work(c2, k, up, Tail(down), a)
BY BusyTakesEnd, WorkAwaits DEF Work

-----------------------------------------------------------------------------
(* What the steps have to show.                                            *)

LEMMA VotesAreCounted ==
    ASSUME NEW S \in SUBSET Players
    PROVE  Cardinality(S) \in 0..Cardinality(Players)
BY PlayersAreFinite, FS_Subset, FS_CardinalityType

\* What the server says of n votes.
Says(m, n) == m \in ServerMessage /\ m.type = "sleep_state" /\ m.sleepers = n

LEMMA SleepStateFacts ==
    ASSUME NEW S \in SUBSET Players, NEW skipped \in BOOLEAN
    PROVE  Says(SleepState(S, skipped), Cardinality(S))
<1>1. Cardinality(S) \in 0..Cardinality(Players)
  BY VotesAreCounted
<1> QED
  BY <1>1 DEF SleepState, ServerMessage, Says

LEMMA PlainStateFacts ==
    ASSUME NEW S \in SUBSET Players
    PROVE  Says(SleepState(S, FALSE), Cardinality(S))
<1>1. Cardinality(S) \in 0..Cardinality(Players)
  BY VotesAreCounted
<1> QED
  BY <1>1 DEF SleepState, ServerMessage, Says

LEMMA InvFacts ==
    ASSUME IInv, NEW p \in Players
    PROVE  /\ client[p] \in Client
           /\ toServer[p] \in Seq(ClientMessage) /\ toClient[p] \in Seq(ServerMessage)
           /\ activity[p] \in Activity \cup {None}
           /\ p \in connected => Linked(p, client[p], carried[p], toServer[p], toClient[p], dead,
                                        activity[p], Cardinality(sleeping))
           /\ p \notin connected => Gone(p)
           /\ toServer[p] # <<>> \/ toClient[p] # <<>> => p \in connected
BY DEF IInv, Types, TypeOK, Gone

LEMMA TypeFacts ==
    ASSUME IInv
    PROVE  /\ connected \subseteq Players /\ sleeping \subseteq Players /\ dead \subseteq Players
           /\ activity \in [Players -> Activity \cup {None}]
           /\ owner \in [Stations -> Players \cup {None}]
           /\ client \in [Players -> Client]
           /\ carried \in [Players -> SUBSET Leftovers]
           /\ toServer \in [Players -> Seq(ClientMessage)]
           /\ toClient \in [Players -> Seq(ServerMessage)]
           /\ StationsMatchActivities
BY DEF IInv, Types, TypeOK

LEMMA TypesNext ==
    ASSUME connected' \subseteq Players, sleeping' \subseteq Players, dead' \subseteq Players,
           activity' \in [Players -> Activity \cup {None}],
           owner' \in [Stations -> Players \cup {None}],
           client' \in [Players -> Client],
           carried' \in [Players -> SUBSET Leftovers],
           toServer' \in [Players -> Seq(ClientMessage)],
           toClient' \in [Players -> Seq(ServerMessage)]
    PROVE  Types'
BY DEF Types, TypeOK

\* Every player on a connection is told of a new number of votes.
LEMMA Told ==
    ASSUME NEW p, NEW c, NEW k, NEW up, NEW down \in Seq(ServerMessage), NEW d, NEW a,
           Life(p, c, k, up, down, d), Work(c, k, up, down, a), ~c.closing,
           NEW m, NEW n, Says(m, n)
    PROVE  Linked(p, c, k, up, Append(down, m), d, a, n)
<1>1. m \in ServerMessage /\ m.type = "sleep_state" /\ m.sleepers = n
  BY DEF Says
<1>2. Life(p, c, k, up, Append(down, m), d)
  BY <1>1, LifeDownAppended
<1>3. Work(c, k, up, Append(down, m), a)
  BY <1>1, WorkDownAppended
<1>4. Tells(Append(down, m), c.shown, n)
  BY <1>1, TellsAppended
<1> QED
  BY <1>2, <1>3, <1>4 DEF Linked

\* What a step of p leaves of another player.
Apart(q) ==
    /\ client'[q] = client[q] /\ carried'[q] = carried[q]
    /\ toServer'[q] = toServer[q] /\ activity'[q] = activity[q]
    /\ q \in dead' <=> q \in dead
    /\ q \in connected' <=> q \in connected
    /\ q \in sleeping' => q \in sleeping
    /\ \/ toClient'[q] = toClient[q] /\ (q \in connected => sleeping' = sleeping)
       \/ /\ q \in connected
          /\ \E m \in ServerMessage : /\ Says(m, Cardinality(sleeping'))
                                      /\ toClient'[q] = Append(toClient[q], m)

LEMMA Collects ==
    ASSUME IInv, NEW p \in Players, Types', StationsMatchActivities',
           \A q \in Players \ {p} : Apart(q),
           p \in connected' => Linked(p, client'[p], carried'[p], toServer'[p], toClient'[p], dead',
                                      activity'[p], Cardinality(sleeping')),
           p \notin connected' => Gone(p)'
    PROVE  IInv'
<1>1. ASSUME NEW q \in connected'
      PROVE  Linked(q, client'[q], carried'[q], toServer'[q], toClient'[q], dead',
                    activity'[q], Cardinality(sleeping'))
  <2>1. q \in Players /\ sleeping' \in SUBSET Players
    BY DEF Types, TypeOK
  <2>2. CASE q = p
    BY <1>1, <2>2
  <2>3. CASE q # p
    <3>1. Apart(q) /\ q \in connected
      BY <1>1, <2>1, <2>3 DEF Apart
    <3>2. Linked(q, client[q], carried[q], toServer[q], toClient[q], dead, activity[q], Cardinality(sleeping))
      BY <2>1, <3>1, InvFacts
    <3>3. /\ Life(q, client[q], carried[q], toServer[q], toClient[q], dead')
          /\ Work(client[q], carried[q], toServer[q], toClient[q], activity[q]) /\ ~client[q].closing
      BY <3>1, <3>2, SameLife DEF Linked, Apart
    <3>4. CASE toClient'[q] = toClient[q] /\ sleeping' = sleeping
      BY <3>1, <3>2, <3>3, <3>4 DEF Linked, Apart
    <3>5. ASSUME NEW m \in ServerMessage, Says(m, Cardinality(sleeping')),
                 toClient'[q] = Append(toClient[q], m)
          PROVE  Linked(q, client[q], carried[q], toServer[q], toClient'[q], dead', activity[q],
                        Cardinality(sleeping'))
      <4>1. toClient[q] \in Seq(ServerMessage)
        BY <2>1, InvFacts
      <4> QED
        BY <2>1, <3>3, <3>5, <4>1, Told
    <3> QED
      BY <3>1, <3>4, <3>5 DEF Apart
  <2> QED
    BY <2>2, <2>3
<1>2. ASSUME NEW q \in Players \ connected'
      PROVE  Gone(q)'
  <2>1. CASE q = p
    BY <1>2, <2>1
  <2>2. CASE q # p
    <3>1. Apart(q) /\ q \notin connected
      BY <1>2, <2>2 DEF Apart
    <3>2. Gone(q)
      BY <1>2, <3>1, InvFacts
    <3> QED
      BY <3>1, <3>2 DEF Gone, Apart
  <2> QED
    BY <2>1, <2>2
<1> QED
  BY <1>1, <1>2 DEF IInv

\* A client acts.
LEMMA ClientActs ==
    ASSUME IInv, NEW p \in connected, NEW c \in Client, NEW up \in Seq(ClientMessage),
           client' = [client EXCEPT ![p] = c], toServer' = [toServer EXCEPT ![p] = up],
           UNCHANGED <<server, carried, toClient>>,
           c.shown = client[p].shown, c.closing = client[p].closing,
           Life(p, c, carried[p], up, toClient[p], dead), Work(c, carried[p], up, toClient[p], activity[p])
    PROVE  IInv'
<1>1. p \in Players
  BY TypeFacts
<1>2. UNCHANGED <<connected, sleeping, dead, activity, owner, carried, toClient>>
  BY DEF server
<1>3. Types'
  BY <1>1, <1>2, TypeFacts, TypesNext
<1>4. StationsMatchActivities'
  BY <1>2, TypeFacts DEF StationsMatchActivities
<1>5. \A q \in Players \ {p} : Apart(q)
  BY <1>2, TypeFacts DEF Apart
<1>6. client'[p] = c /\ toServer'[p] = up
  BY <1>1, TypeFacts
<1>7. Linked(p, client[p], carried[p], toServer[p], toClient[p], dead, activity[p], Cardinality(sleeping))
  BY <1>1, InvFacts
<1>8. Linked(p, c, carried[p], up, toClient[p], dead, activity[p], Cardinality(sleeping))
  BY <1>7 DEF Linked
<1> QED
  BY <1>1, <1>2, <1>3, <1>4, <1>5, <1>6, <1>8, Collects

\* A client takes the next message.
LEMMA ClientTakes ==
    ASSUME IInv, NEW p \in Players, NEW c \in Client, toClient[p] # <<>>,
           client' = [client EXCEPT ![p] = c], toClient' = [toClient EXCEPT ![p] = Tail(@)],
           UNCHANGED <<server, carried, toServer>>, ~c.closing,
           Life(p, c, carried[p], toServer[p], Tail(toClient[p]), dead),
           Work(c, carried[p], toServer[p], Tail(toClient[p]), activity[p]),
           Tells(Tail(toClient[p]), c.shown, Cardinality(sleeping))
    PROVE  IInv'
<1>1. p \in connected /\ toClient[p] \in Seq(ServerMessage)
  BY InvFacts
<1>2. UNCHANGED <<connected, sleeping, dead, activity, owner, carried, toServer>>
  BY DEF server
<1>3. Tail(toClient[p]) \in Seq(ServerMessage)
  BY <1>1, Taken
<1>4. Types'
  BY <1>2, <1>3, TypeFacts, TypesNext
<1>5. StationsMatchActivities'
  BY <1>2, TypeFacts DEF StationsMatchActivities
<1>6. \A q \in Players \ {p} : Apart(q)
  BY <1>2, TypeFacts DEF Apart
<1>7. client'[p] = c /\ toClient'[p] = Tail(toClient[p])
  BY TypeFacts
<1>8. Linked(p, c, carried[p], toServer[p], Tail(toClient[p]), dead, activity[p], Cardinality(sleeping))
  BY DEF Linked
<1> QED
  BY <1>1, <1>2, <1>4, <1>5, <1>6, <1>7, <1>8, Collects

-----------------------------------------------------------------------------
(* The client's steps.                                                     *)

LEMMA Sent ==
    ASSUME NEW q \in Seq(ClientMessage), NEW m \in ClientMessage, NEW m2 \in ClientMessage
    PROVE  q \o <<m>> = Append(q, m) /\ q \o <<m, m2>> = Append(Append(q, m), m2)
OBVIOUS

LEMMA ActiveFacts ==
    ASSUME IInv, NEW p \in Players, Active(p)
    PROVE  /\ p \in connected /\ client[p] \in Client
           /\ toServer[p] \in Seq(ClientMessage) /\ toClient[p] \in Seq(ServerMessage)
           /\ activity[p] \in Activity \cup {None}
           /\ Life(p, client[p], carried[p], toServer[p], toClient[p], dead)
           /\ Work(client[p], carried[p], toServer[p], toClient[p], activity[p])
BY InvFacts DEF Active, Linked

LEMMA LieDownKeeps == ASSUME IInv, NEW p \in Players, LieDown(p) PROVE IInv'
<1> DEFINE c == [client[p] EXCEPT !.laying = ~client[p].laying]
<1>1. Active(p) /\ client' = [client EXCEPT ![p] = c] /\ UNCHANGED <<server, carried, toServer, toClient>>
  BY DEF LieDown
<1>2. /\ c \in Client /\ c.dead = client[p].dead /\ c.respawning = client[p].respawning
      /\ c.started = client[p].started /\ c.own = client[p].own
      /\ c.shown = client[p].shown /\ c.closing = client[p].closing
  BY <1>1, ActiveFacts DEF Client
<1> HIDE DEF c
<1>3. toServer' = [toServer EXCEPT ![p] = toServer[p]]
  BY <1>1, TypeFacts
<1>4. Life(p, c, carried[p], toServer[p], toClient[p], dead) /\ Work(c, carried[p], toServer[p], toClient[p], activity[p])
  BY <1>1, <1>2, ActiveFacts, SameLife, SameWork
<1> QED
  BY <1>1, <1>2, <1>3, <1>4, ActiveFacts, ClientActs

\* A vote, or one taken back.
LEMMA VotesKeep == ASSUME IInv, NEW p \in Players, Vote(p) \/ TakeBack(p) PROVE IInv'
<1>1. PICK b \in BOOLEAN :
        /\ Active(p) /\ client' = [client EXCEPT ![p].sleeping = b]
        /\ Sends(p, <<[type |-> "sleep", sleeping |-> b]>>)
  BY DEF Vote, TakeBack
<1> DEFINE c == [client[p] EXCEPT !.sleeping = b]
           m == [type |-> "sleep", sleeping |-> b]
<1>2. /\ c \in Client /\ c.dead = client[p].dead /\ c.respawning = client[p].respawning
      /\ c.started = client[p].started /\ c.own = client[p].own
      /\ c.shown = client[p].shown /\ c.closing = client[p].closing
      /\ client' = [client EXCEPT ![p] = c]
  BY <1>1, ActiveFacts, TypeFacts DEF Client
<1>3. m \in ClientMessage /\ m.type = "sleep"
  BY DEF ClientMessage
<1>4. UNCHANGED <<server, carried, toClient>> /\ toServer' = [toServer EXCEPT ![p] = @ \o <<m>>]
  BY <1>1 DEF Sends
<1> HIDE DEF c, m
<1>5. toServer' = [toServer EXCEPT ![p] = Append(toServer[p], m)]
  BY <1>1, <1>3, <1>4, ActiveFacts, Sent
<1>6. Life(p, c, carried[p], Append(toServer[p], m), toClient[p], dead)
  <2>1. Life(p, client[p], carried[p], Append(toServer[p], m), toClient[p], dead)
    BY <1>1, <1>3, ActiveFacts, LifeUpAppended
  <2> QED
    BY <1>2, <2>1, SameLife
<1>7. Work(c, carried[p], Append(toServer[p], m), toClient[p], activity[p])
  BY <1>1, <1>2, <1>3, ActiveFacts, SameWork, WorkUpAppended
<1>8. Append(toServer[p], m) \in Seq(ClientMessage)
  BY <1>1, <1>3, ActiveFacts, Appended
<1> QED
  BY <1>1, <1>2, <1>4, <1>5, <1>6, <1>7, <1>8, ActiveFacts, ClientActs

LEMMA DieKeeps == ASSUME IInv, NEW p \in Players, Die(p) PROVE IInv'
<1> DEFINE c == [client[p] EXCEPT !.dead = TRUE, !.respawning = FALSE,
                                  !.sleeping = FALSE, !.laying = FALSE]
           m == [type |-> "sleep", sleeping |-> FALSE]
           m2 == [type |-> "death"]
<1>1. Active(p) /\ ~client[p].dead /\ Sends(p, <<m, m2>>) /\ client' = [client EXCEPT ![p] = c]
  BY TypeFacts DEF Die
<1>2. /\ c \in Client /\ c.dead /\ ~c.respawning
      /\ c.started = client[p].started /\ c.own = client[p].own
      /\ c.shown = client[p].shown /\ c.closing = client[p].closing
  BY <1>1, ActiveFacts DEF Client
<1>3. m \in ClientMessage /\ m2 \in ClientMessage /\ m.type = "sleep" /\ m2.type = "death"
  BY DEF ClientMessage
<1>4. UNCHANGED <<server, carried, toClient>> /\ toServer' = [toServer EXCEPT ![p] = @ \o <<m, m2>>]
  BY <1>1 DEF Sends
<1> HIDE DEF c, m, m2
<1> DEFINE up == Append(toServer[p], m)
<1>5. toServer' = [toServer EXCEPT ![p] = Append(up, m2)]
  BY <1>1, <1>3, <1>4, ActiveFacts, Sent
<1>6. /\ Life(p, client[p], carried[p], up, toClient[p], dead)
      /\ Work(client[p], carried[p], up, toClient[p], activity[p]) /\ up \in Seq(ClientMessage)
  BY <1>1, <1>3, ActiveFacts, LifeUpAppended, WorkUpAppended, Appended
<1> HIDE DEF up
<1>7. Life(p, c, carried[p], Append(up, m2), toClient[p], dead)
  BY <1>1, <1>2, <1>3, <1>6, LifeDies
<1>8. Work(c, carried[p], Append(up, m2), toClient[p], activity[p])
  BY <1>2, <1>3, <1>6, WorkUpAppended, SameWork
<1>9. Append(up, m2) \in Seq(ClientMessage)
  BY <1>3, <1>6, Appended
<1> QED
  BY <1>1, <1>2, <1>4, <1>5, <1>7, <1>8, <1>9, ActiveFacts, ClientActs

LEMMA RequestRespawnKeeps == ASSUME IInv, NEW p \in Players, RequestRespawn(p) PROVE IInv'
<1> DEFINE c == [client[p] EXCEPT !.respawning = TRUE]
           m == [type |-> "respawn"]
<1>1. /\ Active(p) /\ client[p].dead /\ ~client[p].respawning /\ Sends(p, <<m>>)
      /\ client' = [client EXCEPT ![p] = c]
  BY TypeFacts DEF RequestRespawn
<1>2. /\ c \in Client /\ c.dead /\ c.respawning
      /\ c.started = client[p].started /\ c.own = client[p].own
      /\ c.shown = client[p].shown /\ c.closing = client[p].closing
  BY <1>1, ActiveFacts DEF Client
<1>3. m \in ClientMessage /\ m.type = "respawn"
  BY DEF ClientMessage
<1>4. UNCHANGED <<server, carried, toClient>> /\ toServer' = [toServer EXCEPT ![p] = @ \o <<m>>]
  BY <1>1 DEF Sends
<1> HIDE DEF c, m
<1>5. toServer' = [toServer EXCEPT ![p] = Append(toServer[p], m)]
  BY <1>1, <1>3, <1>4, ActiveFacts, Sent
<1>6. Life(p, c, carried[p], Append(toServer[p], m), toClient[p], dead)
  BY <1>1, <1>2, <1>3, ActiveFacts, LifeAsks
<1>7. Work(c, carried[p], Append(toServer[p], m), toClient[p], activity[p])
  BY <1>1, <1>2, <1>3, ActiveFacts, SameWork, WorkUpAppended
<1>8. Append(toServer[p], m) \in Seq(ClientMessage)
  BY <1>1, <1>3, ActiveFacts, Appended
<1> QED
  BY <1>1, <1>2, <1>4, <1>5, <1>6, <1>7, <1>8, ActiveFacts, ClientActs

LEMMA BeginKeeps ==
    ASSUME IInv, NEW p \in Players, NEW s \in Stations, Begin(p, s)
    PROVE  IInv'
<1> DEFINE c == [client[p] EXCEPT !.started = s]
           m == [type |-> "start", station |-> s]
<1>1. /\ Active(p) /\ client[p].own = None /\ client[p].started = None /\ Sends(p, <<m>>)
      /\ client' = [client EXCEPT ![p] = c]
  BY TypeFacts DEF Begin, MayBegin
<1>2. /\ c \in Client /\ c.dead = client[p].dead /\ c.respawning = client[p].respawning
      /\ c.started = s /\ c.own = None
      /\ c.shown = client[p].shown /\ c.closing = client[p].closing
  BY <1>1, ActiveFacts DEF Client
<1>3. m \in ClientMessage /\ m.type = "start" /\ m.station = s /\ s # None
  BY NoneIsNothing DEF ClientMessage
<1>4. UNCHANGED <<server, carried, toClient>> /\ toServer' = [toServer EXCEPT ![p] = @ \o <<m>>]
  BY <1>1 DEF Sends
<1> HIDE DEF c, m
<1>5. toServer' = [toServer EXCEPT ![p] = Append(toServer[p], m)]
  BY <1>1, <1>3, <1>4, ActiveFacts, Sent
<1>6. Life(p, c, carried[p], Append(toServer[p], m), toClient[p], dead)
  BY <1>1, <1>2, <1>3, ActiveFacts, SameLife, LifeUpAppended
<1>7. Work(c, carried[p], Append(toServer[p], m), toClient[p], activity[p])
  BY <1>1, <1>2, <1>3, ActiveFacts, WorkBegins
<1>8. Append(toServer[p], m) \in Seq(ClientMessage)
  BY <1>1, <1>3, ActiveFacts, Appended
<1> QED
  BY <1>1, <1>2, <1>4, <1>5, <1>6, <1>7, <1>8, ActiveFacts, ClientActs

LEMMA EndKeeps == ASSUME IInv, NEW p \in Players, End(p) PROVE IInv'
<1> DEFINE c == [client[p] EXCEPT !.ending = TRUE]
           m == [type |-> "end", id |-> client[p].own.id]
<1>1. Active(p) /\ client[p].own # None /\ Sends(p, <<m>>) /\ client' = [client EXCEPT ![p] = c]
  BY TypeFacts DEF End
<1>2. /\ c \in Client /\ c.dead = client[p].dead /\ c.respawning = client[p].respawning
      /\ c.started = client[p].started /\ c.own = client[p].own
      /\ c.shown = client[p].shown /\ c.closing = client[p].closing
  BY <1>1, ActiveFacts DEF Client
<1>3. m \in ClientMessage /\ m.type = "end"
  BY <1>1, ActiveFacts DEF ClientMessage, Client, Activity
<1>4. UNCHANGED <<server, carried, toClient>> /\ toServer' = [toServer EXCEPT ![p] = @ \o <<m>>]
  BY <1>1 DEF Sends
<1> HIDE DEF c, m
<1>5. toServer' = [toServer EXCEPT ![p] = Append(toServer[p], m)]
  BY <1>1, <1>3, <1>4, ActiveFacts, Sent
<1>6. /\ Life(p, c, carried[p], Append(toServer[p], m), toClient[p], dead)
      /\ Work(c, carried[p], Append(toServer[p], m), toClient[p], activity[p])
  BY <1>1, <1>2, <1>3, ActiveFacts, SameLife, SameWork, LifeUpAppended, WorkUpAppended
<1>7. Append(toServer[p], m) \in Seq(ClientMessage)
  BY <1>1, <1>3, ActiveFacts, Appended
<1> QED
  BY <1>1, <1>2, <1>4, <1>5, <1>6, <1>7, ActiveFacts, ClientActs

-----------------------------------------------------------------------------
(* The client takes the server's answers, none of which surprises it.      *)

LEMMA TakesFacts ==
    ASSUME IInv, NEW p \in Players, toClient[p] # <<>>
    PROVE  /\ p \in connected /\ client[p] \in Client
           /\ toServer[p] \in Seq(ClientMessage) /\ toClient[p] \in Seq(ServerMessage)
           /\ Head(toClient[p]) \in ServerMessage
           /\ Life(p, client[p], carried[p], toServer[p], toClient[p], dead)
           /\ Work(client[p], carried[p], toServer[p], toClient[p], activity[p])
           /\ Tells(toClient[p], client[p].shown, Cardinality(sleeping))
           /\ ~client[p].closing
BY InvFacts, Taken DEF Linked

\* What a client that is not told of votes keeps being told.
LEMMA TellsOn ==
    ASSUME IInv, NEW p \in Players, toClient[p] # <<>>, Head(toClient[p]).type # "sleep_state"
    PROVE  Tells(Tail(toClient[p]), client[p].shown, Cardinality(sleeping))
BY TakesFacts, TellsTaken

LEMMA ReceiveSleepStateKeeps ==
    ASSUME IInv, NEW p \in Players, ReceiveSleepState(p)
    PROVE  IInv'
<1> DEFINE m == Head(toClient[p])
           c == [client[p] EXCEPT !.shown = m.sleepers,
                                  !.sleeping = client[p].sleeping /\ ~m.skipped]
<1>1. /\ toClient[p] # <<>> /\ m.type = "sleep_state"
      /\ toClient' = [toClient EXCEPT ![p] = Tail(@)] /\ UNCHANGED <<server, carried, toServer>>
      /\ client' = [client EXCEPT ![p].shown = m.sleepers,
                                  ![p].sleeping = @ /\ ~m.skipped]
  BY DEF ReceiveSleepState, Receives
<1>2. client' = [client EXCEPT ![p] = c]
  BY <1>1, TypeFacts
<1>3. m \in ServerMessage /\ m.sleepers \in 0..Cardinality(Players) /\ m.skipped \in BOOLEAN
  BY <1>1, TakesFacts DEF ServerMessage
<1> HIDE DEF m
<1>4. /\ c \in Client /\ c.dead = client[p].dead /\ c.respawning = client[p].respawning
      /\ c.started = client[p].started /\ c.own = client[p].own
      /\ c.shown = m.sleepers /\ c.closing = client[p].closing
  BY <1>1, <1>3, TakesFacts DEF Client
<1> HIDE DEF c
<1>5. Tells(Tail(toClient[p]), c.shown, Cardinality(sleeping))
  BY <1>1, <1>4, TakesFacts, TellsTaken DEF m
<1>6. Life(p, c, carried[p], toServer[p], Tail(toClient[p]), dead)
  BY <1>1, <1>4, TakesFacts, LifeDownTaken, SameLife DEF m
<1>7. Work(c, carried[p], toServer[p], Tail(toClient[p]), activity[p])
  BY <1>1, <1>4, TakesFacts, WorkDownTaken, SameWork DEF m
<1> QED
  BY <1>1, <1>2, <1>4, <1>5, <1>6, <1>7, TakesFacts, ClientTakes

LEMMA ReceiveRespawnKeeps ==
    ASSUME IInv, NEW p \in Players, ReceiveRespawn(p)
    PROVE  IInv'
<1> DEFINE c == [client[p] EXCEPT !.dead = FALSE, !.respawning = FALSE]
<1>1. /\ toClient[p] # <<>> /\ Head(toClient[p]).type = "respawn"
      /\ toClient' = [toClient EXCEPT ![p] = Tail(@)] /\ UNCHANGED <<server, carried, toServer>>
  BY DEF ReceiveRespawn, Receives
<1>2. client[p].dead /\ client[p].respawning
  BY <1>1, TakesFacts, LifeRespawns
<1>3. client' = [client EXCEPT ![p] = c]
  BY <1>2, TypeFacts DEF ReceiveRespawn
<1>4. /\ c \in Client /\ ~c.dead /\ ~c.respawning
      /\ c.started = client[p].started /\ c.own = client[p].own
      /\ c.shown = client[p].shown /\ c.closing = client[p].closing
  BY <1>1, TakesFacts DEF Client
<1> HIDE DEF c
<1>5. Life(p, c, carried[p], toServer[p], Tail(toClient[p]), dead)
  BY <1>1, <1>4, TakesFacts, LifeRespawns
<1>6. Work(c, carried[p], toServer[p], Tail(toClient[p]), activity[p])
  BY <1>1, <1>4, TakesFacts, WorkDownTaken, SameWork
<1> QED
  BY <1>1, <1>3, <1>4, <1>5, <1>6, TakesFacts, TellsOn, ClientTakes

LEMMA ReceiveGrantedKeeps ==
    ASSUME IInv, NEW p \in Players, ReceiveGranted(p)
    PROVE  IInv'
<1> DEFINE granted == Head(toClient[p]).activity
           c == [client[p] EXCEPT !.started = None, !.own = granted]
<1>1. /\ toClient[p] # <<>> /\ Head(toClient[p]).type = "granted"
      /\ toClient' = [toClient EXCEPT ![p] = Tail(@)] /\ UNCHANGED <<server, carried, toServer>>
  BY DEF ReceiveGranted, Receives
<1>2. granted \in Activity /\ granted # None
  BY <1>1, TakesFacts, NoneIsNoActivity DEF ServerMessage
<1>3. client[p].started = granted.station
  BY <1>1, TakesFacts, WorkAwaits
<1>4. client' = [client EXCEPT ![p] = c]
  BY <1>3, TypeFacts DEF ReceiveGranted
<1>5. /\ c \in Client /\ c.dead = client[p].dead /\ c.respawning = client[p].respawning
      /\ c.started = None /\ c.own = granted
      /\ c.shown = client[p].shown /\ c.closing = client[p].closing
  BY <1>1, <1>2, TakesFacts DEF Client
<1> HIDE DEF c
<1>6. Life(p, c, carried[p], toServer[p], Tail(toClient[p]), dead)
  BY <1>1, <1>5, TakesFacts, LifeDownTaken, SameLife
<1>7. Work(c, carried[p], toServer[p], Tail(toClient[p]), activity[p])
  BY <1>1, <1>2, <1>5, TakesFacts, WorkTakesGrant
<1> QED
  BY <1>1, <1>4, <1>5, <1>6, <1>7, TakesFacts, TellsOn, ClientTakes

LEMMA ReceiveDeniedKeeps ==
    ASSUME IInv, NEW p \in Players, ReceiveDenied(p)
    PROVE  IInv'
<1> DEFINE c == [client[p] EXCEPT !.started = None]
<1>1. /\ toClient[p] # <<>> /\ Head(toClient[p]).type = "denied"
      /\ toClient' = [toClient EXCEPT ![p] = Tail(@)] /\ UNCHANGED <<server, carried, toServer>>
  BY DEF ReceiveDenied, Receives
<1>2. client[p].started = Head(toClient[p]).station
  BY <1>1, TakesFacts, WorkAwaits
<1>3. client' = [client EXCEPT ![p] = c]
  BY <1>2, TypeFacts DEF ReceiveDenied
<1>4. /\ c \in Client /\ c.dead = client[p].dead /\ c.respawning = client[p].respawning
      /\ c.started = None /\ c.own = client[p].own
      /\ c.shown = client[p].shown /\ c.closing = client[p].closing
  BY <1>1, TakesFacts DEF Client
<1> HIDE DEF c
<1>5. Life(p, c, carried[p], toServer[p], Tail(toClient[p]), dead)
  BY <1>1, <1>4, TakesFacts, LifeDownTaken, SameLife
<1>6. Work(c, carried[p], toServer[p], Tail(toClient[p]), activity[p])
  BY <1>1, <1>4, TakesFacts, WorkTakesRefusal
<1> QED
  BY <1>1, <1>3, <1>4, <1>5, <1>6, TakesFacts, TellsOn, ClientTakes

LEMMA ReceiveEndedKeeps ==
    ASSUME IInv, NEW p \in Players, ReceiveEnded(p)
    PROVE  IInv'
<1> DEFINE c == [client[p] EXCEPT !.own = None, !.started = None, !.ending = FALSE]
<1>1. /\ toClient[p] # <<>> /\ Head(toClient[p]).type = "ended"
      /\ toClient' = [toClient EXCEPT ![p] = Tail(@)] /\ UNCHANGED <<server, carried, toServer>>
      /\ client' = [client EXCEPT ![p] = c]
  BY TypeFacts DEF ReceiveEnded, Receives
<1>2. /\ c \in Client /\ c.dead = client[p].dead /\ c.respawning = client[p].respawning
      /\ c.started = None /\ c.own = None
      /\ c.shown = client[p].shown /\ c.closing = client[p].closing
  BY <1>1, TakesFacts DEF Client
<1> HIDE DEF c
<1>3. Life(p, c, carried[p], toServer[p], Tail(toClient[p]), dead)
  BY <1>1, <1>2, TakesFacts, LifeDownTaken, SameLife
<1>4. Work(c, carried[p], toServer[p], Tail(toClient[p]), activity[p])
  BY <1>1, <1>2, TakesFacts, WorkTakesEnd
<1> QED
  BY <1>1, <1>2, <1>3, <1>4, TakesFacts, TellsOn, ClientTakes

-----------------------------------------------------------------------------
(* The server's handlers.                                                  *)

LEMMA AllAppended ==
    ASSUME NEW streams \in [Players -> Seq(ServerMessage)], NEW m, NEW n, Says(m, n)
    PROVE  \A q \in Players : Append(streams[q], m) \in Seq(ServerMessage)
BY Appended DEF Says

\* remove_sleep_vote.
LEMMA WithoutVoteFacts ==
    ASSUME IInv, NEW p \in Players, NEW receivers
    PROVE  LET told == WithoutVote(p, toClient, receivers)
           IN  /\ told \in [Players -> Seq(ServerMessage)]
               /\ p \notin sleeping => told = toClient
               /\ p \in sleeping => \E m \in ServerMessage :
                      /\ Says(m, Cardinality(sleeping \ {p}))
                      /\ \A q \in Players :
                             /\ q \in receivers => told[q] = Append(toClient[q], m)
                             /\ q \notin receivers => told[q] = toClient[q]
<1> DEFINE told == WithoutVote(p, toClient, receivers)
<1>1. sleeping \ {p} \in SUBSET Players /\ toClient \in [Players -> Seq(ServerMessage)]
  BY TypeFacts
<1>2. CASE p \in sleeping
  <2> DEFINE m == SleepState(sleeping \ {p}, FALSE)
  <2>1. told = [q \in Players |-> IF q \in receivers THEN Append(toClient[q], m)
                                  ELSE toClient[q]]
    BY <1>2 DEF WithoutVote, BroadcastSleep
  <2>2. Says(m, Cardinality(sleeping \ {p}))
    BY <1>1, PlainStateFacts
  <2> HIDE DEF m, told
  <2>3. /\ told \in [Players -> Seq(ServerMessage)]
        /\ \A q \in Players : /\ q \in receivers => told[q] = Append(toClient[q], m)
                              /\ q \notin receivers => told[q] = toClient[q]
    <3>1. \A q \in Players : Append(toClient[q], m) \in Seq(ServerMessage)
      BY <1>1, <2>2, AllAppended
    <3> QED
      BY <1>1, <2>1, <3>1
  <2>4. m \in ServerMessage
    BY <2>2 DEF Says
  <2> QED
    BY <1>2, <2>2, <2>3, <2>4 DEF told
<1>3. CASE p \notin sleeping
  BY <1>1, <1>3 DEF WithoutVote
<1> QED
  BY <1>2, <1>3

\* release_activity.
LEMMA ReleasedKeeps ==
    ASSUME IInv, NEW p \in Players, owner' = Released(p),
           activity' = [activity EXCEPT ![p] = None]
    PROVE  /\ owner' \in [Stations -> Players \cup {None}]
           /\ activity' \in [Players -> Activity \cup {None}]
           /\ StationsMatchActivities'
           /\ activity'[p] = None /\ \A q \in Players \ {p} : activity'[q] = activity[q]
<1>1. /\ activity \in [Players -> Activity \cup {None}]
      /\ owner \in [Stations -> Players \cup {None}]
      /\ StationsMatchActivities
  BY TypeFacts
<1>2. CASE activity[p] = None
  <2>1. owner' = owner /\ activity' = activity
    BY <1>1, <1>2 DEF Released
  <2> QED
    BY <1>1, <1>2, <2>1 DEF StationsMatchActivities
<1>3. CASE activity[p] # None
  <2> DEFINE s == activity[p].station
  <2>1. s \in Stations /\ owner[s] = p
    BY <1>1, <1>3 DEF StationsMatchActivities, Activity
  <2>2. owner' = [owner EXCEPT ![s] = None]
    BY <1>3, <2>1 DEF Released
  <2> HIDE DEF s
  <2>3. ASSUME NEW t \in Stations, NEW q \in Players
        PROVE  owner'[t] = q <=> (activity'[q] # None /\ activity'[q].station = t)
    <3>1. CASE t = s
      <4>1. owner'[t] # q
        BY <1>1, <2>1, <2>2, <3>1, NoneIsNothing
      <4>2. q # p => ~(activity[q] # None /\ activity[q].station = t)
        BY <1>1, <2>1, <3>1 DEF StationsMatchActivities
      <4> QED
        BY <1>1, <4>1, <4>2
    <3>2. CASE t # s
      <4>1. owner'[t] = owner[t]
        BY <1>1, <2>2, <3>2
      <4>2. owner[t] # p
        BY <1>1, <3>2 DEF StationsMatchActivities, s
      <4>3. q = p => ~(activity'[q] # None /\ activity'[q].station = t)
        BY <1>1
      <4>4. q # p => activity'[q] = activity[q]
        BY <1>1
      <4> QED
        BY <1>1, <4>1, <4>2, <4>3, <4>4 DEF StationsMatchActivities
    <3> QED
      BY <3>1, <3>2
  <2>4. StationsMatchActivities'
    BY <2>3 DEF StationsMatchActivities
  <2> QED
    BY <1>1, <2>2, <2>4
<1> QED
  BY <1>2, <1>3

LEMMA ArrivesFacts ==
    ASSUME IInv, NEW p \in Players, NEW type, Arrives(p, type)
    PROVE  /\ p \in connected /\ client[p] \in Client
           /\ toServer[p] \in Seq(ClientMessage) /\ toClient[p] \in Seq(ServerMessage)
           /\ activity[p] \in Activity \cup {None}
           /\ toServer[p] # <<>> /\ Head(toServer[p]) \in ClientMessage
           /\ Head(toServer[p]).type = type
           /\ toServer' \in [Players -> Seq(ClientMessage)]
           /\ toServer'[p] = Tail(toServer[p])
           /\ \A q \in Players \ {p} : toServer'[q] = toServer[q]
           /\ Life(p, client[p], carried[p], toServer[p], toClient[p], dead)
           /\ Work(client[p], carried[p], toServer[p], toClient[p], activity[p])
           /\ Tells(toClient[p], client[p].shown, Cardinality(sleeping))
           /\ ~client[p].closing
<1>1. toServer[p] # <<>> /\ Head(toServer[p]).type = type
      /\ toServer' = [toServer EXCEPT ![p] = Tail(@)]
  BY DEF Arrives
<1>2. p \in connected /\ toServer[p] \in Seq(ClientMessage)
  BY <1>1, InvFacts
<1>3. Tail(toServer[p]) \in Seq(ClientMessage) /\ Head(toServer[p]) \in ClientMessage
  BY <1>1, <1>2, Taken
<1> QED
  BY <1>1, <1>2, <1>3, InvFacts, TypeFacts DEF Linked

LEMMA HandleSleepStateKeeps ==
    ASSUME IInv, NEW p \in Players, HandleSleepState(p)
    PROVE  IInv'
<1> DEFINE vote == Head(toServer[p]).sleeping
           voters == IF vote THEN sleeping \cup {p} ELSE sleeping \ {p}
           skips == vote /\ Cardinality(voters) >= EffectiveRequirement
<1>1. /\ Arrives(p, "sleep")
      /\ \/ UNCHANGED <<sleeping, toClient>>
         \/ /\ p \notin dead
            /\ sleeping' = IF skips THEN {} ELSE voters
            /\ toClient' = BroadcastSleep(toClient, connected, sleeping', skips)
      /\ UNCHANGED <<connected, dead, activity, owner, client, carried>>
  BY DEF HandleSleepState
<1>2. voters \subseteq Players /\ voters \subseteq sleeping \cup {p}
  BY TypeFacts
<1> HIDE DEF voters
<1>3. /\ Life(p, client[p], carried[p], toServer'[p], toClient[p], dead)
      /\ Work(client[p], carried[p], toServer'[p], toClient[p], activity[p])
  <2>1. /\ toServer[p] \in Seq(ClientMessage) /\ toServer[p] # <<>>
        /\ Head(toServer[p]).type = "sleep" /\ toServer'[p] = Tail(toServer[p])
        /\ Life(p, client[p], carried[p], toServer[p], toClient[p], dead)
        /\ Work(client[p], carried[p], toServer[p], toClient[p], activity[p])
    BY <1>1, ArrivesFacts
  <2> QED
    BY <2>1, LifeUpTaken, WorkUpTaken
<1>4. StationsMatchActivities'
  BY <1>1, TypeFacts DEF StationsMatchActivities
<1>5. CASE UNCHANGED <<sleeping, toClient>>
  <2>1. Types'
    BY <1>1, <1>5, TypeFacts, ArrivesFacts, TypesNext
  <2>2. \A q \in Players \ {p} : Apart(q)
    BY <1>1, <1>5, TypeFacts, ArrivesFacts DEF Apart
  <2>3. Linked(p, client'[p], carried'[p], toServer'[p], toClient'[p], dead', activity'[p],
               Cardinality(sleeping'))
    BY <1>1, <1>3, <1>5, ArrivesFacts DEF Linked
  <2> QED
    BY <1>1, <1>4, <2>1, <2>2, <2>3, ArrivesFacts, Collects
<1>6. ASSUME NEW skipped \in BOOLEAN, sleeping' \in {{}, voters},
             toClient' = BroadcastSleep(toClient, connected, sleeping', skipped)
      PROVE  IInv'
  <2> DEFINE m == SleepState(sleeping', skipped)
  <2>1. sleeping' \in SUBSET Players
    BY <1>2, <1>6
  <2>2. Says(m, Cardinality(sleeping'))
    BY <2>1, SleepStateFacts
  <2>3. toClient' = [q \in Players |-> IF q \in connected THEN Append(toClient[q], m)
                                       ELSE toClient[q]]
    BY <1>6 DEF BroadcastSleep
  <2> HIDE DEF m
  <2>4. /\ toClient' \in [Players -> Seq(ServerMessage)]
        /\ \A q \in Players : /\ q \in connected => toClient'[q] = Append(toClient[q], m)
                              /\ q \notin connected => toClient'[q] = toClient[q]
    <3>1. toClient \in [Players -> Seq(ServerMessage)]
      BY TypeFacts
    <3>2. \A q \in Players : Append(toClient[q], m) \in Seq(ServerMessage)
      BY <2>2, <3>1, AllAppended
    <3> QED
      BY <2>3, <3>1, <3>2
  <2>5. Types'
    BY <1>1, <2>1, <2>4, TypeFacts, ArrivesFacts, TypesNext
  <2>6. m \in ServerMessage
    BY <2>2 DEF Says
  <2>7. \A q \in Players \ {p} : Apart(q)
    BY <1>1, <1>2, <1>6, <2>2, <2>4, <2>6, TypeFacts, ArrivesFacts DEF Apart
  <2>8. toClient'[p] = Append(toClient[p], m)
    BY <1>1, <2>4, ArrivesFacts
  <2>9. Linked(p, client[p], carried[p], toServer'[p], toClient'[p], dead, activity[p],
               Cardinality(sleeping'))
    BY <1>1, <1>3, <2>2, <2>8, ArrivesFacts, Told
  <2> QED
    BY <1>1, <1>4, <2>5, <2>7, <2>9, ArrivesFacts, Collects
<1>7. skips \in BOOLEAN
  <2>1. vote \in BOOLEAN
    BY <1>1, ArrivesFacts DEF ClientMessage
  <2> QED
    BY <2>1
<1> QED
  BY <1>1, <1>5, <1>6, <1>7

LEMMA EndedIsMessage == [type |-> "ended"] \in ServerMessage
BY DEF ServerMessage

LEMMA HandleDeathKeeps ==
    ASSUME IInv, NEW p \in Players, HandleDeath(p)
    PROVE  IInv'
<1>1. Arrives(p, "death") /\ UNCHANGED <<connected, client, carried>>
  BY DEF HandleDeath
<1>2. /\ toServer[p] \in Seq(ClientMessage) /\ toServer[p] # <<>>
      /\ Head(toServer[p]).type = "death" /\ toServer'[p] = Tail(toServer[p])
      /\ Life(p, client[p], carried[p], toServer[p], toClient[p], dead)
      /\ Work(client[p], carried[p], toServer[p], toClient[p], activity[p])
  BY <1>1, ArrivesFacts
<1>3. /\ p \notin dead /\ Life(p, client[p], carried[p], toServer'[p], toClient[p], dead \cup {p})
      /\ Work(client[p], carried[p], toServer'[p], toClient[p], activity[p])
  <2>1. p \notin dead /\ Life(p, client[p], carried[p], Tail(toServer[p]), toClient[p], dead \cup {p})
    BY <1>2, LifeDeath
  <2>2. Work(client[p], carried[p], Tail(toServer[p]), toClient[p], activity[p])
    BY <1>2, WorkUpTaken
  <2> QED
    BY <1>2, <2>1, <2>2
<1> DEFINE told == WithoutVote(p, toClient, connected)
<1>4. /\ dead' = dead \cup {p} /\ sleeping' = sleeping \ {p} /\ owner' = Released(p)
      /\ activity' = [activity EXCEPT ![p] = None]
      /\ toClient' = WithEnd(p, told)
  BY <1>3 DEF HandleDeath
<1>5. /\ told \in [Players -> Seq(ServerMessage)]
      /\ p \notin sleeping => told = toClient
      /\ p \in sleeping => \E m \in ServerMessage :
             /\ Says(m, Cardinality(sleeping'))
             /\ \A q \in Players : /\ q \in connected => told[q] = Append(toClient[q], m)
                                   /\ q \notin connected => told[q] = toClient[q]
  BY <1>4, WithoutVoteFacts
<1> HIDE DEF told
<1>6. p \notin sleeping => sleeping' = sleeping
  BY <1>4
<1>7. sleeping' \in SUBSET Players /\ dead' \subseteq Players
  BY <1>4, TypeFacts
<1>8. Linked(p, client[p], carried[p], toServer'[p], told[p], dead', activity[p], Cardinality(sleeping'))
  <2>0. /\ p \in connected /\ toClient[p] \in Seq(ServerMessage) /\ ~client[p].closing
        /\ Tells(toClient[p], client[p].shown, Cardinality(sleeping))
    BY <1>1, ArrivesFacts
  <2>1. CASE p \in sleeping
    <3>1. PICK m \in ServerMessage : Says(m, Cardinality(sleeping'))
                                     /\ told[p] = Append(toClient[p], m)
      BY <1>5, <2>0, <2>1
    <3> QED
      BY <1>3, <1>4, <2>0, <3>1, Told
  <2>2. CASE p \notin sleeping
    BY <1>3, <1>4, <1>5, <1>6, <2>0, <2>2 DEF Linked
  <2> QED
    BY <2>1, <2>2
<1>9. /\ owner' \in [Stations -> Players \cup {None}]
      /\ activity' \in [Players -> Activity \cup {None}]
      /\ StationsMatchActivities'
      /\ activity'[p] = None /\ \A q \in Players \ {p} : activity'[q] = activity[q]
  BY <1>4, ReleasedKeeps
<1>10. /\ toClient' \in [Players -> Seq(ServerMessage)]
       /\ \A q \in Players \ {p} : toClient'[q] = told[q]
       /\ toClient'[p] = IF activity[p] = None THEN told[p]
                         ELSE Append(told[p], [type |-> "ended"])
  <2>1. Append(told[p], [type |-> "ended"]) \in Seq(ServerMessage)
    BY <1>5, EndedIsMessage, Appended
  <2> QED
    BY <1>4, <1>5, <2>1 DEF WithEnd
<1>11. Linked(p, client[p], carried[p], toServer'[p], toClient'[p], dead', activity'[p],
              Cardinality(sleeping'))
  <2>1. CASE activity[p] = None
    BY <1>8, <1>9, <1>10, <2>1
  <2>2. CASE activity[p] # None
    <3> DEFINE m == [type |-> "ended"]
    <3>1. m \in ServerMessage /\ m.type = "ended" /\ told[p] \in Seq(ServerMessage)
      BY <1>5, EndedIsMessage
    <3> HIDE DEF m
    <3>2. Life(p, client[p], carried[p], toServer'[p], Append(told[p], m), dead')
      BY <1>8, <3>1, LifeDownAppended DEF Linked
    <3>3. Work(client[p], carried[p], toServer'[p], Append(told[p], m), None)
      BY <1>8, <2>2, <3>1, WorkEnded DEF Linked
    <3>4. Tells(Append(told[p], m), client[p].shown, Cardinality(sleeping'))
      BY <1>8, <3>1, TellsAppended DEF Linked
    <3>5. Linked(p, client[p], carried[p], toServer'[p], Append(told[p], m), dead', None,
                 Cardinality(sleeping'))
      BY <1>8, <3>2, <3>3, <3>4 DEF Linked
    <3> QED
      BY <1>9, <1>10, <2>2, <3>5 DEF m
  <2> QED
    BY <2>1, <2>2
<1>12. Types'
  BY <1>1, <1>7, <1>9, <1>10, TypeFacts, ArrivesFacts, TypesNext
<1>13. \A q \in Players \ {p} : Apart(q)
  BY <1>1, <1>4, <1>5, <1>6, <1>9, <1>10, ArrivesFacts DEF Apart
<1> QED
  BY <1>1, <1>9, <1>11, <1>12, <1>13, ArrivesFacts, Collects

\* The player lives again, and everybody is told the votes once more.
LEMMA RespawnIsAnswered ==
    ASSUME IInv, NEW p \in Players, HandleRespawnRequest(p), p \in dead
    PROVE  IInv'
<1>1. Arrives(p, "respawn") /\ UNCHANGED <<connected, sleeping, activity, owner, client, carried>>
  BY DEF HandleRespawnRequest
<1>2. /\ toServer[p] \in Seq(ClientMessage) /\ toServer[p] # <<>>
      /\ Head(toServer[p]).type = "respawn" /\ toServer'[p] = Tail(toServer[p])
      /\ Life(p, client[p], carried[p], toServer[p], toClient[p], dead)
      /\ Work(client[p], carried[p], toServer[p], toClient[p], activity[p])
      /\ toClient[p] \in Seq(ServerMessage) /\ ~client[p].closing /\ p \in connected
  BY <1>1, ArrivesFacts
<1> DEFINE r == [type |-> "respawn"]
           m == SleepState(sleeping, FALSE)
           answered == [toClient EXCEPT ![p] = Append(toClient[p], r)]
<1>3. r \in ServerMessage /\ r.type = "respawn" /\ Says(m, Cardinality(sleeping))
  BY TypeFacts, PlainStateFacts DEF ServerMessage
<1> HIDE DEF r, m
<1>4. /\ p \in dead
      /\ Life(p, client[p], carried[p], Tail(toServer[p]), Append(toClient[p], r), dead \ {p})
  BY <1>2, <1>3, LifeAnswer
<1>5. dead' = dead \ {p} /\ toClient' = BroadcastSleep(answered, connected, sleeping, FALSE)
  BY <1>4 DEF HandleRespawnRequest, RespawnAnswer, r
<1>6. Append(toClient[p], r) \in Seq(ServerMessage)
  BY <1>2, <1>3, Appended
<1>7. /\ answered \in [Players -> Seq(ServerMessage)]
      /\ answered[p] = Append(toClient[p], r)
      /\ \A q \in Players \ {p} : answered[q] = toClient[q]
  BY <1>6, TypeFacts
<1> HIDE DEF answered
<1>8. toClient' = [q \in Players |-> IF q \in connected THEN Append(answered[q], m)
                                     ELSE answered[q]]
  BY <1>5 DEF BroadcastSleep, m
<1>9. \A q \in Players : Append(answered[q], m) \in Seq(ServerMessage)
  BY <1>3, <1>7, AllAppended
<1>10. /\ toClient' \in [Players -> Seq(ServerMessage)]
       /\ \A q \in Players : /\ q \in connected => toClient'[q] = Append(answered[q], m)
                             /\ q \notin connected => toClient'[q] = answered[q]
  BY <1>7, <1>8, <1>9
<1>11. Types'
  BY <1>1, <1>5, <1>10, TypeFacts, ArrivesFacts, TypesNext
<1>12. StationsMatchActivities'
  BY <1>1, TypeFacts DEF StationsMatchActivities
<1>13. m \in ServerMessage
  BY <1>3 DEF Says
<1>14. \A q \in Players \ {p} : Apart(q)
  BY <1>1, <1>3, <1>5, <1>7, <1>10, <1>13, TypeFacts, ArrivesFacts DEF Apart
<1>15. Work(client[p], carried[p], Tail(toServer[p]), Append(toClient[p], r), activity[p])
  <2>1. Work(client[p], carried[p], Tail(toServer[p]), toClient[p], activity[p])
    BY <1>2, WorkUpTaken
  <2> QED
    BY <1>2, <1>3, <2>1, WorkDownAppended
<1>16. Linked(p, client[p], carried[p], Tail(toServer[p]), Append(Append(toClient[p], r), m), dead \ {p},
              activity[p], Cardinality(sleeping))
  BY <1>2, <1>3, <1>4, <1>6, <1>15, Told
<1>17. Linked(p, client'[p], carried'[p], toServer'[p], toClient'[p], dead', activity'[p],
              Cardinality(sleeping'))
  BY <1>1, <1>2, <1>5, <1>7, <1>10, <1>16, TypeFacts
<1> QED
  BY <1>1, <1>2, <1>11, <1>12, <1>14, <1>17, Collects

LEMMA HandleRespawnRequestKeeps ==
    ASSUME IInv, NEW p \in Players, HandleRespawnRequest(p)
    PROVE  IInv'
<1>1. Arrives(p, "respawn") /\ UNCHANGED <<connected, sleeping, activity, owner, client, carried>>
  BY DEF HandleRespawnRequest
<1>2. /\ toServer[p] \in Seq(ClientMessage) /\ toServer[p] # <<>>
      /\ Head(toServer[p]).type = "respawn" /\ toServer'[p] = Tail(toServer[p])
      /\ Life(p, client[p], carried[p], toServer[p], toClient[p], dead)
      /\ Work(client[p], carried[p], toServer[p], toClient[p], activity[p])
      /\ toClient[p] \in Seq(ServerMessage) /\ ~client[p].closing /\ p \in connected
  BY <1>1, ArrivesFacts
<1>3. CASE p \notin dead
  <2>1. UNCHANGED <<dead, toClient>>
    BY <1>3 DEF HandleRespawnRequest
  <2>2. Types' /\ StationsMatchActivities'
    BY <1>1, <2>1, TypeFacts, ArrivesFacts, TypesNext DEF StationsMatchActivities
  <2>3. \A q \in Players \ {p} : Apart(q)
    BY <1>1, <2>1, TypeFacts, ArrivesFacts DEF Apart
  <2>4. Life(p, client[p], carried[p], Tail(toServer[p]), toClient[p], dead)
    BY <1>2, <1>3, LifeUnanswered
  <2>5. Work(client[p], carried[p], Tail(toServer[p]), toClient[p], activity[p])
    BY <1>2, WorkUpTaken
  <2>6. Tells(toClient[p], client[p].shown, Cardinality(sleeping))
    BY <1>1, ArrivesFacts
  <2>7. Linked(p, client[p], carried[p], Tail(toServer[p]), toClient[p], dead, activity[p],
               Cardinality(sleeping))
    BY <1>2, <2>4, <2>5, <2>6 DEF Linked
  <2> QED
    BY <1>1, <1>2, <2>1, <2>2, <2>3, <2>7, Collects
<1>4. CASE p \in dead
  BY <1>1, <1>4, RespawnIsAnswered
<1> QED
  BY <1>3, <1>4

\* A start is granted or refused.
LEMMA HandleActivityStartKeeps ==
    ASSUME IInv, NEW p \in Players, HandleActivityStart(p)
    PROVE  IInv'
<1> DEFINE s == Head(toServer[p]).station
<1>1. Arrives(p, "start") /\ UNCHANGED <<connected, sleeping, dead, client, carried>>
  BY DEF HandleActivityStart
<1>2. /\ toServer[p] \in Seq(ClientMessage) /\ toServer[p] # <<>>
      /\ Head(toServer[p]).type = "start" /\ toServer'[p] = Tail(toServer[p])
      /\ Life(p, client[p], carried[p], toServer[p], toClient[p], dead)
      /\ Work(client[p], carried[p], toServer[p], toClient[p], activity[p])
      /\ Tells(toClient[p], client[p].shown, Cardinality(sleeping))
      /\ toClient[p] \in Seq(ServerMessage) /\ ~client[p].closing /\ p \in connected
  BY <1>1, ArrivesFacts
<1>3. s \in Stations
  BY <1>1, ArrivesFacts DEF ClientMessage
<1>4. Life(p, client[p], carried[p], Tail(toServer[p]), toClient[p], dead)
  BY <1>2, LifeUpTaken
<1>5. ASSUME NEW m \in ServerMessage, m.type \in {"granted", "denied"},
             toClient' = [toClient EXCEPT ![p] = Append(@, m)],
             activity' \in [Players -> Activity \cup {None}],
             owner' \in [Stations -> Players \cup {None}], StationsMatchActivities',
             \A q \in Players \ {p} : activity'[q] = activity[q],
             Work(client[p], carried[p], Tail(toServer[p]), Append(toClient[p], m), activity'[p])
      PROVE  IInv'
  <2>1. Append(toClient[p], m) \in Seq(ServerMessage)
    BY <1>2, Appended
  <2>2. Types'
    BY <1>1, <1>5, <2>1, TypeFacts, ArrivesFacts, TypesNext
  <2>3. \A q \in Players \ {p} : Apart(q)
    BY <1>1, <1>5, TypeFacts, ArrivesFacts DEF Apart
  <2>4. Life(p, client[p], carried[p], Tail(toServer[p]), Append(toClient[p], m), dead)
    BY <1>2, <1>4, <1>5, LifeDownAppended
  <2>5. Tells(Append(toClient[p], m), client[p].shown, Cardinality(sleeping))
    BY <1>2, <1>5, TellsAppended
  <2>6. Linked(p, client[p], carried[p], Tail(toServer[p]), Append(toClient[p], m), dead, activity'[p],
               Cardinality(sleeping))
    BY <1>2, <1>5, <2>4, <2>5 DEF Linked
  <2>7. toClient'[p] = Append(toClient[p], m)
    BY <1>5, TypeFacts
  <2> QED
    BY <1>1, <1>2, <1>5, <2>2, <2>3, <2>6, <2>7, Collects
<1>6. CASE MayUse(p, s)
  <2>1. PICK id \in SessionIds \ UsedIds :
            LET granted == [station |-> s, id |-> id]
            IN  /\ activity' = [activity EXCEPT ![p] = granted]
                /\ owner' = [owner EXCEPT ![s] = p]
                /\ toClient' = [toClient EXCEPT ![p] =
                        Append(@, [type |-> "granted", activity |-> granted])]
    BY <1>6 DEF HandleActivityStart
  <2> DEFINE granted == [station |-> s, id |-> id]
             m == [type |-> "granted", activity |-> granted]
  <2>2. granted \in Activity /\ granted.station = s /\ granted # None
    BY <1>3, NoneIsNoActivity DEF Activity
  <2>3. m \in ServerMessage /\ m.type = "granted" /\ m.activity = granted
    BY <2>2 DEF ServerMessage
  <2>4. /\ activity' = [activity EXCEPT ![p] = granted] /\ owner' = [owner EXCEPT ![s] = p]
        /\ toClient' = [toClient EXCEPT ![p] = Append(@, m)]
    BY <2>1
  <2> HIDE DEF granted, m
  <2>5. Work(client[p], carried[p], Tail(toServer[p]), Append(toClient[p], m), granted)
    BY <1>2, <2>2, <2>3, WorkGranted
  <2>6. /\ activity' \in [Players -> Activity \cup {None}] /\ activity'[p] = granted
        /\ owner' \in [Stations -> Players \cup {None}] /\ owner'[s] = p
        /\ \A q \in Players \ {p} : activity'[q] = activity[q]
        /\ \A t \in Stations \ {s} : owner'[t] = owner[t]
    BY <1>3, <2>2, <2>4, TypeFacts
  <2> HIDE DEF s
  <2>7. activity[p] = None /\ owner[s] \in {p, None}
    BY <1>6 DEF MayUse
  <2>8. StationsMatchActivities
    BY TypeFacts
  <2>9. ASSUME NEW t \in Stations, NEW q \in Players
        PROVE  owner'[t] = q <=> (activity'[q] # None /\ activity'[q].station = t)
    <3>1. CASE q = p
      <4>1. t # s => owner[t] # p
        BY <2>7, <2>8 DEF StationsMatchActivities
      <4> QED
        BY <2>2, <2>6, <3>1, <4>1
    <3>2. CASE q # p /\ t = s
      <4>1. owner[s] # q
        BY <2>7, <3>2, NoneIsNothing
      <4>2. ~(activity[q] # None /\ activity[q].station = s)
        BY <1>3, <2>8, <4>1 DEF StationsMatchActivities
      <4> QED
        BY <2>6, <3>2, <4>2
    <3>3. CASE q # p /\ t # s
      <4>1. owner[t] = q <=> (activity[q] # None /\ activity[q].station = t)
        BY <2>8 DEF StationsMatchActivities
      <4> QED
        BY <2>6, <3>3, <4>1
    <3> QED
      BY <3>1, <3>2, <3>3
  <2>10. StationsMatchActivities'
    BY <2>9 DEF StationsMatchActivities
  <2> QED
    BY <1>5, <2>3, <2>4, <2>5, <2>6, <2>10
<1>7. CASE ~MayUse(p, s)
  <2> DEFINE m == [type |-> "denied", station |-> s]
  <2>1. m \in ServerMessage /\ m.type = "denied" /\ m.station = s
    BY <1>3 DEF ServerMessage
  <2>2. toClient' = [toClient EXCEPT ![p] = Append(@, m)] /\ UNCHANGED <<activity, owner>>
    BY <1>7 DEF HandleActivityStart
  <2> HIDE DEF m
  <2>3. Work(client[p], carried[p], Tail(toServer[p]), Append(toClient[p], m), activity[p])
    BY <1>2, <2>1, WorkDenied
  <2>4. StationsMatchActivities'
    BY <2>2, TypeFacts DEF StationsMatchActivities
  <2> QED
    BY <1>5, <2>1, <2>2, <2>3, <2>4, TypeFacts
<1> QED
  BY <1>6, <1>7

LEMMA HandleActivityEndKeeps ==
    ASSUME IInv, NEW p \in Players, HandleActivityEnd(p)
    PROVE  IInv'
<1>1. Arrives(p, "end") /\ UNCHANGED <<connected, sleeping, dead, client, carried>>
  BY DEF HandleActivityEnd
<1>2. /\ toServer[p] \in Seq(ClientMessage) /\ toServer[p] # <<>>
      /\ Head(toServer[p]).type = "end" /\ toServer'[p] = Tail(toServer[p])
      /\ Life(p, client[p], carried[p], toServer[p], toClient[p], dead)
      /\ Work(client[p], carried[p], toServer[p], toClient[p], activity[p])
      /\ Tells(toClient[p], client[p].shown, Cardinality(sleeping))
      /\ toClient[p] \in Seq(ServerMessage) /\ ~client[p].closing /\ p \in connected
  BY <1>1, ArrivesFacts
<1>3. /\ Life(p, client[p], carried[p], Tail(toServer[p]), toClient[p], dead)
      /\ Work(client[p], carried[p], Tail(toServer[p]), toClient[p], activity[p])
  BY <1>2, LifeUpTaken, WorkUpTaken
<1>4. CASE UNCHANGED <<activity, owner, toClient>>
  <2>1. Types' /\ StationsMatchActivities'
    BY <1>1, <1>4, TypeFacts, ArrivesFacts, TypesNext DEF StationsMatchActivities
  <2>2. \A q \in Players \ {p} : Apart(q)
    BY <1>1, <1>4, TypeFacts, ArrivesFacts DEF Apart
  <2>3. Linked(p, client[p], carried[p], Tail(toServer[p]), toClient[p], dead, activity[p],
               Cardinality(sleeping))
    BY <1>2, <1>3 DEF Linked
  <2> QED
    BY <1>1, <1>2, <1>4, <2>1, <2>2, <2>3, Collects
<1>5. CASE activity[p] # None /\ owner' = Released(p)
           /\ activity' = [activity EXCEPT ![p] = None] /\ toClient' = WithEnd(p, toClient)
  <2> DEFINE m == [type |-> "ended"]
  <2>1. m \in ServerMessage /\ m.type = "ended"
    BY EndedIsMessage
  <2>2. toClient' = [toClient EXCEPT ![p] = Append(@, m)]
    BY <1>5 DEF WithEnd
  <2> HIDE DEF m
  <2>3. Append(toClient[p], m) \in Seq(ServerMessage)
    BY <1>2, <2>1, Appended
  <2>4. /\ owner' \in [Stations -> Players \cup {None}]
        /\ activity' \in [Players -> Activity \cup {None}]
        /\ StationsMatchActivities'
        /\ activity'[p] = None /\ \A q \in Players \ {p} : activity'[q] = activity[q]
    BY <1>5, ReleasedKeeps
  <2>5. Types'
    BY <1>1, <2>2, <2>3, <2>4, TypeFacts, ArrivesFacts, TypesNext
  <2>6. \A q \in Players \ {p} : Apart(q)
    BY <1>1, <2>2, <2>4, TypeFacts, ArrivesFacts DEF Apart
  <2>7. Life(p, client[p], carried[p], Tail(toServer[p]), Append(toClient[p], m), dead)
    BY <1>2, <1>3, <2>1, LifeDownAppended
  <2>8. Work(client[p], carried[p], Tail(toServer[p]), Append(toClient[p], m), None)
    BY <1>2, <1>3, <1>5, <2>1, WorkEnded
  <2>9. Tells(Append(toClient[p], m), client[p].shown, Cardinality(sleeping))
    BY <1>2, <2>1, TellsAppended
  <2>10. Linked(p, client[p], carried[p], Tail(toServer[p]), Append(toClient[p], m), dead, None,
                Cardinality(sleeping))
    BY <1>2, <2>7, <2>8, <2>9 DEF Linked
  <2>11. toClient'[p] = Append(toClient[p], m)
    BY <2>2, TypeFacts
  <2> QED
    BY <1>1, <1>2, <2>4, <2>5, <2>6, <2>10, <2>11, Collects
<1> QED
  BY <1>4, <1>5 DEF HandleActivityEnd

-----------------------------------------------------------------------------
(* Sessions come and go.                                                   *)

LEMMA FreshFacts ==
    /\ FreshClient \in Client
    /\ ~FreshClient.dead /\ ~FreshClient.respawning /\ ~FreshClient.closing
    /\ FreshClient.started = None /\ FreshClient.own = None
<1>1. 0 \in 0..Cardinality(Players)
  BY PlayersAreFinite, FS_CardinalityType
<1> QED
  BY <1>1 DEF FreshClient, Client

\* A new session agrees with its client but for what the client kept.
LEMMA NewLink ==
    ASSUME NEW p \in Players, NEW d, p \notin d, NEW c \in Client,
           c = client[p], c.respawning => c.dead
    PROVE  Life(p, c, Kept(p), <<>>, <<>>, d) /\ Work(c, Kept(p), <<>>, <<>>, None)
<1>1. Len(<<>>) = 0 /\ 1..0 = {}
  OBVIOUS
<1>2. \A t : ~Has(<<>>, t) /\ Once(<<>>, t) /\ \A u : Ahead(<<>>, t, u)
  BY <1>1 DEF Has, Once, Ahead
<1>3. "death" \in Kept(p) <=> c.dead
  BY DEF Kept, Client
<1>4. "activity" \in Kept(p) <=> c.own # None \/ c.started # None
  BY DEF Kept, Client
<1>5. ASSUME c.dead PROVE Life(p, c, Kept(p), <<>>, <<>>, d)
  BY <1>2, <1>3, <1>5 DEF Life, Ghost
<1>6. ASSUME ~c.dead PROVE Life(p, c, Kept(p), <<>>, <<>>, d)
  <2>1. Mortal(p, c, <<>>, <<>>, d)
    BY <1>2, <1>6 DEF Mortal
  <2> QED
    BY <1>3, <1>6, <2>1 DEF Life
<1>7. ASSUME c.own # None \/ c.started # None PROVE Work(c, Kept(p), <<>>, <<>>, None)
  BY <1>2, <1>4, <1>7 DEF Work, Stuck
<1>8. ASSUME c.own = None, c.started = None PROVE Work(c, Kept(p), <<>>, <<>>, None)
  <2>1. Busy(c, <<>>, <<>>, None)
    BY <1>1, <1>2, <1>8 DEF Busy
  <2> QED
    BY <1>4, <1>8, <2>1 DEF Work
<1> QED
  BY <1>5, <1>6, <1>7, <1>8

LEMMA JoinKeeps == ASSUME IInv, NEW p \in Players, Join(p) PROVE IInv'
<1> DEFINE m == SleepState(sleeping, FALSE)
<1>1. /\ p \notin connected /\ connected' = connected \cup {p} /\ dead' = dead \ {p}
      /\ carried' = [carried EXCEPT ![p] = Kept(p)]
      /\ toClient' = [toClient EXCEPT ![p] = <<m>>]
      /\ UNCHANGED <<sleeping, activity, owner, client, toServer>>
  BY DEF Join
<1>2. Gone(p) /\ client[p] \in Client
  BY <1>1, InvFacts
<1>3. Says(m, Cardinality(sleeping))
  BY TypeFacts, PlainStateFacts
<1> HIDE DEF m
<1>4. <<m>> = Append(<<>>, m) /\ <<>> \in Seq(ServerMessage) /\ <<m>> \in Seq(ServerMessage)
  BY <1>3 DEF Says
<1>5. Linked(p, client[p], Kept(p), <<>>, <<m>>, dead', None, Cardinality(sleeping))
  <2>1. p \notin dead' /\ (client[p].respawning => client[p].dead) /\ ~client[p].closing
    BY <1>1, <1>2 DEF Gone
  <2>2. /\ Life(p, client[p], Kept(p), <<>>, <<>>, dead')
        /\ Work(client[p], Kept(p), <<>>, <<>>, None)
    BY <1>2, <2>1, NewLink
  <2> QED
    BY <1>3, <1>4, <2>1, <2>2, Told
<1>6. /\ client'[p] = client[p] /\ toServer'[p] = <<>> /\ toClient'[p] = <<m>>
      /\ activity'[p] = None /\ carried'[p] = Kept(p)
  BY <1>1, <1>2, TypeFacts DEF Gone
<1>7. Types'
  <2>1. Kept(p) \in SUBSET Leftovers
    BY DEF Kept, Leftovers
  <2> QED
    BY <1>1, <1>4, <2>1, TypeFacts, TypesNext
<1>8. StationsMatchActivities'
  BY <1>1, TypeFacts DEF StationsMatchActivities
<1>9. \A q \in Players \ {p} : Apart(q)
  BY <1>1, TypeFacts DEF Apart
<1> QED
  BY <1>1, <1>5, <1>6, <1>7, <1>8, <1>9, Collects

LEMMA SessionEndsKeeps ==
    ASSUME IInv, NEW p \in Players, NEW c \in Client, SessionEnds(p),
           client' = [client EXCEPT ![p] = c], c.respawning => c.dead, ~c.closing
    PROVE  IInv'
<1> DEFINE told == WithoutVote(p, toClient, connected \ {p})
<1>1. /\ p \in connected /\ connected' = connected \ {p} /\ sleeping' = sleeping \ {p}
      /\ owner' = Released(p) /\ activity' = [activity EXCEPT ![p] = None]
      /\ carried' = [carried EXCEPT ![p] = {}]
      /\ toServer' = [toServer EXCEPT ![p] = <<>>]
      /\ toClient' = [told EXCEPT ![p] = <<>>]
      /\ UNCHANGED dead
  BY DEF SessionEnds
<1>2. /\ told \in [Players -> Seq(ServerMessage)]
      /\ p \notin sleeping => told = toClient
      /\ p \in sleeping => \E m \in ServerMessage :
             /\ Says(m, Cardinality(sleeping'))
             /\ \A q \in Players :
                    /\ q \in connected \ {p} => told[q] = Append(toClient[q], m)
                    /\ q \notin connected \ {p} => told[q] = toClient[q]
  BY <1>1, WithoutVoteFacts
<1> HIDE DEF told
<1>3. /\ owner' \in [Stations -> Players \cup {None}]
      /\ activity' \in [Players -> Activity \cup {None}]
      /\ StationsMatchActivities'
      /\ activity'[p] = None /\ \A q \in Players \ {p} : activity'[q] = activity[q]
  BY <1>1, ReleasedKeeps
<1>4. <<>> \in Seq(ServerMessage) /\ <<>> \in Seq(ClientMessage)
  OBVIOUS
<1>5. /\ client'[p] = c /\ toServer'[p] = <<>> /\ toClient'[p] = <<>>
      /\ \A q \in Players \ {p} : /\ client'[q] = client[q] /\ carried'[q] = carried[q]
                                  /\ toServer'[q] = toServer[q] /\ toClient'[q] = told[q]
  BY <1>1, <1>2, TypeFacts
<1>6. Types'
  BY <1>1, <1>2, <1>3, <1>4, TypeFacts, TypesNext
<1>7. p \notin sleeping => sleeping' = sleeping
  BY <1>1
<1>8. \A q \in Players \ {p} : Apart(q)
  BY <1>1, <1>2, <1>3, <1>5, <1>7 DEF Apart
<1>9. Gone(p)' /\ p \notin connected'
  BY <1>1, <1>3, <1>5 DEF Gone
<1> QED
  BY <1>3, <1>6, <1>8, <1>9, Collects

LEMMA LeaveKeeps == ASSUME IInv, NEW p \in Players, Leave(p) PROVE IInv'
BY FreshFacts, SessionEndsKeeps DEF Leave

LEMMA LoseKeeps == ASSUME IInv, NEW p \in Players, Lose(p) PROVE IInv'
<1>1. p \in connected /\ ~client[p].closing /\ SessionEnds(p) /\ client' = client
  BY DEF Lose, SessionEnds
<1>2. client[p] \in Client /\ client' = [client EXCEPT ![p] = client[p]]
  BY <1>1, TypeFacts
<1>3. Life(p, client[p], carried[p], toServer[p], toClient[p], dead)
  BY <1>1, InvFacts DEF Linked
<1>4. client[p].respawning => client[p].dead
  BY <1>3 DEF Life, Ghost, Mortal
<1> QED
  BY <1>1, <1>2, <1>4, SessionEndsKeeps

LEMMA GiveUpKeeps == ASSUME IInv, NEW p \in Players, GiveUp(p) PROVE IInv'
<1>1. /\ p \notin connected /\ client' = [client EXCEPT ![p] = FreshClient]
      /\ UNCHANGED <<connected, sleeping, dead, activity, owner, carried, toServer, toClient>>
  BY DEF GiveUp, server
<1>2. Gone(p)
  BY <1>1, InvFacts
<1>3. Types'
  BY <1>1, FreshFacts, TypeFacts, TypesNext
<1>4. StationsMatchActivities'
  BY <1>1, TypeFacts DEF StationsMatchActivities
<1>5. \A q \in Players \ {p} : Apart(q)
  BY <1>1, TypeFacts DEF Apart
<1>6. Gone(p)'
  BY <1>1, <1>2, FreshFacts, TypeFacts DEF Gone
<1> QED
  BY <1>1, <1>3, <1>4, <1>5, <1>6, Collects

-----------------------------------------------------------------------------
LEMMA InitHolds == Init => IInv
<1> SUFFICES ASSUME Init PROVE IInv
  OBVIOUS
<1>1. /\ connected = {} /\ sleeping = {} /\ dead = {}
      /\ activity = [p \in Players |-> None] /\ owner = [s \in Stations |-> None]
      /\ client = [p \in Players |-> FreshClient] /\ carried = [p \in Players |-> {}]
      /\ toServer = [p \in Players |-> <<>>] /\ toClient = [p \in Players |-> <<>>]
  BY DEF Init
<1>2. <<>> \in Seq(ServerMessage) /\ <<>> \in Seq(ClientMessage)
  OBVIOUS
<1>3. Types
  BY <1>1, <1>2, FreshFacts DEF Types, TypeOK
<1>4. StationsMatchActivities
  BY <1>1, NoneIsNothing DEF StationsMatchActivities
<1>5. \A p \in Players : Gone(p)
  BY <1>1, FreshFacts DEF Gone
<1> QED
  BY <1>1, <1>3, <1>4, <1>5 DEF IInv

LEMMA NextKeeps == IInv /\ [Next]_vars => IInv'
<1> SUFFICES ASSUME IInv, [Next]_vars PROVE IInv'
  OBVIOUS
<1>1. CASE UNCHANGED vars
  BY <1>1 DEF vars, IInv, Types, TypeOK, StationsMatchActivities, Gone
<1>2. ASSUME NEW p \in Players,
             \/ Join(p) \/ Leave(p) \/ Lose(p) \/ GiveUp(p)
             \/ LieDown(p) \/ Vote(p) \/ TakeBack(p) \/ Die(p) \/ RequestRespawn(p)
             \/ (\E s \in Stations : Begin(p, s)) \/ End(p)
             \/ ServerReceives(p) \/ ClientReceives(p)
      PROVE  IInv'
  <2>1. CASE Join(p) \/ Leave(p) \/ Lose(p) \/ GiveUp(p)
    BY <2>1, JoinKeeps, LeaveKeeps, LoseKeeps, GiveUpKeeps
  <2>2. CASE LieDown(p) \/ Vote(p) \/ TakeBack(p) \/ Die(p) \/ RequestRespawn(p)
    BY <2>2, LieDownKeeps, VotesKeep, DieKeeps, RequestRespawnKeeps
  <2>3. CASE (\E s \in Stations : Begin(p, s)) \/ End(p)
    BY <2>3, BeginKeeps, EndKeeps
  <2>4. CASE ServerReceives(p)
    BY <2>4, HandleSleepStateKeeps, HandleDeathKeeps, HandleRespawnRequestKeeps,
       HandleActivityStartKeeps, HandleActivityEndKeeps DEF ServerReceives
  <2>5. CASE ClientReceives(p)
    BY <2>5, ReceiveSleepStateKeeps, ReceiveRespawnKeeps, ReceiveGrantedKeeps,
       ReceiveDeniedKeeps, ReceiveEndedKeeps DEF ClientReceives
  <2> QED
    BY <1>2, <2>1, <2>2, <2>3, <2>4, <2>5
<1> QED
  BY <1>1, <1>2 DEF Next

LEMMA Invariance == Spec => []IInv
<1> QED
  BY InitHolds, NextKeeps, PTL DEF Spec

\* Server, clients and streams keep their types (the sessions of server_core,
\* client.cpp's state).
THEOREM TypeCorrect == Spec => []TypeOK
<1>1. IInv => TypeOK
  BY DEF IInv, Types
<1> QED
  BY Invariance, <1>1, PTL

\* However activities begin and end, a station is used by the player whose
\* activity it is and by nobody else (handle_activity_start,
\* release_activity).
THEOREM StationsAgree == Spec => []StationsMatchActivities
<1>1. IInv => StationsMatchActivities
  BY DEF IInv
<1> QED
  BY Invariance, <1>1, PTL

\* In whichever order requests, deaths and answers cross, no client gets an
\* answer it does not wait for (handle_game_message).
THEOREM ClientsAreNotSurprised == Spec => []NoSurprise
<1>1. IInv => NoSurprise
  BY FreshFacts DEF IInv, NoSurprise, Linked, Gone
<1> QED
  BY Invariance, <1>1, PTL

\* Once nothing is on its way, every player is shown the number of votes, and
\* client and server agree on the activity and on who is dead, also after any
\* number of reconnects, but for what the client kept over the last of them.
THEOREM QuietClientsAgree == Spec => []QuietPlayersAgree
<1>1. ASSUME IInv, NEW p \in connected
      PROVE  /\ toClient[p] = <<>> => client[p].shown = Cardinality(sleeping)
             /\ toClient[p] = <<>> /\ toServer[p] = <<>> =>
                 /\ "activity" \notin carried[p] =>
                     /\ client[p].own = activity[p]
                     /\ client[p].started = None
                 /\ "death" \notin carried[p] => (client[p].dead <=> p \in dead)
  <2>1. Linked(p, client[p], carried[p], toServer[p], toClient[p], dead, activity[p],
               Cardinality(sleeping))
    BY <1>1 DEF IInv
  <2>2. \A q, t : q = <<>> => ~Has(q, t)
    BY DEF Has
  <2>3. toClient[p] = <<>> => client[p].shown = Cardinality(sleeping)
    BY <2>1, <2>2 DEF Linked, Tells
  <2>4. ASSUME toClient[p] = <<>>, toServer[p] = <<>>, "activity" \notin carried[p]
        PROVE  client[p].own = activity[p] /\ client[p].started = None
    BY <2>1, <2>2, <2>4 DEF Linked, Work, Busy
  <2>5. ASSUME toClient[p] = <<>>, toServer[p] = <<>>, "death" \notin carried[p]
        PROVE  client[p].dead <=> p \in dead
    BY <2>1, <2>2, <2>5 DEF Linked, Life, Mortal
  <2> QED
    BY <2>3, <2>4, <2>5
<1>2. IInv => QuietPlayersAgree
  BY <1>1 DEF QuietPlayersAgree
<1> QED
  BY Invariance, <1>2, PTL
=============================================================================

--------------------------- MODULE WorldSyncProofs ---------------------------
(***************************************************************************)
(* Theorems about WorldSync, for any players, any states of an object, and *)
(* any bounds on revisions and on messages under way.                      *)
(***************************************************************************)
EXTENDS WorldSync, FiniteSetTheorems, SequenceTheorems, TLAPS

-----------------------------------------------------------------------------
(* What holds of one player at a server with the commits cs: of its link l,*)
(* its view v, its update in flight u and the change d behind it, of what  *)
(* its game shows, g, and has noted, o, of the updates out and the answers *)
(* q under way, and of what may have led it astray, s.                     *)

Strays == {"crossed", "invented", "unanswered"}

\* Neither crossed nor answered with what does not exist.
Unmisled(s) == "crossed" \notin s /\ "invented" \notin s

IsAnswer(m) == m.type \in {"accepted", "rejected"}

Clear(q) == \A i \in 1..Len(q) : ~IsAnswer(q[i])

\* A client hears of revisions there are, and of the one that is made up while
\* there is none.
MayName(n, rev, s) == rev <= n \/ (n = 0 /\ rev = 1 /\ "invented" \in s)

\* Answers come in the order of their revisions, the last one is the server's.
Ordered(n, v, q, s) ==
    /\ MayName(n, v.rev, s)
    /\ \A i \in 1..Len(q) :
           /\ 1 <= q[i].rev /\ v.rev <= q[i].rev
           /\ MayName(n, q[i].rev, s)
           /\ q[i].type # "rejected" => q[i].rev <= n
    /\ \A i, j \in 1..Len(q) : i < j => q[i].rev <= q[j].rev
    /\ n # 0 => IF q = <<>> THEN v.rev = n ELSE q[Len(q)].rev = n

\* One update or its answer is under way.
Single(out, q) ==
    /\ Len(out) <= 1
    /\ \A i, j \in 1..Len(q) : IsAnswer(q[i]) /\ IsAnswer(q[j]) => i = j
    /\ out # <<>> => Clear(q)

\* The first update of an object got no answer, nor did anybody else's reach the
\* client.
Silent(v, s) == v.rev = 0 /\ "unanswered" \in s

\* It is the update in flight, or one that the client gave up for another's
\* change and that the server will refuse.
InFlight(n, v, u, out, q, s) ==
    /\ u # Nothing => /\ u.rev = v.rev
                      /\ out = <<u>> \/ (out = <<>> /\ (~Clear(q) \/ Silent(v, s)))
    /\ u = Nothing => \A i \in 1..Len(out) : out[i].rev < n
    /\ \A i \in 1..Len(q) : q[i].type = "accepted" =>
           /\ u # Nothing /\ q[i].rev = u.rev + 1 /\ q[i].content = u.content
           /\ \A j \in 1..Len(q) : j < i => q[j].rev <= u.rev
    /\ \A i \in 1..Len(q) : q[i].type = "rejected" =>
           \/ v.rev = q[i].rev
           \/ \E j \in 1..Len(q) : j < i /\ q[j].rev = q[i].rev
           \/ i = 1 /\ u # Nothing

Straight(n, v, u, out, q, s) == Single(out, q) /\ InFlight(n, v, u, out, q, s)

\* The content is the one the revision has.
Names(cs, m) == IF m.rev = 0 THEN m.content = Plain ELSE m.content = cs[m.rev]

Wanted(v, u, d) ==
    IF d # Nothing THEN d ELSE IF u # Nothing THEN u.content ELSE v.content

\* The game shows what the client wants, or a change that is noted.
Shows(v, u, d, g, o) ==
    /\ o # <<>> => o = <<g>>
    /\ o = <<>> /\ (v.rev # 0 \/ u # Nothing) => g = Wanted(v, u, d)

Truthful(cs, v, u, d, g, o, q) ==
    /\ Names(cs, v) /\ \A i \in 1..Len(q) : Names(cs, q[i])
    /\ Shows(v, u, d, g, o)

Fits(cs, l, v, u, d, g, o, out, q, s) ==
    /\ l \in {"away", "loading"} => out = <<>> /\ q = <<>>
    /\ l = "loading" => v.rev <= Len(cs) /\ u = Nothing /\ s = {}
    /\ l # "away" /\ u = Nothing => d = Nothing
    /\ l = "closing" => "crossed" \in s
    /\ l = "in" => Ordered(Len(cs), v, q, s)
    /\ l = "in" /\ "crossed" \notin s => Straight(Len(cs), v, u, out, q, s)
    /\ l \in {"loading", "in"} /\ Unmisled(s) => Truthful(cs, v, u, d, g, o, q)

Agrees(p) ==
    Fits(commits, link[p], view[p], pending[p], deferred[p], game[p], seen[p],
         up[p], down[p], strayed[p])

Types ==
    /\ commits \in Seq(Contents) /\ Len(commits) <= MaxRevision
    /\ barred \subseteq Players
    /\ link \in [Players -> {"away", "loading", "in", "closing"}]
    /\ view \in [Players -> States]
    /\ pending \in [Players -> States \cup {Nothing}]
    /\ deferred \in [Players -> Contents \cup {Nothing}]
    /\ game \in [Players -> Contents]
    /\ seen \in [Players -> Seq(Contents)]
    /\ up \in [Players -> Seq(States)]
    /\ down \in [Players -> Seq(Answers)]
    /\ strayed \in [Players -> SUBSET Strays]
    /\ \A p \in Players : Len(up[p]) <= MaxWire /\ Len(down[p]) <= MaxWire

IInv == Types /\ \A p \in Players : Agrees(p)

-----------------------------------------------------------------------------
(* Streams.                                                                *)

LEMMA AppendedAt ==
    ASSUME NEW S, NEW q \in Seq(S), NEW m \in S
    PROVE  /\ Append(q, m) \in Seq(S) /\ Append(q, m) # <<>> /\ Len(q) \in Nat
           /\ Len(Append(q, m)) = Len(q) + 1
           /\ Append(q, m)[Len(q) + 1] = m
           /\ \A i \in 1..Len(q) : i \in 1..(Len(q) + 1) /\ Append(q, m)[i] = q[i]
           /\ \A i \in 1..(Len(q) + 1) : i \in 1..Len(q) \/ i = Len(q) + 1
<1>1. \A i \in 1..(Len(q) + 1) : i \in 1..Len(q) \/ i = Len(q) + 1
  BY LenProperties
<1>2. \A i \in 1..Len(q) : i \in 1..(Len(q) + 1)
  BY LenProperties
<1> QED
  BY <1>1, <1>2, AppendProperties, LenProperties

LEMMA TailAt ==
    ASSUME NEW S, NEW q \in Seq(S), q # <<>>
    PROVE  /\ Tail(q) \in Seq(S) /\ Head(q) \in S /\ Head(q) = q[1]
           /\ Len(q) \in Nat /\ 1 \in 1..Len(q) /\ Len(Tail(q)) = Len(q) - 1
           /\ \A i \in 1..Len(Tail(q)) : i + 1 \in 1..Len(q) /\ Tail(q)[i] = q[i + 1]
           /\ \A i \in 1..Len(q) : i = 1 \/ i - 1 \in 1..Len(Tail(q))
<1>1. Len(q) \in Nat /\ Len(q) # 0 /\ Len(Tail(q)) = Len(q) - 1
  BY HeadTailProperties, LenProperties, EmptySeq
<1> QED
  BY <1>1, HeadTailProperties

LEMMA FirstAppended == \A x : Append(<<>>, x) = <<x>>
OBVIOUS

LEMMA EmptyIff == ASSUME NEW S, NEW q \in Seq(S) PROVE q = <<>> <=> Len(q) = 0
BY EmptySeq

LEMMA AnswerFacts ==
    /\ \A m \in Answers : /\ m.rev \in Nat /\ m.content \in Contents
                          /\ m.type \in {"accepted", "rejected", "updated"}
                          /\ IsAnswer(m) <=> m.type # "updated"
    /\ \A v \in States : v.rev \in Nat /\ v.content \in Contents /\ v # Nothing
    /\ \A r \in 0..MaxRevision, c \in Contents :
           /\ State(r, c) \in States
           /\ State(r, c).rev = r /\ State(r, c).content = c
<1>1. \A m \in Answers : /\ m.rev \in Nat /\ m.content \in Contents
                         /\ m.type \in {"accepted", "rejected", "updated"}
  BY WorldAssumption DEF Answers
<1>2. \A m \in Answers : IsAnswer(m) <=> m.type # "updated"
  BY <1>1 DEF IsAnswer
<1>3. \A v \in States : v.rev \in Nat /\ v.content \in Contents
  BY WorldAssumption DEF States
<1>4. \A v \in States : v # Nothing
  BY SMT DEF States, Nothing
<1> QED
  BY <1>1, <1>2, <1>3, <1>4 DEF State, States

-----------------------------------------------------------------------------
(* The order of what a client hears.                                       *)

LEMMA OrderedCommit ==
    ASSUME NEW n \in Nat, NEW v \in States, NEW q \in Seq(Answers), NEW s,
           NEW m \in Answers, m.rev = n + 1, Ordered(n, v, q, s)
    PROVE  Ordered(n + 1, v, Append(q, m), s)
<1> DEFINE r == Append(q, m)
<1>1. v.rev <= n + 1 /\ v.rev \in Nat
  BY AnswerFacts DEF Ordered, MayName
<1>2. \A i \in 1..Len(q) : /\ q[i].rev \in Nat /\ 1 <= q[i].rev
                           /\ v.rev <= q[i].rev /\ q[i].rev <= n + 1
  BY ElementOfSeq, AnswerFacts DEF Ordered, MayName
<1>3. /\ r # <<>> /\ Len(q) \in Nat /\ Len(r) = Len(q) + 1 /\ r[Len(q) + 1] = m
      /\ \A i \in 1..Len(q) : r[i] = q[i]
      /\ \A i \in 1..Len(r) : i \in 1..Len(q) \/ i = Len(q) + 1
  BY AppendedAt
<1> HIDE DEF r
<1>4. \A i, j \in 1..Len(r) : i < j => i \in 1..Len(q)
  BY <1>3
<1>5. \A i, j \in 1..Len(q) : i < j => q[i].rev <= q[j].rev
  BY DEF Ordered
<1>6. \A i \in 1..Len(r) : 1 <= r[i].rev /\ v.rev <= r[i].rev /\ r[i].rev <= n + 1
  BY <1>1, <1>2, <1>3
<1>7. \A i, j \in 1..Len(r) : i < j => r[i].rev <= r[j].rev
  BY <1>2, <1>3, <1>4, <1>5
<1> QED
  BY <1>1, <1>3, <1>6, <1>7 DEF Ordered, MayName, r

LEMMA OrderedRefusal ==
    ASSUME NEW n \in Nat, NEW v \in States, NEW q \in Seq(Answers), NEW s, NEW t,
           NEW m \in Answers, n = 0 => m.rev = 1, n # 0 => m.rev = n, m.type = "rejected",
           "invented" \in s => "invented" \in t, n = 0 => "invented" \in t,
           Ordered(n, v, q, s)
    PROVE  Ordered(n, v, Append(q, m), t)
<1> DEFINE r == Append(q, m)
<1>1. MayName(n, v.rev, t) /\ v.rev \in Nat /\ v.rev <= m.rev /\ 1 <= m.rev /\ MayName(n, m.rev, t)
  BY AnswerFacts DEF Ordered, MayName
<1>2. \A i \in 1..Len(q) : /\ q[i].rev \in Nat /\ 1 <= q[i].rev /\ v.rev <= q[i].rev
                           /\ MayName(n, q[i].rev, t) /\ q[i].rev <= m.rev
                           /\ q[i].type # "rejected" => q[i].rev <= n
  BY ElementOfSeq, AnswerFacts DEF Ordered, MayName
<1>3. /\ r # <<>> /\ Len(q) \in Nat /\ Len(r) = Len(q) + 1 /\ r[Len(q) + 1] = m
      /\ \A i \in 1..Len(q) : r[i] = q[i]
      /\ \A i \in 1..Len(r) : i \in 1..Len(q) \/ i = Len(q) + 1
  BY AppendedAt
<1> HIDE DEF r
<1>4. \A i, j \in 1..Len(r) : i < j => i \in 1..Len(q)
  BY <1>3
<1>5. \A i, j \in 1..Len(q) : i < j => q[i].rev <= q[j].rev
  BY DEF Ordered
<1>6. \A i \in 1..Len(r) : /\ 1 <= r[i].rev /\ v.rev <= r[i].rev /\ MayName(n, r[i].rev, t)
                           /\ r[i].type # "rejected" => r[i].rev <= n
  BY <1>1, <1>2, <1>3
<1>7. \A i, j \in 1..Len(r) : i < j => r[i].rev <= r[j].rev
  BY <1>2, <1>3, <1>4, <1>5
<1> QED
  BY <1>1, <1>3, <1>6, <1>7 DEF Ordered, r

LEMMA OrderedHead ==
    ASSUME NEW n \in Nat, NEW v \in States, NEW q \in Seq(Answers), q # <<>>, NEW s,
           Ordered(n, v, q, s)
    PROVE  /\ 1 <= Head(q).rev /\ v.rev <= Head(q).rev /\ MayName(n, Head(q).rev, s)
           /\ Head(q).type # "rejected" => Head(q).rev <= n
           /\ \A i \in 1..Len(q) : Head(q).rev <= q[i].rev
<1>1. Head(q) = q[1] /\ 1 \in 1..Len(q) /\ q[1].rev \in Nat
  BY TailAt, AnswerFacts
<1>2. \A i \in 1..Len(q) : i = 1 \/ 1 < i
  OBVIOUS
<1> QED
  BY <1>1, <1>2 DEF Ordered

LEMMA OrderedTaken ==
    ASSUME NEW n \in Nat, NEW v \in States, NEW q \in Seq(Answers), q # <<>>, NEW s, NEW t,
           "invented" \in s => "invented" \in t, NEW w, w.rev = Head(q).rev,
           Ordered(n, v, q, s)
    PROVE  Ordered(n, w, Tail(q), t)
<1> DEFINE r == Tail(q)
<1>1. /\ r \in Seq(Answers) /\ Head(q) = q[1] /\ Len(q) \in Nat /\ 1 \in 1..Len(q)
      /\ Len(r) = Len(q) - 1
      /\ \A i \in 1..Len(r) : i + 1 \in 1..Len(q) /\ r[i] = q[i + 1]
  BY TailAt
<1>2. r = <<>> <=> Len(r) = 0
  BY <1>1, EmptyIff
<1>3. \A i \in 1..Len(q) : /\ 1 <= q[i].rev /\ MayName(n, q[i].rev, t) /\ w.rev <= q[i].rev
                           /\ q[i].type # "rejected" => q[i].rev <= n
  BY OrderedHead DEF Ordered, MayName
<1>4. \A i, j \in 1..Len(r) : i < j => r[i].rev <= r[j].rev
  BY <1>1 DEF Ordered
<1>5. n # 0 => q[Len(q)].rev = n
  BY DEF Ordered
<1>6. Len(r) # 0 => r[Len(r)] = q[Len(q)]
  BY <1>1
<1> HIDE DEF r
<1>7. n # 0 => IF r = <<>> THEN w.rev = n ELSE r[Len(r)].rev = n
  BY <1>1, <1>2, <1>5, <1>6, EmptyIff
<1>8. MayName(n, w.rev, t)
  BY <1>1, <1>3
<1>9. \A i \in 1..Len(r) : /\ 1 <= r[i].rev /\ MayName(n, r[i].rev, t) /\ w.rev <= r[i].rev
                           /\ r[i].type # "rejected" => r[i].rev <= n
  BY <1>1, <1>3
<1> QED
  BY <1>4, <1>7, <1>8, <1>9 DEF Ordered, r

-----------------------------------------------------------------------------
(* A client's own update and its answer.                                   *)

\* With no answer under way, there may be an update in flight or none.
LEMMA StraightClear ==
    ASSUME NEW n \in Nat, NEW v \in States, NEW q \in Seq(Answers), NEW s, Clear(q)
    PROVE  /\ Straight(n, v, Nothing, <<>>, q, s)
           /\ \A u \in States : u.rev = v.rev => Straight(n, v, u, <<u>>, q, s)
<1>1. \A i \in 1..Len(q) : q[i].type # "accepted" /\ q[i].type # "rejected"
  BY DEF Clear, IsAnswer
<1>2. Straight(n, v, Nothing, <<>>, q, s)
  BY <1>1 DEF Straight, Single, InFlight, Clear
<1>3. ASSUME NEW u \in States, u.rev = v.rev PROVE Straight(n, v, u, <<u>>, q, s)
  BY <1>1, <1>3, AnswerFacts DEF Straight, Single, InFlight, Clear
<1> QED
  BY <1>2, <1>3

LEMMA HeadIsOnly ==
    ASSUME NEW q \in Seq(Answers), q # <<>>, NEW out, Single(out, q), IsAnswer(Head(q))
    PROVE  out = <<>> /\ Clear(Tail(q))
<1>1. /\ Head(q) = q[1] /\ 1 \in 1..Len(q)
      /\ \A i \in 1..Len(Tail(q)) : i + 1 \in 1..Len(q) /\ Tail(q)[i] = q[i + 1] /\ i + 1 # 1
  BY TailAt
<1> QED
  BY <1>1 DEF Single, Clear

\* Another's commit.
LEMMA StraightOthers ==
    ASSUME NEW n \in Nat, NEW v \in States, NEW u \in States \cup {Nothing},
           NEW out \in Seq(States), NEW q \in Seq(Answers), NEW s,
           Straight(n, v, u, out, q, s), NEW m \in Answers, m.type = "updated"
    PROVE  Straight(n + 1, v, u, out, Append(q, m), s)
<1> DEFINE r == Append(q, m)
<1>1. /\ Len(q) \in Nat /\ Len(r) = Len(q) + 1 /\ r[Len(q) + 1] = m
      /\ \A i \in 1..Len(q) : i \in 1..Len(r) /\ r[i] = q[i]
      /\ \A i \in 1..Len(r) : i \in 1..Len(q) \/ i = Len(q) + 1
  BY AppendedAt
<1> HIDE DEF r
<1>2. ~IsAnswer(m) /\ m.type # "accepted" /\ m.type # "rejected"
  BY AnswerFacts
<1>3. \A i \in 1..Len(r) : r[i].type \in {"accepted", "rejected"} =>
          /\ i \in 1..Len(q) /\ r[i] = q[i]
          /\ \A j \in 1..Len(r) : j < i => j \in 1..Len(q) /\ r[j] = q[j]
  BY <1>1, <1>2
<1>4. Clear(q) <=> Clear(r)
  BY <1>1, <1>2, <1>3 DEF Clear
<1>5. Single(out, r)
  BY <1>3, <1>4 DEF Straight, Single, IsAnswer
<1>6. \A i \in 1..Len(out) : out[i].rev \in Nat
  BY ElementOfSeq, AnswerFacts
<1>7. u = Nothing => \A i \in 1..Len(out) : out[i].rev < n + 1
  BY <1>6 DEF Straight, InFlight
<1>8. ASSUME NEW i \in 1..Len(r), r[i].type = "accepted"
      PROVE  /\ u # Nothing /\ r[i].rev = u.rev + 1 /\ r[i].content = u.content
             /\ \A j \in 1..Len(r) : j < i => r[j].rev <= u.rev
  BY <1>3, <1>8 DEF Straight, InFlight
<1>9. ASSUME NEW i \in 1..Len(r), r[i].type = "rejected"
      PROVE  \/ v.rev = r[i].rev
             \/ \E j \in 1..Len(r) : j < i /\ r[j].rev = r[i].rev
             \/ i = 1 /\ u # Nothing
  BY <1>1, <1>3, <1>9 DEF Straight, InFlight
<1>10. InFlight(n + 1, v, u, out, r, s)
  BY <1>4, <1>7, <1>8, <1>9 DEF Straight, InFlight
<1> QED
  BY <1>5, <1>10 DEF Straight, r

\* The client's own commit: its update was in flight, or the server would have
\* refused it.
LEMMA StraightCommit ==
    ASSUME NEW n \in Nat, NEW v \in States, NEW u \in States \cup {Nothing},
           NEW out \in Seq(States), NEW q \in Seq(Answers), NEW s,
           Straight(n, v, u, out, q, s), Ordered(n, v, q, s),
           out # <<>>, Head(out).rev = n,
           NEW m \in Answers, m.type = "accepted", m.rev = n + 1,
           m.content = Head(out).content
    PROVE  Straight(n + 1, v, u, Tail(out), Append(q, m), s)
<1> DEFINE r == Append(q, m)
<1>1. /\ Len(q) \in Nat /\ Len(r) = Len(q) + 1 /\ r[Len(q) + 1] = m
      /\ \A i \in 1..Len(q) : i \in 1..Len(r) /\ r[i] = q[i]
      /\ \A i \in 1..Len(r) : i \in 1..Len(q) \/ i = Len(q) + 1
  BY AppendedAt
<1> HIDE DEF r
<1>2. /\ Head(out) \in States /\ Head(out) = out[1] /\ 1 \in 1..Len(out)
      /\ Len(Tail(out)) = Len(out) - 1 /\ Tail(out) \in Seq(States) /\ Len(out) \in Nat
  BY TailAt
<1>3. Tail(out) = <<>>
  BY <1>2, EmptyIff DEF Straight, Single
<1>4. \A i \in 1..Len(q) : q[i].type # "accepted" /\ q[i].type # "rejected" /\ q[i].rev <= n
  BY DEF Straight, Single, Clear, IsAnswer, Ordered
<1>5. u # Nothing /\ u = Head(out) /\ u.rev = v.rev /\ u.rev = n
  BY <1>2 DEF Straight, InFlight
<1>6. IsAnswer(m) /\ m.type # "rejected"
  BY DEF IsAnswer
<1>7. ~Clear(r)
  BY <1>1, <1>6 DEF Clear
<1>8. \A i \in 1..Len(r) : IsAnswer(r[i]) => i = Len(q) + 1
  BY <1>1, <1>4 DEF IsAnswer
<1>9. Single(<<>>, r)
  BY <1>8 DEF Single
<1>10. ASSUME NEW i \in 1..Len(r), r[i].type = "accepted"
       PROVE  /\ r[i].rev = u.rev + 1 /\ r[i].content = u.content
              /\ \A j \in 1..Len(r) : j < i => r[j].rev <= u.rev
  <2>1. i = Len(q) + 1
    BY <1>8, <1>10 DEF IsAnswer
  <2>2. \A j \in 1..Len(r) : j < i => j \in 1..Len(q)
    BY <1>1, <2>1
  <2> QED
    BY <1>1, <1>4, <1>5, <2>1, <2>2
<1>11. \A i \in 1..Len(r) : r[i].type # "rejected"
  BY <1>1, <1>4, <1>6
<1>12. InFlight(n + 1, v, u, <<>>, r, s)
  BY <1>5, <1>7, <1>10, <1>11 DEF InFlight
<1> QED
  BY <1>3, <1>9, <1>12 DEF Straight, r

\* The answer to an update that is refused.
LEMMA StraightRefusal ==
    ASSUME NEW n \in Nat, NEW v \in States, NEW u \in States \cup {Nothing},
           NEW out \in Seq(States), NEW q \in Seq(Answers), NEW s,
           Straight(n, v, u, out, q, s), Ordered(n, v, q, s), out # <<>>, NEW t,
           NEW m \in Answers, m.type = "rejected", n = 0 => m.rev = 1, n # 0 => m.rev = n
    PROVE  Straight(n, v, u, Tail(out), Append(q, m), t)
<1> DEFINE r == Append(q, m)
<1>1. /\ Len(q) \in Nat /\ Len(r) = Len(q) + 1 /\ r[Len(q) + 1] = m
      /\ \A i \in 1..Len(q) : i \in 1..Len(r) /\ r[i] = q[i]
      /\ \A i \in 1..Len(r) : i \in 1..Len(q) \/ i = Len(q) + 1
  BY AppendedAt
<1> HIDE DEF r
<1>2. /\ Head(out) \in States /\ Head(out) = out[1] /\ 1 \in 1..Len(out)
      /\ Len(Tail(out)) = Len(out) - 1 /\ Tail(out) \in Seq(States) /\ Len(out) \in Nat
      /\ out[1].rev \in Nat
  BY TailAt, AnswerFacts
<1>3. Tail(out) = <<>>
  BY <1>2, EmptyIff DEF Straight, Single
<1>4. \A i \in 1..Len(q) : /\ q[i].type # "accepted" /\ q[i].type # "rejected"
                           /\ q[i].rev <= n /\ 1 <= q[i].rev /\ q[i].rev \in Nat
  BY ElementOfSeq, AnswerFacts DEF Straight, Single, Clear, IsAnswer, Ordered
<1>5. IsAnswer(m) /\ m.type # "accepted"
  BY DEF IsAnswer
<1>6. ~Clear(r)
  BY <1>1, <1>5 DEF Clear
<1>7. \A i \in 1..Len(r) : IsAnswer(r[i]) => i = Len(q) + 1
  BY <1>1, <1>4 DEF IsAnswer
<1>8. Single(<<>>, r)
  BY <1>7 DEF Single
<1>9. n = 0 => Len(q) = 0 /\ u # Nothing
  <2>1. n = 0 => ~(1 \in 1..Len(q))
    BY <1>4
  <2> QED
    BY <1>1, <1>2, <2>1 DEF Straight, InFlight
<1>10. n # 0 => v.rev = n \/ (Len(q) \in 1..Len(q) /\ q[Len(q)].rev = n)
  BY <1>1, EmptyIff DEF Ordered
<1>11. \A i \in 1..Len(r) : r[i].type # "accepted"
  BY <1>1, <1>4, <1>5
<1>12. ASSUME NEW i \in 1..Len(r), r[i].type = "rejected"
       PROVE  \/ v.rev = r[i].rev
              \/ \E j \in 1..Len(r) : j < i /\ r[j].rev = r[i].rev
              \/ i = 1 /\ u # Nothing
  <2>1. i = Len(q) + 1 /\ r[i] = m
    BY <1>1, <1>7, <1>12 DEF IsAnswer
  <2>2. CASE n = 0
    BY <1>9, <2>1, <2>2
  <2>3. CASE n # 0
    <3>1. CASE v.rev = n
      BY <2>1, <2>3, <3>1
    <3>2. CASE v.rev # n
      <4>1. Len(q) \in 1..Len(r) /\ Len(q) < i /\ r[Len(q)].rev = n
        BY <1>1, <1>10, <2>1, <2>3, <3>2
      <4> QED
        BY <2>1, <2>3, <4>1
    <3> QED
      BY <3>1, <3>2
  <2> QED
    BY <2>2, <2>3
<1>13. u # Nothing => u.rev = v.rev
  BY DEF Straight, InFlight
<1>14. InFlight(n, v, u, <<>>, r, t)
  BY <1>6, <1>11, <1>12, <1>13 DEF InFlight
<1> QED
  BY <1>3, <1>8, <1>14 DEF Straight, r

\* An update that gets no answer: it is the one in flight.
LEMMA StraightUnspoken ==
    ASSUME NEW v \in States, NEW u \in States \cup {Nothing},
           NEW out \in Seq(States), NEW q \in Seq(Answers), NEW s,
           Straight(0, v, u, out, q, s), out # <<>>, Head(out).rev = 0
    PROVE  Straight(0, v, u, Tail(out), q, s \cup {"unanswered"})
<1>1. /\ Head(out) \in States /\ Head(out) = out[1] /\ 1 \in 1..Len(out)
      /\ Len(Tail(out)) = Len(out) - 1 /\ Tail(out) \in Seq(States) /\ Len(out) \in Nat
  BY TailAt
<1>2. Tail(out) = <<>>
  BY <1>1, EmptyIff DEF Straight, Single
<1>3. u # Nothing /\ u = Head(out) /\ u.rev = v.rev
  BY <1>1 DEF Straight, InFlight
<1> QED
  BY <1>2, <1>3 DEF Straight, Single, InFlight, Silent

\* Another's change that the client knows already.
LEMMA StraightIgnored ==
    ASSUME NEW n \in Nat, NEW v \in States, NEW u \in States \cup {Nothing},
           NEW out \in Seq(States), NEW q \in Seq(Answers), q # <<>>, NEW s,
           Straight(n, v, u, out, q, s), ~IsAnswer(Head(q)), v.rev = Head(q).rev
    PROVE  Straight(n, v, u, out, Tail(q), s)
<1> DEFINE r == Tail(q)
<1>1. /\ Head(q) = q[1] /\ 1 \in 1..Len(q) /\ Len(q) \in Nat
      /\ \A i \in 1..Len(r) : i + 1 \in 1..Len(q) /\ r[i] = q[i + 1]
      /\ \A i \in 1..Len(q) : i = 1 \/ i - 1 \in 1..Len(r)
  BY TailAt
<1> HIDE DEF r
<1>2. \A i \in 1..Len(q) : i = 1 \/ (i - 1 \in 1..Len(r) /\ r[i - 1] = q[i])
  BY <1>1
<1>3. Clear(q) <=> Clear(r)
  BY <1>1, <1>2 DEF Clear
<1>4. Single(out, r)
  <2>1. ASSUME NEW i \in 1..Len(r), NEW j \in 1..Len(r), IsAnswer(r[i]), IsAnswer(r[j])
        PROVE  i = j
    <3>1. i + 1 = j + 1
      BY <1>1, <2>1 DEF Straight, Single
    <3> QED
      BY <3>1
  <2> QED
    BY <1>3, <2>1 DEF Straight, Single
<1>5. ASSUME NEW i \in 1..Len(r), r[i].type = "accepted"
      PROVE  /\ u # Nothing /\ r[i].rev = u.rev + 1 /\ r[i].content = u.content
             /\ \A j \in 1..Len(r) : j < i => r[j].rev <= u.rev
  <2>1. /\ u # Nothing /\ q[i + 1].rev = u.rev + 1 /\ q[i + 1].content = u.content
        /\ \A j \in 1..Len(q) : j < i + 1 => q[j].rev <= u.rev
    BY <1>1, <1>5 DEF Straight, InFlight
  <2>2. \A j \in 1..Len(r) : j < i => j + 1 < i + 1
    OBVIOUS
  <2> QED
    BY <1>1, <2>1, <2>2
<1>6. ASSUME NEW i \in 1..Len(r), r[i].type = "rejected"
      PROVE  v.rev = r[i].rev \/ \E j \in 1..Len(r) : j < i /\ r[j].rev = r[i].rev
  <2>1. \/ v.rev = q[i + 1].rev
        \/ \E j \in 1..Len(q) : j < i + 1 /\ q[j].rev = q[i + 1].rev
    BY <1>1, <1>6 DEF Straight, InFlight
  <2>2. \A j \in 1..Len(q) : j < i + 1 /\ j # 1 =>
            j - 1 \in 1..Len(r) /\ j - 1 < i /\ r[j - 1] = q[j]
    BY <1>2
  <2>3. CASE v.rev = q[i + 1].rev
    BY <1>1, <2>3
  <2>4. ASSUME NEW j \in 1..Len(q), j < i + 1, q[j].rev = q[i + 1].rev
        PROVE  v.rev = r[i].rev \/ \E k \in 1..Len(r) : k < i /\ r[k].rev = r[i].rev
    <3>1. CASE j = 1
      BY <1>1, <2>4, <3>1
    <3>2. CASE j # 1
      <4>1. j - 1 \in 1..Len(r) /\ j - 1 < i /\ r[j - 1].rev = r[i].rev
        BY <1>1, <2>2, <2>4, <3>2
      <4> QED
        BY <4>1
    <3> QED
      BY <3>1, <3>2
  <2> QED
    BY <2>1, <2>3, <2>4
<1> QED
  BY <1>3, <1>4, <1>5, <1>6 DEF Straight, InFlight, r

\* Another's change that is new to the client, which gives up its update: the
\* server has moved on, too.
LEMMA StraightApplied ==
    ASSUME NEW n \in Nat, NEW v \in States, NEW u \in States \cup {Nothing},
           NEW out \in Seq(States), NEW q \in Seq(Answers), q # <<>>, NEW s,
           Straight(n, v, u, out, q, s), Ordered(n, v, q, s),
           ~IsAnswer(Head(q)), v.rev < Head(q).rev, NEW t,
           NEW w \in States, w.rev = Head(q).rev
    PROVE  Straight(n, w, Nothing, out, Tail(q), t)
<1> DEFINE r == Tail(q)
<1>1. /\ Head(q) = q[1] /\ 1 \in 1..Len(q) /\ Len(q) \in Nat /\ Head(q) \in Answers
      /\ \A i \in 1..Len(r) : i + 1 \in 1..Len(q) /\ r[i] = q[i + 1]
      /\ \A i \in 1..Len(q) : i = 1 \/ i - 1 \in 1..Len(r)
  BY TailAt
<1> HIDE DEF r
<1>2. \A i \in 1..Len(q) : i = 1 \/ (i - 1 \in 1..Len(r) /\ r[i - 1] = q[i])
  BY <1>1
<1>3. Clear(q) => Clear(r)
  BY <1>1 DEF Clear
<1>4. Single(out, r)
  <2>1. ASSUME NEW i \in 1..Len(r), NEW j \in 1..Len(r), IsAnswer(r[i]), IsAnswer(r[j])
        PROVE  i = j
    <3>1. i + 1 = j + 1
      BY <1>1, <2>1 DEF Straight, Single
    <3> QED
      BY <3>1
  <2> QED
    BY <1>3, <2>1 DEF Straight, Single
<1>5. w.rev <= n /\ v.rev \in Nat /\ w.rev \in Nat
  BY <1>1, OrderedHead, AnswerFacts DEF IsAnswer
<1>6. \A i \in 1..Len(out) : out[i].rev < n
  <2>1. CASE u = Nothing
    BY <2>1 DEF Straight, InFlight
  <2>2. CASE u # Nothing
    <3>1. u.rev = v.rev /\ (out = <<u>> \/ out = <<>>)
      BY <2>2 DEF Straight, InFlight
    <3> QED
      BY <1>5, <3>1
  <2> QED
    BY <2>1, <2>2
<1>7. \A i \in 1..Len(r) : r[i].type # "accepted"
  <2> SUFFICES ASSUME NEW i \in 1..Len(r), r[i].type = "accepted" PROVE FALSE
    OBVIOUS
  <2>1. u # Nothing /\ \A j \in 1..Len(q) : j < i + 1 => q[j].rev <= u.rev
    BY <1>1 DEF Straight, InFlight
  <2>2. q[1].rev <= u.rev /\ u.rev = v.rev
    BY <1>1, <2>1 DEF Straight, InFlight
  <2> QED
    BY <1>1, <1>5, <2>2
<1>8. ASSUME NEW i \in 1..Len(r), r[i].type = "rejected"
      PROVE  w.rev = r[i].rev \/ \E j \in 1..Len(r) : j < i /\ r[j].rev = r[i].rev
  <2>1. \/ v.rev = q[i + 1].rev
        \/ \E j \in 1..Len(q) : j < i + 1 /\ q[j].rev = q[i + 1].rev
    BY <1>1, <1>8 DEF Straight, InFlight
  <2>2. w.rev <= q[i + 1].rev /\ q[i + 1].rev \in Nat
    BY <1>1, OrderedHead, ElementOfSeq, AnswerFacts
  <2>3. v.rev # q[i + 1].rev
    BY <1>5, <2>2
  <2>4. \A j \in 1..Len(q) : j < i + 1 /\ j # 1 =>
            j - 1 \in 1..Len(r) /\ j - 1 < i /\ r[j - 1] = q[j]
    BY <1>2
  <2>5. ASSUME NEW j \in 1..Len(q), j < i + 1, q[j].rev = q[i + 1].rev
        PROVE  w.rev = r[i].rev \/ \E k \in 1..Len(r) : k < i /\ r[k].rev = r[i].rev
    <3>1. CASE j = 1
      BY <1>1, <2>5, <3>1
    <3>2. CASE j # 1
      <4>1. j - 1 \in 1..Len(r) /\ j - 1 < i /\ r[j - 1].rev = r[i].rev
        BY <1>1, <2>4, <2>5, <3>2
      <4> QED
        BY <4>1
    <3> QED
      BY <3>1, <3>2
  <2> QED
    BY <2>1, <2>3, <2>5
<1> QED
  BY <1>4, <1>6, <1>7, <1>8 DEF Straight, InFlight, r

-----------------------------------------------------------------------------
(* Commits and refusals, as each player sees them.                         *)

LEMMA CommitsFacts ==
    ASSUME NEW cs \in Seq(Contents), NEW c \in Contents
    PROVE  /\ Len(cs) \in Nat /\ Append(cs, c) \in Seq(Contents)
           /\ Len(Append(cs, c)) = Len(cs) + 1
           /\ \A m : m.rev = Len(cs) + 1 /\ m.content = c => Names(Append(cs, c), m)
           /\ \A m : m.rev \in 0..Len(cs) /\ Names(cs, m) => Names(Append(cs, c), m)
<1>1. /\ Len(cs) \in Nat /\ Append(cs, c) \in Seq(Contents)
      /\ Len(Append(cs, c)) = Len(cs) + 1 /\ Append(cs, c)[Len(cs) + 1] = c
      /\ \A i \in 1..Len(cs) : Append(cs, c)[i] = cs[i]
  BY AppendedAt
<1>2. \A m : m.rev = Len(cs) + 1 /\ m.content = c => Names(Append(cs, c), m)
  BY <1>1 DEF Names
<1>3. ASSUME NEW m, m.rev \in 0..Len(cs), Names(cs, m) PROVE Names(Append(cs, c), m)
  <2>1. m.rev = 0 \/ m.rev \in 1..Len(cs)
    BY <1>1, <1>3
  <2> QED
    BY <1>1, <1>3, <2>1 DEF Names
<1> QED
  BY <1>1, <1>2, <1>3

LEMMA NamesCommit ==
    ASSUME NEW cs \in Seq(Contents), NEW c \in Contents, NEW v \in States,
           NEW u, NEW d, NEW g, NEW o, NEW q \in Seq(Answers),
           Truthful(cs, v, u, d, g, o, q), v.rev <= Len(cs),
           \A i \in 1..Len(q) : q[i].rev <= Len(cs),
           NEW m \in Answers, m.rev = Len(cs) + 1, m.content = c
    PROVE  /\ Truthful(Append(cs, c), v, u, d, g, o, q)
           /\ Truthful(Append(cs, c), v, u, d, g, o, Append(q, m))
<1>1. v.rev \in 0..Len(cs) /\ \A i \in 1..Len(q) : q[i].rev \in 0..Len(cs)
  BY CommitsFacts, AnswerFacts, ElementOfSeq
<1>2. Names(Append(cs, c), v) /\ \A i \in 1..Len(q) : Names(Append(cs, c), q[i])
  BY <1>1, CommitsFacts DEF Truthful
<1>3. Names(Append(cs, c), m)
  BY CommitsFacts
<1>4. \A i \in 1..Len(Append(q, m)) : Names(Append(cs, c), Append(q, m)[i])
  BY <1>2, <1>3, AppendedAt
<1> QED
  BY <1>2, <1>4 DEF Truthful

LEMMA HeardOf ==
    ASSUME NEW cs \in Seq(Contents), NEW v \in States, NEW q \in Seq(Answers), NEW s,
           Ordered(Len(cs), v, q, s), Unmisled(s)
    PROVE  v.rev <= Len(cs) /\ \A i \in 1..Len(q) : q[i].rev <= Len(cs)
BY DEF Ordered, MayName, Unmisled

\* Another's commit, or one by the server.
LEMMA FitsCommit ==
    ASSUME NEW l, NEW cs \in Seq(Contents), NEW v \in States, NEW u \in States \cup {Nothing},
           NEW d \in Contents \cup {Nothing}, NEW g \in Contents, NEW o \in Seq(Contents),
           NEW out \in Seq(States), NEW q \in Seq(Answers), NEW s \in SUBSET Strays,
           Fits(cs, l, v, u, d, g, o, out, q, s), NEW c \in Contents,
           NEW m \in Answers, m.type = "updated", m.rev = Len(cs) + 1, m.content = c
    PROVE  Fits(Append(cs, c), l, v, u, d, g, o, out, IF l = "in" THEN Append(q, m) ELSE q, s)
<1> DEFINE r == Append(q, m)
           ds == Append(cs, c)
<1>1. Len(cs) \in Nat /\ Len(ds) = Len(cs) + 1
  BY CommitsFacts
<1>2. v.rev \in Nat
  BY AnswerFacts
<1>3. l = "loading" => v.rev <= Len(cs) /\ v.rev <= Len(ds) /\ q = <<>>
  BY <1>1, <1>2 DEF Fits
<1>4. l = "in" => Ordered(Len(ds), v, r, s)
  BY <1>1, OrderedCommit DEF Fits
<1>5. l = "in" /\ "crossed" \notin s => Straight(Len(ds), v, u, out, r, s)
  BY <1>1, StraightOthers DEF Fits
<1>6. l = "loading" /\ Unmisled(s) => Truthful(ds, v, u, d, g, o, q)
  <2>1. l = "loading" => \A i \in 1..Len(q) : q[i].rev <= Len(cs)
    BY <1>3
  <2> QED
    BY <1>3, <2>1, NamesCommit DEF Fits
<1>7. l = "in" /\ Unmisled(s) => Truthful(ds, v, u, d, g, o, r)
  BY HeardOf, NamesCommit DEF Fits
<1> HIDE DEF r, ds
<1>8. CASE l = "in"
  BY <1>4, <1>5, <1>7, <1>8 DEF Fits, r, ds
<1>9. CASE l # "in"
  BY <1>3, <1>6, <1>9 DEF Fits, r, ds
<1> QED
  BY <1>8, <1>9

\* The commit of an update of one's own.
LEMMA FitsCommitOwn ==
    ASSUME NEW l, NEW cs \in Seq(Contents), NEW v \in States, NEW u \in States \cup {Nothing},
           NEW d \in Contents \cup {Nothing}, NEW g \in Contents, NEW o \in Seq(Contents),
           NEW out \in Seq(States), NEW q \in Seq(Answers), NEW s \in SUBSET Strays,
           Fits(cs, l, v, u, d, g, o, out, q, s), out # <<>>, Head(out).rev = Len(cs),
           NEW m \in Answers, m.type = "accepted", m.rev = Len(cs) + 1,
           m.content = Head(out).content
    PROVE  Fits(Append(cs, m.content), l, v, u, d, g, o, Tail(out),
                IF l = "in" THEN Append(q, m) ELSE q, s)
<1> DEFINE r == Append(q, m)
           ds == Append(cs, m.content)
<1>1. Len(cs) \in Nat /\ Len(ds) = Len(cs) + 1 /\ m.content \in Contents
  BY CommitsFacts, AnswerFacts
<1>2. l \notin {"away", "loading"}
  BY DEF Fits
<1>3. l = "in" => Ordered(Len(ds), v, r, s)
  BY <1>1, OrderedCommit DEF Fits
<1>4. l = "in" /\ "crossed" \notin s => Straight(Len(ds), v, u, Tail(out), r, s)
  BY <1>1, StraightCommit DEF Fits
<1>5. l = "in" /\ Unmisled(s) => Truthful(ds, v, u, d, g, o, r)
  BY <1>1, HeardOf, NamesCommit DEF Fits
<1> HIDE DEF r, ds
<1>6. CASE l = "in"
  BY <1>3, <1>4, <1>5, <1>6 DEF Fits, r, ds
<1>7. CASE l # "in"
  BY <1>2, <1>7 DEF Fits, r, ds
<1> QED
  BY <1>6, <1>7

LEMMA FitsRefusal ==
    ASSUME NEW l, NEW cs \in Seq(Contents), NEW v \in States, NEW u \in States \cup {Nothing},
           NEW d \in Contents \cup {Nothing}, NEW g \in Contents, NEW o \in Seq(Contents),
           NEW out \in Seq(States), NEW q \in Seq(Answers), NEW s \in SUBSET Strays,
           Fits(cs, l, v, u, d, g, o, out, q, s), out # <<>>,
           NEW m \in Answers, m.type = "rejected", 
           Len(cs) = 0 => m.rev = 1, Len(cs) # 0 => m.rev = Len(cs),
           Len(cs) # 0 => m.content = cs[Len(cs)]
    PROVE  Fits(cs, l, v, u, d, g, o, Tail(out), Append(q, m),
                IF Len(cs) = 0 THEN s \cup {"invented"} ELSE s)
<1> DEFINE r == Append(q, m)
           t == IF Len(cs) = 0 THEN s \cup {"invented"} ELSE s
<1>1. /\ Len(cs) \in Nat
      /\ "crossed" \in t <=> "crossed" \in s
      /\ "invented" \in s => "invented" \in t
      /\ Len(cs) = 0 => "invented" \in t
  BY LenProperties
<1>2. l \notin {"away", "loading"}
  BY DEF Fits
<1>3. ASSUME l = "in"
      PROVE  /\ Ordered(Len(cs), v, r, t)
             /\ "crossed" \notin t => Straight(Len(cs), v, u, Tail(out), r, t)
  <2>1. /\ Ordered(Len(cs), v, q, s)
        /\ "crossed" \notin t => Straight(Len(cs), v, u, out, q, s)
    BY <1>1, <1>3 DEF Fits
  <2> HIDE DEF t
  <2>2. Ordered(Len(cs), v, r, t)
    BY <1>1, <2>1, OrderedRefusal
  <2>3. Straight(Len(cs), v, u, out, q, s) => Straight(Len(cs), v, u, Tail(out), r, t)
    BY <1>1, <2>1, StraightRefusal
  <2> QED
    BY <2>1, <2>2, <2>3
<1>5. ASSUME l = "in", Unmisled(t) PROVE Truthful(cs, v, u, d, g, o, r)
  <2>1. Len(cs) # 0 /\ Unmisled(s)
    BY <1>5 DEF Unmisled
  <2>2. Names(cs, m)
    BY <1>1, <2>1 DEF Names
  <2>3. Truthful(cs, v, u, d, g, o, q)
    BY <1>5, <2>1 DEF Fits
  <2>4. \A i \in 1..Len(r) : Names(cs, r[i])
    BY <2>2, <2>3, AppendedAt DEF Truthful
  <2> QED
    BY <2>3, <2>4 DEF Truthful
<1> HIDE DEF r, t
<1> QED
  BY <1>1, <1>2, <1>3, <1>5 DEF Fits, r, t

\* No answer to the first update of an object.
LEMMA FitsUnspoken ==
    ASSUME NEW l, NEW cs \in Seq(Contents), NEW v \in States, NEW u \in States \cup {Nothing},
           NEW d \in Contents \cup {Nothing}, NEW g \in Contents, NEW o \in Seq(Contents),
           NEW out \in Seq(States), NEW q \in Seq(Answers), NEW s \in SUBSET Strays,
           Fits(cs, l, v, u, d, g, o, out, q, s),
           Len(cs) = 0, out # <<>>, Head(out).rev = 0
    PROVE  Fits(cs, l, v, u, d, g, o, Tail(out), q, s \cup {"unanswered"})
<1> DEFINE t == s \cup {"unanswered"}
<1>1. /\ "crossed" \in t <=> "crossed" \in s
      /\ "invented" \in t <=> "invented" \in s
      /\ Unmisled(t) <=> Unmisled(s)
  BY DEF Unmisled
<1>2. l \notin {"away", "loading"}
  BY DEF Fits
<1>3. ASSUME l = "in", "crossed" \notin s PROVE Straight(Len(cs), v, u, Tail(out), q, t)
  <2>1. Straight(0, v, u, out, q, s)
    BY <1>3 DEF Fits
  <2> QED
    BY <2>1, StraightUnspoken
<1>4. l = "in" => Ordered(Len(cs), v, q, t)
  BY <1>1 DEF Fits, Ordered, MayName
<1> HIDE DEF t
<1>5. Fits(cs, l, v, u, d, g, o, Tail(out), q, t)
  BY <1>1, <1>2, <1>3, <1>4 DEF Fits
<1> QED
  BY <1>5 DEF t

-----------------------------------------------------------------------------
(* What a client makes of an answer.                                       *)

LEMMA NamesTaken ==
    ASSUME NEW cs, NEW q \in Seq(Answers), q # <<>>, \A i \in 1..Len(q) : Names(cs, q[i])
    PROVE  Names(cs, Head(q)) /\ \A i \in 1..Len(Tail(q)) : Names(cs, Tail(q)[i])
BY TailAt

LEMMA FitsIgnored ==
    ASSUME NEW cs \in Seq(Contents), NEW v \in States, NEW u \in States \cup {Nothing},
           NEW d \in Contents \cup {Nothing}, NEW g \in Contents, NEW o \in Seq(Contents),
           NEW out \in Seq(States), NEW q \in Seq(Answers), NEW s \in SUBSET Strays,
           Fits(cs, "in", v, u, d, g, o, out, q, s), q # <<>>,
           Head(q).rev <= v.rev, Head(q).type = "updated" \/ u = Nothing
    PROVE  Fits(cs, "in", v, u, d, g, o, out, Tail(q), s)
<1>1. Len(cs) \in Nat /\ Head(q) \in Answers /\ Ordered(Len(cs), v, q, s)
  BY LenProperties, TailAt DEF Fits
<1>2. v.rev = Head(q).rev
  <2>1. v.rev <= Head(q).rev
    BY <1>1, OrderedHead
  <2>2. v.rev \in Nat /\ Head(q).rev \in Nat
    BY <1>1, AnswerFacts
  <2> QED
    BY <2>1, <2>2
<1>3. Ordered(Len(cs), v, Tail(q), s)
  BY <1>1, <1>2, OrderedTaken
<1>4. ASSUME "crossed" \notin s PROVE Straight(Len(cs), v, u, out, Tail(q), s)
  <2>1. Straight(Len(cs), v, u, out, q, s)
    BY <1>4 DEF Fits
  <2>2. CASE ~IsAnswer(Head(q))
    BY <1>1, <1>2, <2>1, <2>2, StraightIgnored
  <2>3. CASE IsAnswer(Head(q))
    <3>1. out = <<>> /\ Clear(Tail(q)) /\ u = Nothing /\ Tail(q) \in Seq(Answers)
      BY <1>1, <2>1, <2>3, HeadIsOnly, TailAt DEF Straight, IsAnswer
    <3> QED
      BY <1>1, <3>1, StraightClear
  <2> QED
    BY <2>2, <2>3
<1>5. Unmisled(s) => Truthful(cs, v, u, d, g, o, Tail(q))
  BY NamesTaken DEF Fits, Truthful
<1> QED
  BY <1>3, <1>4, <1>5 DEF Fits

LEMMA FitsApplied ==
    ASSUME NEW cs \in Seq(Contents), NEW v \in States, NEW u \in States \cup {Nothing},
           NEW d \in Contents \cup {Nothing}, NEW g \in Contents, NEW o \in Seq(Contents),
           NEW out \in Seq(States), NEW q \in Seq(Answers), NEW s \in SUBSET Strays,
           Fits(cs, "in", v, u, d, g, o, out, q, s), q # <<>>,
           \/ Head(q).type = "updated" /\ ~(v.rev # 0 /\ Head(q).rev <= v.rev)
           \/ Head(q).type = "rejected" /\ u # Nothing
    PROVE  Fits(cs, "in", State(Head(q).rev, Head(q).content), Nothing, Nothing,
                Head(q).content, o, out, Tail(q),
                IF o # <<>> THEN s \cup {"crossed"} ELSE s)
<1> DEFINE m == Head(q)
           w == State(m.rev, m.content)
           t == IF o # <<>> THEN s \cup {"crossed"} ELSE s
<1>1. /\ Len(cs) \in Nat /\ m \in Answers /\ Ordered(Len(cs), v, q, s)
      /\ Tail(q) \in Seq(Answers)
  BY LenProperties, TailAt DEF Fits
<1>2. w \in States /\ w.rev = m.rev /\ w.content = m.content
  BY <1>1, AnswerFacts DEF Answers
<1>3. Ordered(Len(cs), w, Tail(q), t)
  BY <1>1, <1>2, OrderedTaken
<1>4. ASSUME "crossed" \notin t PROVE Straight(Len(cs), w, Nothing, out, Tail(q), t)
  <2>1. Straight(Len(cs), v, u, out, q, s)
    BY <1>4 DEF Fits
  <2>2. CASE ~IsAnswer(m)
    <3>1. v.rev < m.rev
      BY <1>1, <2>2, OrderedHead, AnswerFacts DEF IsAnswer
    <3> QED
      BY <1>1, <1>2, <2>1, <2>2, <3>1, StraightApplied
  <2>3. CASE IsAnswer(m)
    <3>1. out = <<>> /\ Clear(Tail(q))
      BY <2>1, <2>3, HeadIsOnly DEF Straight
    <3> QED
      BY <1>1, <1>2, <3>1, StraightClear
  <2> QED
    BY <2>2, <2>3
<1>5. ASSUME Unmisled(t) PROVE Truthful(cs, w, Nothing, Nothing, m.content, o, Tail(q))
  <2>1. Unmisled(s) /\ o = <<>> /\ \A i \in 1..Len(q) : Names(cs, q[i])
    BY <1>5 DEF Fits, Truthful, Unmisled
  <2>2. Names(cs, m) /\ \A i \in 1..Len(Tail(q)) : Names(cs, Tail(q)[i])
    BY <2>1, NamesTaken
  <2> QED
    BY <1>2, <2>1, <2>2 DEF Truthful, Names, Shows, Wanted
<1> HIDE DEF m, w, t
<1> QED
  BY <1>3, <1>4, <1>5 DEF Fits, m, w, t

\* An update that is accepted, and the change behind it.
LEMMA FitsAccepted ==
    ASSUME NEW cs \in Seq(Contents), NEW v \in States, NEW u \in States \cup {Nothing},
           NEW d \in Contents \cup {Nothing}, NEW g \in Contents, NEW o \in Seq(Contents),
           NEW out \in Seq(States), NEW q \in Seq(Answers), NEW s \in SUBSET Strays,
           Fits(cs, "in", v, u, d, g, o, out, q, s), q # <<>>,
           NEW t \in SUBSET Strays, s \subseteq t,
           Head(q).type = "accepted", u # Nothing, Head(q).rev = u.rev + 1
    PROVE  LET w == State(Head(q).rev, u.content)
               x == State(Head(q).rev, d)
           IN  /\ d # Nothing /\ d # u.content =>
                      Fits(cs, "in", w, x, Nothing, g, o, Append(out, x), Tail(q), t)
               /\ d = Nothing \/ d = u.content =>
                      Fits(cs, "in", w, Nothing, Nothing, g, o, out, Tail(q), t)
<1> DEFINE m == Head(q)
           w == State(m.rev, u.content)
           x == State(m.rev, d)
<1>1. /\ Len(cs) \in Nat /\ m \in Answers /\ Ordered(Len(cs), v, q, s)
      /\ Tail(q) \in Seq(Answers) /\ IsAnswer(m) /\ m = q[1] /\ 1 \in 1..Len(q)
  BY LenProperties, TailAt DEF Fits, IsAnswer
<1> HIDE DEF m
<1>9. m.rev \in 0..MaxRevision
  BY <1>1 DEF Answers
<1>2. w \in States /\ w.rev = m.rev /\ w.content = u.content
  BY <1>9, AnswerFacts
<1>3. d # Nothing => x \in States /\ x.rev = m.rev /\ x.content = d /\ x # Nothing
  BY <1>9, AnswerFacts
<1> HIDE DEF w, x
<1>4. Ordered(Len(cs), w, Tail(q), t)
  BY <1>1, <1>2, OrderedTaken DEF m
<1>5. ASSUME "crossed" \notin t
      PROVE  /\ Straight(Len(cs), w, Nothing, out, Tail(q), t)
             /\ d # Nothing => Straight(Len(cs), w, x, Append(out, x), Tail(q), t)
  <2>1. out = <<>> /\ Clear(Tail(q))
    BY <1>1, <1>5, HeadIsOnly DEF Fits, Straight, m
  <2>2. d # Nothing => Append(out, x) = <<x>>
    BY <2>1
  <2> QED
    BY <1>1, <1>2, <1>3, <2>1, <2>2, StraightClear
<1>6. ASSUME Unmisled(t)
      PROVE  /\ d # Nothing => Truthful(cs, w, x, Nothing, g, o, Tail(q))
             /\ d = Nothing \/ d = u.content => Truthful(cs, w, Nothing, Nothing, g, o, Tail(q))
  <2>1. Truthful(cs, v, u, d, g, o, q) /\ Straight(Len(cs), v, u, out, q, s)
    BY <1>6 DEF Fits, Unmisled
  <2>2. m.content = u.content
    BY <1>1, <2>1 DEF Straight, InFlight, m
  <2>7. Names(cs, m) /\ \A i \in 1..Len(Tail(q)) : Names(cs, Tail(q)[i])
    BY <2>1, NamesTaken DEF Truthful, m
  <2>3. Names(cs, w)
    BY <1>2, <2>2, <2>7 DEF Names
  <2>4. (o # <<>> => o = <<g>>) /\ (o = <<>> => g = IF d # Nothing THEN d ELSE u.content)
    BY <2>1 DEF Truthful, Shows, Wanted
  <2>5. d # Nothing => Shows(w, x, Nothing, g, o)
    BY <1>3, <2>4 DEF Shows, Wanted
  <2>6. d = Nothing \/ d = u.content => Shows(w, Nothing, Nothing, g, o)
    BY <1>2, <2>4 DEF Shows, Wanted
  <2> QED
    BY <2>3, <2>5, <2>6, <2>7 DEF Truthful
<1>7. d # Nothing => Fits(cs, "in", w, x, Nothing, g, o, Append(out, x), Tail(q), t)
  BY <1>4, <1>5, <1>6 DEF Fits
<1>8. d = Nothing \/ d = u.content => Fits(cs, "in", w, Nothing, Nothing, g, o, out, Tail(q), t)
  BY <1>4, <1>5, <1>6 DEF Fits
<1> QED
  BY <1>7, <1>8 DEF m, w, x

\* Only a client that was crossed closes.
LEMMA FitsClosed ==
    ASSUME NEW cs \in Seq(Contents), NEW v \in States, NEW u \in States \cup {Nothing},
           NEW d \in Contents \cup {Nothing}, NEW g \in Contents, NEW o \in Seq(Contents),
           NEW out \in Seq(States), NEW q \in Seq(Answers), NEW s \in SUBSET Strays,
           Fits(cs, "in", v, u, d, g, o, out, q, s), q # <<>>,
           \/ /\ Head(q).type \in {"accepted", "rejected"} /\ u = Nothing
              /\ ~(v.rev # 0 /\ v.rev >= Head(q).rev)
           \/ Head(q).type = "accepted" /\ u # Nothing /\ Head(q).rev # u.rev + 1
    PROVE  Fits(cs, "closing", v, u, d, g, o, out, Tail(q), s)
<1>1. "crossed" \in s
  <2> SUFFICES ASSUME "crossed" \notin s PROVE FALSE
    OBVIOUS
  <2>1. /\ Head(q) = q[1] /\ 1 \in 1..Len(q) /\ ~(\E j \in 1..Len(q) : j < 1)
        /\ Len(cs) \in Nat /\ Head(q) \in Answers
    BY TailAt, LenProperties
  <2>2. InFlight(Len(cs), v, u, out, q, s)
    BY DEF Fits, Straight
  <2>3. 1 <= Head(q).rev /\ Head(q).rev \in Nat
    BY <2>1, OrderedHead, AnswerFacts DEF Fits
  <2> QED
    BY <2>1, <2>2, <2>3 DEF InFlight
<1> QED
  BY <1>1 DEF Fits

-----------------------------------------------------------------------------
(* The steps.                                                              *)

LEMMA InvFacts ==
    ASSUME IInv, NEW p \in Players
    PROVE  /\ Types /\ Agrees(p)
           /\ commits \in Seq(Contents) /\ Revision \in Nat /\ Revision <= MaxRevision
           /\ view[p] \in States /\ pending[p] \in States \cup {Nothing}
           /\ deferred[p] \in Contents \cup {Nothing} /\ game[p] \in Contents
           /\ seen[p] \in Seq(Contents) /\ up[p] \in Seq(States) /\ down[p] \in Seq(Answers)
           /\ strayed[p] \in SUBSET Strays
           /\ Len(up[p]) <= MaxWire /\ Len(down[p]) <= MaxWire
BY LenProperties DEF IInv, Types, Revision

LEMMA Fields ==
    ASSUME IInv, NEW p \in Players
    PROVE  /\ link[p] \in {"away", "loading", "in", "closing"} /\ view[p] \in States
           /\ pending[p] \in States \cup {Nothing} /\ deferred[p] \in Contents \cup {Nothing}
           /\ game[p] \in Contents /\ seen[p] \in Seq(Contents) /\ up[p] \in Seq(States)
           /\ strayed[p] \in SUBSET Strays /\ Len(up[p]) <= MaxWire
BY DEF IInv, Types

LEMMA CurrentFacts ==
    ASSUME IInv
    PROVE  /\ Current \in States /\ Current.rev = Revision /\ Names(commits, Current)
           /\ Revision \in Nat /\ Revision # 0 => Current.content = commits[Revision]
<1>1. commits \in Seq(Contents) /\ Revision \in 0..MaxRevision
  BY LenProperties DEF IInv, Types, Revision
<1>2. Revision # 0 => commits[Revision] \in Contents
  BY <1>1, ElementOfSeq DEF Revision
<1> DEFINE c == IF Revision = 0 THEN Plain ELSE commits[Revision]
<1>3. c \in Contents
  BY <1>2, WorldAssumption
<1>4. Current = State(Revision, c)
  BY DEF Current
<1>5. Current \in States /\ Current.rev = Revision /\ Current.content = c
  <2> HIDE DEF c
  <2> QED
    BY <1>1, <1>3, <1>4, AnswerFacts
<1> QED
  BY <1>1, <1>5 DEF Names

\* A step that concerns one player.
LEMMA OnlyOne ==
    ASSUME IInv, NEW p \in Players, UNCHANGED <<commits, barred>>,
           NEW l \in {"away", "loading", "in", "closing"}, NEW v \in States,
           NEW u \in States \cup {Nothing}, NEW d \in Contents \cup {Nothing},
           NEW g \in Contents, NEW o \in Seq(Contents), NEW out \in Seq(States),
           NEW q \in Seq(Answers), NEW s \in SUBSET Strays,
           Len(out) <= MaxWire, Len(q) <= MaxWire,
           link' = [link EXCEPT ![p] = l], view' = [view EXCEPT ![p] = v],
           pending' = [pending EXCEPT ![p] = u], deferred' = [deferred EXCEPT ![p] = d],
           game' = [game EXCEPT ![p] = g], seen' = [seen EXCEPT ![p] = o],
           up' = [up EXCEPT ![p] = out], down' = [down EXCEPT ![p] = q],
           strayed' = [strayed EXCEPT ![p] = s],
           Fits(commits, l, v, u, d, g, o, out, q, s)
    PROVE  IInv'
<1>1. Types
  BY DEF IInv
<1>2. Types'
  BY <1>1 DEF Types
<1>3. Agrees(p)'
  BY <1>1 DEF Types, Agrees
<1>4. ASSUME NEW r \in Players, r # p PROVE Agrees(r)'
  <2>1. /\ link'[r] = link[r] /\ view'[r] = view[r] /\ pending'[r] = pending[r]
        /\ deferred'[r] = deferred[r] /\ game'[r] = game[r] /\ seen'[r] = seen[r]
        /\ up'[r] = up[r] /\ down'[r] = down[r] /\ strayed'[r] = strayed[r]
    BY <1>1, <1>4 DEF Types
  <2>2. Agrees(r)
    BY DEF IInv
  <2> QED
    BY <2>1, <2>2 DEF Agrees
<1> QED
  BY <1>2, <1>3, <1>4 DEF IInv

\* What a step leaves alone, in the form OnlyOne asks for.
LEMMA Same ==
    ASSUME IInv, NEW p \in Players
    PROVE  /\ link = [link EXCEPT ![p] = link[p]] /\ view = [view EXCEPT ![p] = view[p]]
           /\ pending = [pending EXCEPT ![p] = pending[p]]
           /\ deferred = [deferred EXCEPT ![p] = deferred[p]]
           /\ game = [game EXCEPT ![p] = game[p]] /\ seen = [seen EXCEPT ![p] = seen[p]]
           /\ up = [up EXCEPT ![p] = up[p]] /\ down = [down EXCEPT ![p] = down[p]]
           /\ strayed = [strayed EXCEPT ![p] = strayed[p]]
BY DEF IInv, Types

LEMMA LoadKeeps == ASSUME IInv, NEW p \in Players, Load(p) PROVE IInv'
<1>1. up[p] = <<>> /\ down[p] = <<>>
  BY InvFacts DEF Load, Agrees, Fits
<1> DEFINE v == State(0, Plain)
<1>2. v \in States /\ v.rev = 0 /\ v.content = Plain /\ 0 <= Len(commits)
  BY AnswerFacts, WorldAssumption, InvFacts DEF Revision
<1>3. PICK c \in Contents : game' = [game EXCEPT ![p] = c]
  BY DEF Load
<1>4. /\ link' = [link EXCEPT ![p] = "loading"] /\ view' = [view EXCEPT ![p] = v]
      /\ pending' = [pending EXCEPT ![p] = Nothing]
      /\ deferred' = [deferred EXCEPT ![p] = Nothing]
      /\ seen' = [seen EXCEPT ![p] = <<>>]
      /\ up' = [up EXCEPT ![p] = up[p]] /\ down' = [down EXCEPT ![p] = down[p]]
      /\ strayed' = [strayed EXCEPT ![p] = {}]
      /\ UNCHANGED <<commits, barred>>
  BY Same DEF Load
<1> HIDE DEF v
<1>5. Fits(commits, "loading", v, Nothing, Nothing, c, <<>>, up[p], down[p], {})
  BY <1>1, <1>2 DEF Fits, Truthful, Names, Shows
<1>6. <<>> \in Seq(Contents) /\ {} \in SUBSET Strays
  OBVIOUS
<1> QED
  BY <1>2, <1>3, <1>4, <1>5, <1>6, InvFacts, OnlyOne, ZenonT(60)

LEMMA EnterKeeps == ASSUME IInv, NEW p \in Players, Enter(p) PROVE IInv'
<1> DEFINE m == [type |-> "updated", rev |-> Revision, content |-> Current.content]
           q == IF Revision = 0 THEN <<>> ELSE <<m>>
           v == view[p]
<1>1. /\ link[p] = "loading" /\ up[p] = <<>> /\ pending[p] = Nothing /\ strayed[p] = {}
      /\ deferred[p] = Nothing /\ v.rev <= Revision /\ v \in States
      /\ Truthful(commits, v, pending[p], deferred[p], game[p], seen[p], down[p])
  BY InvFacts DEF Enter, Agrees, Fits, Revision, Unmisled
<1>2. /\ Revision \in Nat /\ Revision <= MaxRevision
      /\ Current.content \in Contents /\ Names(commits, Current) /\ Current.rev = Revision
  BY CurrentFacts, AnswerFacts, InvFacts
<1>3. m \in Answers /\ Names(commits, m) /\ m.type = "updated" /\ m.rev = Revision
  BY <1>2 DEF Answers, Names
<1>4. /\ link' = [link EXCEPT ![p] = "in"] /\ view' = [view EXCEPT ![p] = v]
      /\ pending' = [pending EXCEPT ![p] = pending[p]]
      /\ deferred' = [deferred EXCEPT ![p] = deferred[p]]
      /\ game' = [game EXCEPT ![p] = game[p]] /\ seen' = [seen EXCEPT ![p] = seen[p]]
      /\ up' = [up EXCEPT ![p] = up[p]] /\ down' = [down EXCEPT ![p] = q]
      /\ strayed' = [strayed EXCEPT ![p] = strayed[p]]
      /\ UNCHANGED <<commits, barred>>
  BY Same DEF Enter, client
<1> HIDE DEF m
<1>5. q \in Seq(Answers) /\ Len(q) <= MaxWire
  BY <1>3, WorldAssumption
<1>6. \A i \in 1..Len(q) : q[i] = m /\ i = 1 /\ Revision # 0
  OBVIOUS
<1>7. q = <<>> <=> Revision = 0
  OBVIOUS
<1>8. Revision # 0 => q[Len(q)] = m
  OBVIOUS
<1> HIDE DEF q, v
<1>9. v.rev \in Nat
  BY <1>1, AnswerFacts
<1>10. Ordered(Revision, v, q, strayed[p])
  <2>1. MayName(Revision, v.rev, strayed[p]) /\ MayName(Revision, m.rev, strayed[p])
    BY <1>1, <1>2, <1>3 DEF MayName
  <2>2. \A i \in 1..Len(q) : /\ 1 <= q[i].rev /\ v.rev <= q[i].rev
                             /\ MayName(Revision, q[i].rev, strayed[p]) /\ q[i].rev <= Revision
    BY <1>1, <1>2, <1>3, <1>6, <2>1
  <2>3. \A i, j \in 1..Len(q) : ~(i < j)
    BY <1>6
  <2>4. Revision # 0 => IF q = <<>> THEN v.rev = Revision ELSE q[Len(q)].rev = Revision
    BY <1>3, <1>7, <1>8
  <2> QED
    BY <2>1, <2>2, <2>3, <2>4 DEF Ordered
<1>11. Straight(Revision, v, Nothing, <<>>, q, strayed[p])
  <2>1. Clear(q)
    BY <1>3, <1>6 DEF Clear, IsAnswer
  <2> QED
    BY <1>1, <1>2, <1>5, <2>1, StraightClear
<1>12. Truthful(commits, v, pending[p], deferred[p], game[p], seen[p], q)
  BY <1>1, <1>3, <1>6 DEF Truthful
<1>13. Fits(commits, "in", v, pending[p], deferred[p], game[p], seen[p], up[p], q, strayed[p])
  BY <1>1, <1>10, <1>11, <1>12 DEF Fits, Revision
<1>14. /\ pending[p] \in States \cup {Nothing} /\ deferred[p] \in Contents \cup {Nothing}
       /\ game[p] \in Contents /\ seen[p] \in Seq(Contents) /\ up[p] \in Seq(States)
       /\ strayed[p] \in SUBSET Strays /\ Len(up[p]) <= MaxWire /\ v \in States
  BY <1>1, InvFacts
<1> QED
  BY <1>4, <1>5, <1>13, <1>14, OnlyOne, ZenonT(60)

LEMMA LeaveKeeps == ASSUME IInv, NEW p \in Players, Leave(p) PROVE IInv'
<1>1. /\ link' = [link EXCEPT ![p] = "away"] /\ view' = [view EXCEPT ![p] = view[p]]
      /\ pending' = [pending EXCEPT ![p] = pending[p]]
      /\ deferred' = [deferred EXCEPT ![p] = deferred[p]]
      /\ game' = [game EXCEPT ![p] = game[p]] /\ seen' = [seen EXCEPT ![p] = seen[p]]
      /\ up' = [up EXCEPT ![p] = <<>>] /\ down' = [down EXCEPT ![p] = <<>>]
      /\ strayed' = [strayed EXCEPT ![p] = strayed[p]]
      /\ UNCHANGED <<commits, barred>>
  BY Same DEF Leave, client
<1>2. Fits(commits, "away", view[p], pending[p], deferred[p], game[p], seen[p],
           <<>>, <<>>, strayed[p])
  BY DEF Fits
<1>3. /\ <<>> \in Seq(States) /\ <<>> \in Seq(Answers) /\ Len(<<>>) <= MaxWire
  BY WorldAssumption
<1> QED
  BY <1>1, <1>2, <1>3, InvFacts, OnlyOne, ZenonT(60)

LEMMA ActKeeps == ASSUME IInv, NEW p \in Players, Act(p) PROVE IInv'
<1>1. PICK c \in Contents : /\ game' = [game EXCEPT ![p] = c]
                            /\ seen' = [seen EXCEPT ![p] = <<c>>]
  BY DEF Act
<1>2. /\ link' = [link EXCEPT ![p] = link[p]] /\ view' = [view EXCEPT ![p] = view[p]]
      /\ pending' = [pending EXCEPT ![p] = pending[p]]
      /\ deferred' = [deferred EXCEPT ![p] = deferred[p]]
      /\ up' = [up EXCEPT ![p] = up[p]] /\ down' = [down EXCEPT ![p] = down[p]]
      /\ strayed' = [strayed EXCEPT ![p] = strayed[p]]
      /\ UNCHANGED <<commits, barred>>
  BY Same DEF Act
<1>3. Fits(commits, link[p], view[p], pending[p], deferred[p], c, <<c>>, up[p], down[p], strayed[p])
  BY InvFacts DEF Agrees, Fits, Truthful, Shows
<1>4. <<c>> \in Seq(Contents) /\ link[p] \in {"away", "loading", "in", "closing"}
  BY InvFacts DEF Types
<1> QED
  BY <1>1, <1>2, <1>3, <1>4, InvFacts, OnlyOne, ZenonT(60)

LEMMA NothingUnanswered ==
    ASSUME IInv, NEW p \in Players, ~(Unanswered(p) > 0)
    PROVE  up[p] = <<>> /\ Clear(down[p])
<1> DEFINE A == {i \in DOMAIN down[p] : down[p][i].type # "updated"}
<1>1. /\ down[p] \in Seq(Answers) /\ up[p] \in Seq(States)
      /\ Len(down[p]) \in Nat /\ Len(up[p]) \in Nat /\ DOMAIN down[p] = 1..Len(down[p])
  BY InvFacts, LenProperties
<1>2. IsFiniteSet(A)
  <2>1. IsFiniteSet(1..Len(down[p])) /\ A \subseteq 1..Len(down[p])
    BY <1>1, FS_Interval
  <2> QED
    BY <2>1, FS_Subset
<1>3. Cardinality(A) \in Nat /\ (Cardinality(A) = 0 => A = {})
  BY <1>2, FS_CardinalityType, FS_EmptySet
<1>4. Unanswered(p) = Len(up[p]) + Cardinality(A)
  BY DEF Unanswered
<1>5. Len(up[p]) = 0 /\ A = {}
  <2> HIDE DEF A
  <2> QED
    BY <1>1, <1>3, <1>4
<1>6. \A i \in 1..Len(down[p]) : down[p][i].type = "updated"
  BY <1>1, <1>5
<1>7. Clear(down[p])
  BY <1>6 DEF Clear, IsAnswer
<1> QED
  BY <1>1, <1>5, <1>7, EmptyIff

\* The three things that become of a change that was noted.
LEMMA PollKeeps == ASSUME IInv, NEW p \in Players, Poll(p) PROVE IInv'
<1> DEFINE c == Head(seen[p])
           x == State(view[p].rev, c)
<1>1. /\ link[p] = "in" /\ seen[p] # <<>> /\ seen' = [seen EXCEPT ![p] = <<>>]
      /\ link' = [link EXCEPT ![p] = "in"] /\ view' = [view EXCEPT ![p] = view[p]]
      /\ game' = [game EXCEPT ![p] = game[p]] /\ down' = [down EXCEPT ![p] = down[p]]
      /\ UNCHANGED <<commits, barred>>
  BY Same DEF Poll
<1>2. c \in Contents /\ c # Nothing
  BY <1>1, InvFacts, HeadTailProperties, WorldAssumption
<1>3. /\ view[p] \in States /\ game[p] \in Contents /\ <<>> \in Seq(Contents)
      /\ up[p] \in Seq(States) /\ down[p] \in Seq(Answers) /\ strayed[p] \in SUBSET Strays
      /\ pending[p] \in States \cup {Nothing} /\ deferred[p] \in Contents \cup {Nothing}
      /\ Len(up[p]) <= MaxWire /\ Len(down[p]) <= MaxWire
  BY InvFacts
<1>4. /\ Fits(commits, "in", view[p], pending[p], deferred[p], game[p], seen[p], up[p],
              down[p], strayed[p])
      /\ Unmisled(strayed[p]) => c = game[p]
  <2>1. Agrees(p)
    BY InvFacts
  <2>2. Fits(commits, "in", view[p], pending[p], deferred[p], game[p], seen[p], up[p],
             down[p], strayed[p])
    BY <1>1, <2>1 DEF Agrees
  <2>3. Unmisled(strayed[p]) => seen[p] = <<game[p]>>
    BY <1>1, <2>2 DEF Fits, Truthful, Shows
  <2> QED
    BY <2>2, <2>3
<1>5. CASE /\ pending[p] # Nothing
           /\ deferred' = [deferred EXCEPT ![p] = c]
           /\ UNCHANGED <<pending, up, strayed>>
  <2>1. /\ pending' = [pending EXCEPT ![p] = pending[p]] /\ up' = [up EXCEPT ![p] = up[p]]
        /\ strayed' = [strayed EXCEPT ![p] = strayed[p]]
        /\ deferred' = [deferred EXCEPT ![p] = c]
    BY <1>5, Same
  <2> HIDE DEF c
  <2>2. Fits(commits, "in", view[p], pending[p], c, game[p], <<>>, up[p], down[p], strayed[p])
    BY <1>2, <1>4, <1>5 DEF Fits, Truthful, Shows, Wanted
  <2> QED
    BY <1>1, <1>2, <1>3, <2>1, <2>2, OnlyOne, ZenonT(60)
<1>6. CASE /\ pending[p] = Nothing
           /\ view[p].rev # 0 /\ view[p].content = c
           /\ UNCHANGED <<pending, deferred, up, strayed>>
  <2>1. /\ pending' = [pending EXCEPT ![p] = pending[p]] /\ up' = [up EXCEPT ![p] = up[p]]
        /\ strayed' = [strayed EXCEPT ![p] = strayed[p]]
        /\ deferred' = [deferred EXCEPT ![p] = deferred[p]]
    BY <1>6, Same
  <2> HIDE DEF c
  <2>2. ASSUME Unmisled(strayed[p])
        PROVE  Truthful(commits, view[p], pending[p], deferred[p], game[p], <<>>, down[p])
    <3>1. Truthful(commits, view[p], pending[p], deferred[p], game[p], seen[p], down[p])
      BY <1>4, <2>2 DEF Fits
    <3>2. deferred[p] = Nothing /\ game[p] = view[p].content
      BY <1>4, <1>6, <2>2 DEF Fits
    <3>3. Shows(view[p], pending[p], deferred[p], game[p], <<>>)
      BY <1>6, <3>2 DEF Shows, Wanted
    <3> QED
      BY <3>1, <3>3 DEF Truthful
  <2>3. Fits(commits, "in", view[p], pending[p], deferred[p], game[p], <<>>, up[p], down[p],
             strayed[p])
    BY <1>4, <2>2 DEF Fits
  <2> QED
    BY <1>1, <1>3, <2>1, <2>3, OnlyOne, ZenonT(60)
<1>7. CASE /\ pending[p] = Nothing
           /\ Len(up[p]) < MaxWire
           /\ pending' = [pending EXCEPT ![p] = State(view[p].rev, c)]
           /\ up' = [up EXCEPT ![p] = Append(@, State(view[p].rev, c))]
           /\ Crossed(p, Unanswered(p) > 0)
           /\ UNCHANGED deferred
  <2> DEFINE t == IF Unanswered(p) > 0 THEN strayed[p] \cup {"crossed"} ELSE strayed[p]
  <2>1. /\ pending' = [pending EXCEPT ![p] = x] /\ up' = [up EXCEPT ![p] = Append(up[p], x)]
        /\ strayed' = [strayed EXCEPT ![p] = t]
        /\ deferred' = [deferred EXCEPT ![p] = deferred[p]]
    BY <1>7, Same DEF Crossed
  <2>2. view[p].rev \in 0..MaxRevision
    BY <1>3 DEF States
  <2> HIDE DEF c
  <2>3. x \in States /\ x.rev = view[p].rev /\ x.content = c /\ x # Nothing
    BY <1>2, <2>2, AnswerFacts
  <2> HIDE DEF x
  <2>4. /\ t \in SUBSET Strays /\ strayed[p] \subseteq t
        /\ "invented" \in strayed[p] => "invented" \in t
    BY <1>3 DEF Strays
  <2>5. "crossed" \notin t => up[p] = <<>> /\ Clear(down[p])
    BY NothingUnanswered
  <2> HIDE DEF t
  <2>6. Append(up[p], x) \in Seq(States) /\ Len(Append(up[p], x)) <= MaxWire
    BY <1>3, <1>7, <2>3, AppendedAt, WorldAssumption
  <2>7. ASSUME "crossed" \notin t
        PROVE  Straight(Len(commits), view[p], x, Append(up[p], x), down[p], t)
    <3>1. Append(up[p], x) = <<x>> /\ Clear(down[p])
      BY <2>5, <2>7, FirstAppended
    <3>2. Len(commits) \in Nat
      BY InvFacts DEF Revision
    <3> QED
      BY <1>3, <2>3, <3>1, <3>2, StraightClear
  <2>8. ASSUME Unmisled(t)
        PROVE  Truthful(commits, view[p], x, deferred[p], game[p], <<>>, down[p])
    <3>1. Unmisled(strayed[p]) /\ deferred[p] = Nothing
      BY <1>4, <1>7, <2>4, <2>8 DEF Fits, Unmisled
    <3> QED
      BY <1>4, <2>3, <3>1 DEF Fits, Truthful, Shows, Wanted
  <2>9. Ordered(Len(commits), view[p], down[p], t)
    BY <1>4, <2>4 DEF Fits, Ordered, MayName
  <2>10. Fits(commits, "in", view[p], x, deferred[p], game[p], <<>>, Append(up[p], x), down[p], t)
    BY <2>3, <2>7, <2>8, <2>9 DEF Fits
  <2> QED
    BY <1>1, <1>3, <2>1, <2>3, <2>4, <2>6, <2>10, OnlyOne, ZenonT(60)
<1>8. Poll(p) => \/ /\ pending[p] # Nothing
                    /\ deferred' = [deferred EXCEPT ![p] = c]
                    /\ UNCHANGED <<pending, up, strayed>>
                 \/ /\ pending[p] = Nothing
                    /\ view[p].rev # 0 /\ view[p].content = c
                    /\ UNCHANGED <<pending, deferred, up, strayed>>
                 \/ /\ pending[p] = Nothing
                    /\ Len(up[p]) < MaxWire
                    /\ pending' = [pending EXCEPT ![p] = State(view[p].rev, c)]
                    /\ up' = [up EXCEPT ![p] = Append(@, State(view[p].rev, c))]
                    /\ Crossed(p, Unanswered(p) > 0)
                    /\ UNCHANGED deferred
  BY DEF Poll
<1> QED
  BY <1>5, <1>6, <1>7, <1>8

\* What Receive has in common with all that follows of the message.
LEMMA ReceiveFacts ==
    ASSUME IInv, NEW p \in Players, Receive(p)
    PROVE  /\ link[p] = "in" /\ down[p] # <<>> /\ Head(down[p]) \in Answers
           /\ Fits(commits, "in", view[p], pending[p], deferred[p], game[p], seen[p], up[p],
                   down[p], strayed[p])
           /\ down' = [down EXCEPT ![p] = Tail(down[p])] /\ Tail(down[p]) \in Seq(Answers)
           /\ Len(Tail(down[p])) <= MaxWire
           /\ UNCHANGED <<commits, barred>>
<1>1. link[p] = "in" /\ down[p] # <<>>
  BY DEF Receive
<1>2. down[p] \in Seq(Answers) /\ Len(down[p]) <= MaxWire /\ Agrees(p)
  BY InvFacts
<1>3. /\ Head(down[p]) \in Answers /\ Tail(down[p]) \in Seq(Answers)
      /\ Len(down[p]) \in Nat /\ Len(Tail(down[p])) = Len(down[p]) - 1
  BY <1>1, <1>2, TailAt
<1>4. Len(Tail(down[p])) <= MaxWire
  BY <1>2, <1>3, WorldAssumption
<1> QED
  BY <1>1, <1>2, <1>3, <1>4 DEF Receive, Agrees

LEMMA IgnoredKeeps ==
    ASSUME IInv, NEW p \in Players, Receive(p), Ignored,
           Head(down[p]).rev <= view[p].rev,
           Head(down[p]).type = "updated" \/ pending[p] = Nothing
    PROVE  IInv'
<1>1. /\ link' = [link EXCEPT ![p] = "in"] /\ view' = [view EXCEPT ![p] = view[p]]
      /\ pending' = [pending EXCEPT ![p] = pending[p]]
      /\ deferred' = [deferred EXCEPT ![p] = deferred[p]]
      /\ game' = [game EXCEPT ![p] = game[p]] /\ seen' = [seen EXCEPT ![p] = seen[p]]
      /\ up' = [up EXCEPT ![p] = up[p]] /\ strayed' = [strayed EXCEPT ![p] = strayed[p]]
  BY Same, ReceiveFacts DEF Ignored, client
<1>2. Fits(commits, "in", view[p], pending[p], deferred[p], game[p], seen[p], up[p],
           Tail(down[p]), strayed[p])
  BY ReceiveFacts, InvFacts, FitsIgnored
<1>3. UNCHANGED <<commits, barred>> /\ down' = [down EXCEPT ![p] = Tail(down[p])]
      /\ Tail(down[p]) \in Seq(Answers) /\ Len(Tail(down[p])) <= MaxWire
  BY ReceiveFacts
<1>4. /\ view[p] \in States
      /\ pending[p] \in States \cup {Nothing} /\ deferred[p] \in Contents \cup {Nothing}
      /\ game[p] \in Contents /\ seen[p] \in Seq(Contents) /\ up[p] \in Seq(States)
      /\ strayed[p] \in SUBSET Strays /\ Len(up[p]) <= MaxWire
  BY Fields
<1> QED
  BY <1>1, <1>2, <1>3, <1>4, OnlyOne, ZenonT(60)

LEMMA AppliedKeeps ==
    ASSUME IInv, NEW p \in Players, Receive(p), Applied(p, Head(down[p])),
           \/ /\ Head(down[p]).type = "updated"
              /\ ~(view[p].rev # 0 /\ Head(down[p]).rev <= view[p].rev)
           \/ Head(down[p]).type = "rejected" /\ pending[p] # Nothing
    PROVE  IInv'
<1> DEFINE m == Head(down[p])
           w == State(m.rev, m.content)
           t == IF seen[p] # <<>> THEN strayed[p] \cup {"crossed"} ELSE strayed[p]
<1>1. /\ link' = [link EXCEPT ![p] = "in"] /\ view' = [view EXCEPT ![p] = w]
      /\ pending' = [pending EXCEPT ![p] = Nothing]
      /\ deferred' = [deferred EXCEPT ![p] = Nothing]
      /\ game' = [game EXCEPT ![p] = m.content] /\ seen' = [seen EXCEPT ![p] = seen[p]]
      /\ up' = [up EXCEPT ![p] = up[p]] /\ strayed' = [strayed EXCEPT ![p] = t]
  BY Same, ReceiveFacts DEF Applied, Crossed
<1>2. Fits(commits, "in", w, Nothing, Nothing, m.content, seen[p], up[p], Tail(down[p]), t)
  BY ReceiveFacts, InvFacts, FitsApplied
<1>3. UNCHANGED <<commits, barred>> /\ down' = [down EXCEPT ![p] = Tail(down[p])]
      /\ Tail(down[p]) \in Seq(Answers) /\ Len(Tail(down[p])) <= MaxWire /\ m \in Answers
  BY ReceiveFacts
<1> HIDE DEF m
<1>4. m.rev \in 0..MaxRevision /\ m.content \in Contents
  BY <1>3 DEF Answers
<1>5. w \in States
  BY <1>4, AnswerFacts
<1>6. t \in SUBSET Strays
  BY InvFacts DEF Strays
<1> HIDE DEF w, t
<1> QED
  BY <1>1, <1>2, <1>3, <1>4, <1>5, <1>6, InvFacts, OnlyOne, ZenonT(60)

LEMMA ClosedKeeps ==
    ASSUME IInv, NEW p \in Players, Receive(p), Closed(p),
           \/ /\ Head(down[p]).type \in {"accepted", "rejected"} /\ pending[p] = Nothing
              /\ ~(view[p].rev # 0 /\ view[p].rev >= Head(down[p]).rev)
           \/ /\ Head(down[p]).type = "accepted" /\ pending[p] # Nothing
              /\ Head(down[p]).rev # pending[p].rev + 1
    PROVE  IInv'
<1>1. /\ link' = [link EXCEPT ![p] = "closing"] /\ view' = [view EXCEPT ![p] = view[p]]
      /\ pending' = [pending EXCEPT ![p] = pending[p]]
      /\ deferred' = [deferred EXCEPT ![p] = deferred[p]]
      /\ game' = [game EXCEPT ![p] = game[p]] /\ seen' = [seen EXCEPT ![p] = seen[p]]
      /\ up' = [up EXCEPT ![p] = up[p]] /\ strayed' = [strayed EXCEPT ![p] = strayed[p]]
  BY Same DEF Closed, client
<1>2. Fits(commits, "closing", view[p], pending[p], deferred[p], game[p], seen[p], up[p],
           Tail(down[p]), strayed[p])
  BY ReceiveFacts, InvFacts, FitsClosed
<1>3. UNCHANGED <<commits, barred>> /\ down' = [down EXCEPT ![p] = Tail(down[p])]
      /\ Tail(down[p]) \in Seq(Answers) /\ Len(Tail(down[p])) <= MaxWire
  BY ReceiveFacts
<1> QED
  BY <1>1, <1>2, <1>3, Fields, OnlyOne, ZenonT(60)

LEMMA AcceptedKeeps ==
    ASSUME IInv, NEW p \in Players, Receive(p), Accepted(p, Head(down[p])),
           Head(down[p]).type = "accepted", pending[p] # Nothing,
           Head(down[p]).rev = pending[p].rev + 1
    PROVE  IInv'
<1> DEFINE m == Head(down[p])
           u == pending[p]
           d == deferred[p]
           w == State(m.rev, u.content)
           x == State(m.rev, d)
           t == IF Unanswered(p) > 1 THEN strayed[p] \cup {"crossed"} ELSE strayed[p]
<1>1. /\ link' = [link EXCEPT ![p] = "in"] /\ view' = [view EXCEPT ![p] = w]
      /\ deferred' = [deferred EXCEPT ![p] = Nothing]
      /\ game' = [game EXCEPT ![p] = game[p]] /\ seen' = [seen EXCEPT ![p] = seen[p]]
      /\ IF d # Nothing /\ d # u.content
         THEN /\ Len(up[p]) < MaxWire
              /\ pending' = [pending EXCEPT ![p] = x]
              /\ up' = [up EXCEPT ![p] = Append(up[p], x)]
              /\ strayed' = [strayed EXCEPT ![p] = t]
         ELSE /\ pending' = [pending EXCEPT ![p] = Nothing]
              /\ up' = [up EXCEPT ![p] = up[p]]
              /\ strayed' = [strayed EXCEPT ![p] = strayed[p]]
  BY Same, ReceiveFacts DEF Accepted, Crossed
<1>2. UNCHANGED <<commits, barred>> /\ down' = [down EXCEPT ![p] = Tail(down[p])]
      /\ Tail(down[p]) \in Seq(Answers) /\ Len(Tail(down[p])) <= MaxWire /\ m \in Answers
  BY ReceiveFacts
<1>3. /\ u \in States /\ u.content \in Contents /\ d \in Contents \cup {Nothing}
      /\ up[p] \in Seq(States) /\ game[p] \in Contents /\ seen[p] \in Seq(Contents)
      /\ strayed[p] \in SUBSET Strays /\ Len(up[p]) <= MaxWire
  BY InvFacts, AnswerFacts
<1>4. t \in SUBSET Strays /\ strayed[p] \subseteq t
  BY <1>3 DEF Strays
<1>5. m.rev \in 0..MaxRevision
  BY <1>2 DEF Answers
<1>6. /\ d # Nothing /\ d # u.content =>
             Fits(commits, "in", w, x, Nothing, game[p], seen[p], Append(up[p], x),
                  Tail(down[p]), t)
      /\ d = Nothing \/ d = u.content =>
             Fits(commits, "in", w, Nothing, Nothing, game[p], seen[p], up[p],
                  Tail(down[p]), strayed[p])
  <2> HIDE DEF t
  <2>1. commits \in Seq(Contents) /\ view[p] \in States /\ down[p] \in Seq(Answers)
    BY InvFacts
  <2>2. Fits(commits, "in", view[p], u, d, game[p], seen[p], up[p], down[p], strayed[p])
        /\ down[p] # <<>>
    BY ReceiveFacts
  <2> HIDE DEF u, d
  <2>3. m.type = "accepted" /\ u # Nothing /\ m.rev = u.rev + 1
    BY DEF u
  <2> QED
    BY <1>3, <1>4, <2>1, <2>2, <2>3, FitsAccepted
<1> HIDE DEF m, u, d
<1>7. w \in States /\ (d # Nothing => x \in States)
  BY <1>3, <1>5, AnswerFacts
<1> HIDE DEF w, x, t
<1>8. CASE d # Nothing /\ d # u.content
  <2>1. x \in States /\ Len(up[p]) < MaxWire
    BY <1>1, <1>7, <1>8
  <2>2. Append(up[p], x) \in Seq(States) /\ Len(Append(up[p], x)) <= MaxWire
    BY <1>3, <2>1, AppendedAt, WorldAssumption
  <2> QED
    BY <1>1, <1>2, <1>3, <1>4, <1>6, <1>7, <1>8, <2>1, <2>2, OnlyOne, ZenonT(60)
<1>9. CASE ~(d # Nothing /\ d # u.content)
  <2>1. /\ pending' = [pending EXCEPT ![p] = Nothing] /\ up' = [up EXCEPT ![p] = up[p]]
        /\ strayed' = [strayed EXCEPT ![p] = strayed[p]]
        /\ Fits(commits, "in", w, Nothing, Nothing, game[p], seen[p], up[p],
                Tail(down[p]), strayed[p])
    BY <1>1, <1>6, <1>9
  <2>2. /\ link' = [link EXCEPT ![p] = "in"] /\ view' = [view EXCEPT ![p] = w]
        /\ deferred' = [deferred EXCEPT ![p] = Nothing]
        /\ game' = [game EXCEPT ![p] = game[p]] /\ seen' = [seen EXCEPT ![p] = seen[p]]
        /\ w \in States
    BY <1>1, <1>7
  <2> QED
    BY <1>2, <1>3, <2>1, <2>2, OnlyOne, ZenonT(60)
<1> QED
  BY <1>8, <1>9

LEMMA ReceiveKeeps == ASSUME IInv, NEW p \in Players, Receive(p) PROVE IInv'
<1> DEFINE m == Head(down[p])
<1>1. \/ m.type = "accepted" /\ Accepted(p, m)
      \/ m.type = "rejected" /\ Rejected(p, m)
      \/ m.type = "updated" /\ Updated(p, m)
  BY DEF Receive
<1>2. m.rev \in Nat /\ view[p].rev \in Nat
  BY ReceiveFacts, InvFacts, AnswerFacts
<1>3. CASE m.type = "accepted" /\ Accepted(p, m)
  <2>1. CASE pending[p] = Nothing /\ view[p].rev # 0 /\ view[p].rev >= m.rev
    BY <1>2, <1>3, <2>1, IgnoredKeeps DEF Accepted
  <2>2. CASE pending[p] = Nothing /\ ~(view[p].rev # 0 /\ view[p].rev >= m.rev)
    BY <1>3, <2>2, ClosedKeeps DEF Accepted
  <2>3. CASE pending[p] # Nothing /\ m.rev # pending[p].rev + 1
    BY <1>3, <2>3, ClosedKeeps DEF Accepted
  <2>4. CASE pending[p] # Nothing /\ m.rev = pending[p].rev + 1
    BY <1>3, <2>4, AcceptedKeeps
  <2> QED
    BY <2>1, <2>2, <2>3, <2>4
<1>4. CASE m.type = "rejected" /\ Rejected(p, m)
  <2>1. CASE pending[p] = Nothing /\ view[p].rev # 0 /\ view[p].rev >= m.rev
    BY <1>2, <1>4, <2>1, IgnoredKeeps DEF Rejected
  <2>2. CASE pending[p] = Nothing /\ ~(view[p].rev # 0 /\ view[p].rev >= m.rev)
    BY <1>4, <2>2, ClosedKeeps DEF Rejected
  <2>3. CASE pending[p] # Nothing
    BY <1>4, <2>3, AppliedKeeps DEF Rejected
  <2> QED
    BY <2>1, <2>2, <2>3
<1>5. CASE m.type = "updated" /\ Updated(p, m)
  <2>1. CASE view[p].rev # 0 /\ m.rev <= view[p].rev
    BY <1>5, <2>1, IgnoredKeeps DEF Updated
  <2>2. CASE ~(view[p].rev # 0 /\ m.rev <= view[p].rev)
    BY <1>5, <2>2, AppliedKeeps DEF Updated
  <2> QED
    BY <2>1, <2>2
<1> QED
  BY <1>1, <1>3, <1>4, <1>5

\* What everybody is told of a commit.
LEMMA CommitTypes ==
    ASSUME IInv, Revision < MaxRevision, NEW c \in Contents
    PROVE  /\ Append(commits, c) \in Seq(Contents) /\ Len(Append(commits, c)) <= MaxRevision
           /\ \A t \in {"accepted", "updated"} :
                  LET m == [type |-> t, rev |-> Revision + 1, content |-> c]
                  IN  /\ m \in Answers /\ m.type = t
                      /\ m.rev = Len(commits) + 1 /\ m.content = c
<1>1. commits \in Seq(Contents) /\ Revision = Len(commits) /\ Revision \in Nat
  BY LenProperties DEF IInv, Types, Revision
<1>2. Append(commits, c) \in Seq(Contents) /\ Len(Append(commits, c)) <= MaxRevision
  BY <1>1, CommitsFacts, WorldAssumption
<1>3. Revision + 1 \in 0..MaxRevision
  BY <1>1, WorldAssumption
<1> QED
  BY <1>1, <1>2, <1>3 DEF Answers

\* A commit changes what is stored and what is under way, nothing else.
LEMMA CommitKeeps ==
    ASSUME IInv, UNCHANGED <<barred, link, view, pending, deferred, game, seen, strayed>>,
           commits' \in Seq(Contents), Len(commits') <= MaxRevision,
           up' \in [Players -> Seq(States)], down' \in [Players -> Seq(Answers)],
           \A p \in Players : Len(up'[p]) <= MaxWire /\ Len(down'[p]) <= MaxWire,
           \A p \in Players : Fits(commits', link[p], view[p], pending[p], deferred[p], game[p],
                                   seen[p], up'[p], down'[p], strayed[p])
    PROVE  IInv'
<1>1. Types'
  BY DEF IInv, Types
<1>2. ASSUME NEW p \in Players PROVE Agrees(p)'
  BY DEF Agrees
<1> QED
  BY <1>1, <1>2 DEF IInv

LEMMA StripKeeps == ASSUME IInv, Strip PROVE IInv'
<1>1. PICK c \in Contents :
        /\ commits' = Append(commits, c)
        /\ down' = [q \in Players |->
               IF link[q] # "in" THEN down[q]
               ELSE Append(down[q], [type |-> "updated", rev |-> Revision + 1, content |-> c])]
  BY DEF Strip
<1> DEFINE m == [type |-> "updated", rev |-> Revision + 1, content |-> c]
<1>2. Revision < MaxRevision
  BY WorldAssumption DEF Strip
<1>3. /\ Append(commits, c) \in Seq(Contents) /\ Len(Append(commits, c)) <= MaxRevision
      /\ m \in Answers /\ m.type = "updated" /\ m.rev = Len(commits) + 1 /\ m.content = c
  BY <1>2, CommitTypes
<1>4. /\ UNCHANGED <<barred, link, view, pending, deferred, game, seen, strayed, up>>
      /\ \A q \in Players : Len(down'[q]) <= MaxWire
  BY DEF Strip, client
<1> HIDE DEF m
<1>5. \A q \in Players : down'[q] = IF link[q] = "in" THEN Append(down[q], m) ELSE down[q]
  BY <1>1 DEF m
<1>6. ASSUME NEW q \in Players
      PROVE  /\ Fits(commits', link[q], view[q], pending[q], deferred[q], game[q], seen[q],
                     up'[q], down'[q], strayed[q])
             /\ down'[q] \in Seq(Answers)
  <2>1. Fits(commits, link[q], view[q], pending[q], deferred[q], game[q], seen[q],
             up[q], down[q], strayed[q])
        /\ down[q] \in Seq(Answers)
    BY InvFacts DEF Agrees
  <2>2. Fits(Append(commits, c), link[q], view[q], pending[q], deferred[q], game[q], seen[q],
             up[q], IF link[q] = "in" THEN Append(down[q], m) ELSE down[q], strayed[q])
    BY <1>3, <2>1, InvFacts, FitsCommit
  <2>3. Append(down[q], m) \in Seq(Answers)
    BY <1>3, <2>1, AppendedAt
  <2> QED
    BY <1>1, <1>4, <1>5, <2>1, <2>2, <2>3
<1>7. DOMAIN down' = Players /\ down' = [q \in DOMAIN down' |-> down'[q]]
  BY <1>1
<1>8. down' \in [Players -> Seq(Answers)]
  BY <1>6, <1>7
<1>9. up' \in [Players -> Seq(States)] /\ \A q \in Players : Len(up'[q]) <= MaxWire
  BY <1>4 DEF IInv, Types
<1>10. commits' \in Seq(Contents) /\ Len(commits') <= MaxRevision
  BY <1>1, <1>3
<1> QED
  BY <1>4, <1>6, <1>8, <1>9, <1>10, CommitKeeps

LEMMA CommitUpdateKeeps ==
    ASSUME IInv, NEW p \in Players, HandleUpdate(p), Commits(p, Head(up[p]))
    PROVE  IInv'
<1> DEFINE c == Head(up[p]).content
           m == [type |-> "accepted", rev |-> Revision + 1, content |-> c]
           k == [type |-> "updated", rev |-> Revision + 1, content |-> c]
<1>1. /\ up[p] # <<>> /\ up' = [up EXCEPT ![p] = Tail(up[p])]
      /\ Revision < MaxRevision /\ commits' = Append(commits, c)
      /\ UNCHANGED <<barred, link, view, pending, deferred, game, seen, strayed>>
      /\ \A q \in Players : Len(down'[q]) <= MaxWire
      /\ Head(up[p]).rev = Revision
  BY DEF HandleUpdate, Commits, MayCommit
<1>2. down' = [q \in Players |->
                  IF link[q] # "in" THEN down[q]
                  ELSE Append(down[q], [type |-> IF q = p THEN "accepted" ELSE "updated",
                                        rev |-> Revision + 1, content |-> c])]
  BY DEF Commits
<1>3. /\ Head(up[p]) \in States /\ Tail(up[p]) \in Seq(States)
      /\ Len(up[p]) \in Nat /\ Len(Tail(up[p])) = Len(up[p]) - 1 /\ Len(up[p]) <= MaxWire
  BY <1>1, InvFacts, TailAt
<1>4. c \in Contents
  BY <1>3, AnswerFacts
<1>5. /\ Append(commits, c) \in Seq(Contents) /\ Len(Append(commits, c)) <= MaxRevision
      /\ m \in Answers /\ m.type = "accepted" /\ m.rev = Len(commits) + 1 /\ m.content = c
      /\ k \in Answers /\ k.type = "updated" /\ k.rev = Len(commits) + 1 /\ k.content = c
  BY <1>1, <1>4, CommitTypes
<1> HIDE DEF m, k
<1>6. /\ down'[p] = IF link[p] = "in" THEN Append(down[p], m) ELSE down[p]
      /\ \A q \in Players \ {p} :
             down'[q] = IF link[q] = "in" THEN Append(down[q], k) ELSE down[q]
      /\ DOMAIN down' = Players /\ down' = [q \in DOMAIN down' |-> down'[q]]
  BY <1>2 DEF m, k
<1>7. c = m.content /\ m.content = Head(up[p]).content /\ Head(up[p]).rev = Len(commits)
  BY <1>1, <1>5 DEF Revision
<1> HIDE DEF c
<1>8. ASSUME NEW q \in Players
      PROVE  /\ Fits(commits', link[q], view[q], pending[q], deferred[q], game[q], seen[q],
                     up'[q], down'[q], strayed[q])
             /\ down'[q] \in Seq(Answers)
  <2>1. Fits(commits, link[q], view[q], pending[q], deferred[q], game[q], seen[q],
             up[q], down[q], strayed[q])
        /\ down[q] \in Seq(Answers)
    BY InvFacts DEF Agrees
  <2>2. CASE q = p
    <3>1. Fits(Append(commits, m.content), link[p], view[p], pending[p], deferred[p], game[p],
               seen[p], Tail(up[p]), IF link[p] = "in" THEN Append(down[p], m) ELSE down[p],
               strayed[p])
      BY <1>1, <1>5, <1>7, <2>1, <2>2, InvFacts, FitsCommitOwn
    <3>2. Append(down[p], m) \in Seq(Answers)
      BY <1>5, <2>1, <2>2, AppendedAt
    <3>3. up'[p] = Tail(up[p])
      BY <1>1 DEF IInv, Types
    <3> QED
      BY <1>1, <1>6, <1>7, <2>1, <2>2, <3>1, <3>2, <3>3
  <2>3. CASE q # p
    <3>1. Fits(Append(commits, c), link[q], view[q], pending[q], deferred[q], game[q], seen[q],
               up[q], IF link[q] = "in" THEN Append(down[q], k) ELSE down[q], strayed[q])
      BY <1>4, <1>5, <2>1, InvFacts, FitsCommit
    <3>2. Append(down[q], k) \in Seq(Answers)
      BY <1>5, <2>1, AppendedAt
    <3>3. up'[q] = up[q]
      BY <1>1, <2>3 DEF IInv, Types
    <3> QED
      BY <1>1, <1>6, <2>1, <2>3, <3>1, <3>2, <3>3
  <2> QED
    BY <2>2, <2>3
<1>9. down' \in [Players -> Seq(Answers)]
  BY <1>6, <1>8
<1>10. up' \in [Players -> Seq(States)] /\ \A q \in Players : Len(up'[q]) <= MaxWire
  <2>1. up \in [Players -> Seq(States)] /\ \A q \in Players : Len(up[q]) <= MaxWire
    BY DEF IInv, Types
  <2>2. Len(Tail(up[p])) <= MaxWire
    BY <1>3, WorldAssumption
  <2> QED
    BY <1>1, <1>3, <2>1, <2>2
<1>11. commits' \in Seq(Contents) /\ Len(commits') <= MaxRevision
  BY <1>1, <1>5
<1> QED
  BY <1>1, <1>8, <1>9, <1>10, <1>11, CommitKeeps

LEMMA RefuseUpdateKeeps ==
    ASSUME IInv, NEW p \in Players, HandleUpdate(p), Refuses(p)
    PROVE  IInv'
<1> DEFINE m == Refusal
           t == IF Revision = 0 THEN strayed[p] \cup {"invented"} ELSE strayed[p]
<1>1. /\ up[p] # <<>> /\ up' = [up EXCEPT ![p] = Tail(up[p])]
      /\ down' = [down EXCEPT ![p] = Append(down[p], m)]
      /\ strayed' = [strayed EXCEPT ![p] = t]
      /\ UNCHANGED <<commits, barred>>
      /\ link' = [link EXCEPT ![p] = link[p]] /\ view' = [view EXCEPT ![p] = view[p]]
      /\ pending' = [pending EXCEPT ![p] = pending[p]]
      /\ deferred' = [deferred EXCEPT ![p] = deferred[p]]
      /\ game' = [game EXCEPT ![p] = game[p]] /\ seen' = [seen EXCEPT ![p] = seen[p]]
      /\ Len(down'[p]) <= MaxWire
  BY Same DEF HandleUpdate, Refuses
<1>2. /\ Revision \in Nat /\ Revision <= MaxRevision /\ Revision = Len(commits)
      /\ Current.content \in Contents /\ (Revision # 0 => Current.content = commits[Revision])
  BY CurrentFacts, AnswerFacts, InvFacts DEF Revision
<1>3. /\ m \in Answers /\ m.type = "rejected" /\ m.content = Current.content
      /\ Revision = 0 => m.rev = 1
      /\ Revision # 0 => m.rev = Revision
  <2>1. Revision \in 0..MaxRevision /\ 1 \in 0..MaxRevision
    BY <1>2, WorldAssumption
  <2> QED
    BY <1>2, <2>1 DEF Refusal, Answers
<1> HIDE DEF m
<1>4. /\ up[p] \in Seq(States) /\ Tail(up[p]) \in Seq(States) /\ down[p] \in Seq(Answers)
      /\ Len(Tail(up[p])) <= MaxWire
  <2>1. up[p] \in Seq(States) /\ down[p] \in Seq(Answers) /\ Len(up[p]) <= MaxWire
    BY InvFacts
  <2>2. /\ Len(up[p]) \in Nat /\ Len(Tail(up[p])) = Len(up[p]) - 1
        /\ Tail(up[p]) \in Seq(States)
    BY <1>1, <2>1, TailAt
  <2> QED
    BY <2>1, <2>2, WorldAssumption
<1>5. Append(down[p], m) \in Seq(Answers) /\ Len(Append(down[p], m)) <= MaxWire
  BY <1>1, <1>3, <1>4, AppendedAt DEF IInv, Types
<1>6. t \in SUBSET Strays
  BY Fields DEF Strays
<1>7. Fits(commits, link[p], view[p], pending[p], deferred[p], game[p], seen[p], Tail(up[p]),
           Append(down[p], m),
           IF Len(commits) = 0 THEN strayed[p] \cup {"invented"} ELSE strayed[p])
  <2>1. Fits(commits, link[p], view[p], pending[p], deferred[p], game[p], seen[p],
             up[p], down[p], strayed[p])
    BY InvFacts DEF Agrees
  <2>2. /\ Len(commits) = 0 => m.rev = 1
        /\ Len(commits) # 0 => m.rev = Len(commits) /\ m.content = commits[Len(commits)]
    BY <1>2, <1>3
  <2> QED
    BY <1>1, <1>3, <2>1, <2>2, InvFacts, FitsRefusal
<1>8. Fits(commits, link[p], view[p], pending[p], deferred[p], game[p], seen[p], Tail(up[p]),
           Append(down[p], m), t)
  BY <1>7 DEF Revision
<1> HIDE DEF t
<1>9. /\ link[p] \in {"away", "loading", "in", "closing"} /\ view[p] \in States
      /\ pending[p] \in States \cup {Nothing} /\ deferred[p] \in Contents \cup {Nothing}
      /\ game[p] \in Contents /\ seen[p] \in Seq(Contents)
  BY Fields
<1> DEFINE out == Tail(up[p])
           q == Append(down[p], m)
<1>10. /\ up' = [up EXCEPT ![p] = out] /\ out \in Seq(States) /\ Len(out) <= MaxWire
       /\ down' = [down EXCEPT ![p] = q] /\ q \in Seq(Answers) /\ Len(q) <= MaxWire
       /\ Fits(commits, link[p], view[p], pending[p], deferred[p], game[p], seen[p], out, q, t)
  BY <1>1, <1>4, <1>5, <1>8
<1>11. /\ strayed' = [strayed EXCEPT ![p] = t] /\ UNCHANGED <<commits, barred>>
       /\ link' = [link EXCEPT ![p] = link[p]] /\ view' = [view EXCEPT ![p] = view[p]]
       /\ pending' = [pending EXCEPT ![p] = pending[p]]
       /\ deferred' = [deferred EXCEPT ![p] = deferred[p]]
       /\ game' = [game EXCEPT ![p] = game[p]] /\ seen' = [seen EXCEPT ![p] = seen[p]]
  BY <1>1
<1> HIDE DEF out, q
<1> QED
  BY <1>6, <1>9, <1>10, <1>11, OnlyOne, ZenonT(60)

LEMMA UnspokenKeeps ==
    ASSUME IInv, NEW p \in Players, HandleUpdate(p), Unspoken(p, Head(up[p]))
    PROVE  IInv'
<1> DEFINE out == Tail(up[p])
           t == strayed[p] \cup {"unanswered"}
<1>1. /\ up[p] # <<>> /\ up' = [up EXCEPT ![p] = out]
      /\ down' = [down EXCEPT ![p] = down[p]]
      /\ strayed' = [strayed EXCEPT ![p] = t]
      /\ UNCHANGED <<commits, barred>>
      /\ link' = [link EXCEPT ![p] = link[p]] /\ view' = [view EXCEPT ![p] = view[p]]
      /\ pending' = [pending EXCEPT ![p] = pending[p]]
      /\ deferred' = [deferred EXCEPT ![p] = deferred[p]]
      /\ game' = [game EXCEPT ![p] = game[p]] /\ seen' = [seen EXCEPT ![p] = seen[p]]
  BY Same DEF HandleUpdate, Unspoken
<1>2. Len(commits) = 0 /\ Head(up[p]).rev = 0
  BY DEF Unspoken, MayCommit, Revision
<1>3. out \in Seq(States) /\ Len(out) <= MaxWire
  <2>1. /\ Len(up[p]) \in Nat /\ Len(out) = Len(up[p]) - 1 /\ out \in Seq(States)
        /\ Len(up[p]) <= MaxWire
    BY <1>1, InvFacts, TailAt
  <2> QED
    BY <2>1, WorldAssumption
<1>4. Fits(commits, link[p], view[p], pending[p], deferred[p], game[p], seen[p], out,
           down[p], t)
  BY <1>1, <1>2, InvFacts, FitsUnspoken DEF Agrees
<1>5. t \in SUBSET Strays
  BY Fields DEF Strays
<1>6. down[p] \in Seq(Answers) /\ Len(down[p]) <= MaxWire
  BY InvFacts
<1> HIDE DEF out, t
<1> QED
  BY <1>1, <1>3, <1>4, <1>5, <1>6, Fields, OnlyOne, ZenonT(60)

LEMMA HandleUpdateKeeps == ASSUME IInv, NEW p \in Players, HandleUpdate(p) PROVE IInv'
<1>1. Commits(p, Head(up[p])) \/ Refuses(p) \/ Unspoken(p, Head(up[p]))
  BY DEF HandleUpdate
<1> QED
  BY <1>1, CommitUpdateKeeps, RefuseUpdateKeeps, UnspokenKeeps

LEMMA InitHolds == Init => IInv
<1> SUFFICES ASSUME Init PROVE IInv
  OBVIOUS
<1>1. commits \in Seq(Contents) /\ Len(commits) <= MaxRevision /\ barred \subseteq Players
  BY WorldAssumption DEF Init
<1>2. State(0, Plain) \in States /\ State(0, Plain).rev = 0 /\ State(0, Plain).content = Plain
  BY AnswerFacts, WorldAssumption
<1>3. Types
  BY <1>1, <1>2, WorldAssumption DEF Init, Types
<1>4. ASSUME NEW p \in Players PROVE Agrees(p)
  BY <1>2 DEF Init, Agrees, Fits
<1> QED
  BY <1>3, <1>4 DEF IInv

LEMMA NextKeeps == IInv /\ [Next]_vars => IInv'
<1> SUFFICES ASSUME IInv, [Next]_vars PROVE IInv'
  OBVIOUS
<1>1. CASE UNCHANGED vars
  BY <1>1 DEF vars, IInv, Types, Agrees
<1>2. CASE Strip
  BY <1>2, StripKeeps
<1>3. ASSUME NEW p \in Players,
             \/ Load(p) \/ Enter(p) \/ Leave(p)
             \/ Act(p) \/ Poll(p) \/ HandleUpdate(p) \/ Receive(p)
      PROVE  IInv'
  BY <1>3, LoadKeeps, EnterKeeps, LeaveKeeps, ActKeeps, PollKeeps, HandleUpdateKeeps,
     ReceiveKeeps
<1> QED
  BY <1>1, <1>2, <1>3 DEF Next

LEMMA Invariance == Spec => []IInv
<1> QED
  BY InitHolds, NextKeeps, PTL DEF Spec

-----------------------------------------------------------------------------
(* The theorems.                                                           *)

\* The server's object, the clients' caches, the game and both streams keep
\* their types and their bounds (m_world_objects of server_core and client).
THEOREM TypeCorrect == Spec => []TypeOK
<1>1. IInv => TypeOK
  BY DEF IInv, Types, TypeOK, Strays
<1> QED
  BY Invariance, <1>1, PTL

\* Whatever crosses, a client with nothing under way knows the revision of the
\* server's object, unless the server answered it with an object that does not
\* exist (handle_world_object_update, handle_game_envelope).
THEOREM RevisionsAgree == Spec => []QuietRevisionsAgree
<1>1. ASSUME IInv, NEW p \in Players, Quiet(p), "invented" \notin strayed[p]
      PROVE  view[p].rev = Revision
  <2>1. /\ Ordered(Len(commits), view[p], <<>>, strayed[p])
        /\ view[p].rev \in Nat /\ Len(commits) \in Nat
    BY <1>1, InvFacts, AnswerFacts DEF Agrees, Fits, Quiet, Revision
  <2> QED
    BY <1>1, <2>1 DEF Ordered, MayName, Revision
<1>2. IInv => QuietRevisionsAgree
  BY <1>1 DEF QuietRevisionsAgree
<1> QED
  BY Invariance, <1>2, PTL

\* No answer closes a client none of whose changes was crossed by an older
\* answer (handle_game_envelope).
THEOREM UncrossedStay == Spec => []UncrossedClientsStay
<1>1. IInv => UncrossedClientsStay
  BY DEF IInv, Agrees, Fits, UncrossedClientsStay
<1> QED
  BY Invariance, <1>1, PTL

\* A client that was not led astray and has nothing under way knows the
\* server's object, its game shows that object, and it waits for nothing: but
\* for the refusal, never sent, of the first update of an object that does not
\* exist as yet (handle_world_object_update, handle_game_envelope).
THEOREM SteadyAgree == Spec => []SteadyClientsAgree
<1>1. ASSUME IInv, NEW p \in Players, Quiet(p),
             strayed[p] \cap {"crossed", "invented"} = {}
      PROVE  /\ view[p] = Current
             /\ \/ pending[p] = Nothing /\ deferred[p] = Nothing
                \/ Revision = 0 /\ "unanswered" \in strayed[p]
             /\ seen[p] = <<>> /\ Revision # 0 => game[p] = Current.content
  <2>1. /\ Fits(commits, "in", view[p], pending[p], deferred[p], game[p], seen[p],
                <<>>, <<>>, strayed[p])
        /\ Unmisled(strayed[p])
    BY <1>1, InvFacts DEF Agrees, Quiet, Unmisled
  <2>2. view[p] \in States /\ view[p].rev \in Nat /\ Revision \in Nat /\ Revision = Len(commits)
    BY <1>1, InvFacts, AnswerFacts DEF Revision
  <2>3. view[p].rev = Revision
    <3>1. Ordered(Revision, view[p], <<>>, strayed[p])
      BY <2>1, <2>2 DEF Fits
    <3> QED
      BY <2>1, <2>2, <3>1 DEF Ordered, MayName, Unmisled
  <2>4. \/ pending[p] = Nothing /\ deferred[p] = Nothing
        \/ Revision = 0 /\ "unanswered" \in strayed[p]
    <3>1. InFlight(Len(commits), view[p], pending[p], <<>>, <<>>, strayed[p])
      BY <2>1 DEF Fits, Straight, Unmisled
    <3>2. Clear(<<>>)
      BY DEF Clear
    <3>3. pending[p] = Nothing \/ Silent(view[p], strayed[p])
      BY <3>1, <3>2 DEF InFlight
    <3> QED
      BY <2>1, <2>3, <3>3 DEF Fits, Silent
  <2>5. Names(commits, view[p]) /\ Shows(view[p], pending[p], deferred[p], game[p], seen[p])
    BY <2>1 DEF Fits, Truthful
  <2>6. view[p].content = IF Revision = 0 THEN Plain ELSE commits[Revision]
    BY <2>3, <2>5 DEF Names
  <2>7. view[p] = State(view[p].rev, view[p].content)
    BY <2>2 DEF States, State
  <2>8. view[p] = Current
    BY <2>3, <2>6, <2>7 DEF Current
  <2>9. seen[p] = <<>> /\ Revision # 0 => game[p] = Current.content
    BY <2>3, <2>4, <2>5, <2>8 DEF Shows, Wanted
  <2> QED
    BY <2>4, <2>8, <2>9
<1>2. IInv => SteadyClientsAgree
  BY <1>1 DEF SteadyClientsAgree
<1> QED
  BY Invariance, <1>2, PTL

LEMMA ReceiptsMoveForward ==
    ASSUME IInv, NEW p \in Players, Receive(p)
    PROVE  view'[p].rev >= view[p].rev
<1> DEFINE m == Head(down[p])
<1>1. /\ view[p].rev \in Nat /\ m.rev \in Nat /\ view[p].rev <= m.rev
      /\ m.rev \in 0..MaxRevision
  <2>1. /\ Ordered(Len(commits), view[p], down[p], strayed[p]) /\ Len(commits) \in Nat
        /\ m \in Answers /\ down[p] # <<>>
    BY ReceiveFacts, InvFacts DEF Fits, Revision
  <2>2. view[p].rev <= m.rev
    BY <2>1, InvFacts, OrderedHead
  <2> QED
    BY <2>1, <2>2, InvFacts, AnswerFacts DEF Answers
<1>2. view \in [Players -> States]
  BY DEF IInv, Types
<1>3. \A c : State(m.rev, c).rev = m.rev
  BY DEF State
<1>4. \/ m.type = "accepted" /\ Accepted(p, m)
      \/ m.type = "rejected" /\ Rejected(p, m)
      \/ m.type = "updated" /\ Updated(p, m)
  BY DEF Receive
<1> HIDE DEF m
<1>5. view' = view \/ \E c : view' = [view EXCEPT ![p] = State(m.rev, c)]
  BY <1>4 DEF Accepted, Rejected, Updated, Ignored, Closed, Applied, client
<1> QED
  BY <1>1, <1>2, <1>3, <1>5

\* Within a connection, no answer or broadcast takes a client back to an older
\* revision of the object (handle_game_envelope).
THEOREM ViewsAdvance == Spec => ViewsMoveForward
<1>1. ASSUME IInv, [Next]_vars, NEW p \in Players, link[p] = "in", link'[p] # "away"
      PROVE  view'[p].rev >= view[p].rev
  <2>1. view[p].rev \in Nat
    BY <1>1, InvFacts, AnswerFacts
  <2>2. CASE view'[p] = view[p]
    BY <2>1, <2>2
  <2>3. CASE Receive(p)
    BY <1>1, <2>3, ReceiptsMoveForward
  <2>4. view'[p] = view[p] \/ Receive(p)
    <3>1. view \in [Players -> States]
      BY <1>1 DEF IInv, Types
    <3>2. CASE UNCHANGED vars
      BY <3>2 DEF vars
    <3>3. CASE Strip
      BY <3>3 DEF Strip, client
    <3>4. ASSUME NEW q \in Players,
                 Enter(q) \/ Leave(q) \/ Act(q) \/ Poll(q) \/ HandleUpdate(q)
          PROVE  view'[p] = view[p]
      BY <3>4 DEF Enter, Leave, Act, Poll, HandleUpdate, client
    <3>5. ASSUME NEW q \in Players, Load(q) PROVE view'[p] = view[p]
      BY <1>1, <3>1, <3>5 DEF Load
    <3>6. ASSUME NEW q \in Players, Receive(q), q # p PROVE view'[p] = view[p]
      <4>1. view' = view \/ \E s : view' = [view EXCEPT ![q] = s]
        BY <3>6 DEF Receive, Accepted, Rejected, Updated, Ignored, Closed, Applied, client
      <4> QED
        BY <3>1, <3>6, <4>1
    <3> QED
      BY <1>1, <3>2, <3>3, <3>4, <3>5, <3>6 DEF Next
  <2> QED
    BY <2>2, <2>3, <2>4
<1>2. IInv /\ [Next]_vars =>
          [\A p \in Players :
               link[p] = "in" /\ link'[p] # "away" => view'[p].rev >= view[p].rev]_vars
  BY <1>1
<1> QED
  BY Invariance, <1>2, PTL DEF Spec, ViewsMoveForward
=============================================================================

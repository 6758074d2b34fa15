------------------------------ MODULE WorldSync ------------------------------
(***************************************************************************)
(* How doors, containers and dropped items reach every player: the         *)
(* revisioned streams of handle_world_object_update and                    *)
(* handle_world_item_update, the clients' caches with one update in flight *)
(* and one held back, and the native side that observes and applies        *)
(* (multiplayer/client.cpp, kcse/native_world_object_sync.cpp).            *)
(*                                                                         *)
(* One object stands for all: a revision, a cache entry and an answer are  *)
(* each about one object.  Whether the items in an update may move is what *)
(* ItemAuthority decides; here an update is refused for its revision,      *)
(* because the property ledger bars its sender, or, whatever else holds,   *)
(* because its items may not move.  Every message of both streams is       *)
(* reliable and ordered while a link lasts.                                *)
(***************************************************************************)
EXTENDS Naturals, Sequences, FiniteSets

CONSTANTS
    Players,       \* clients
    Contents,      \* states an object can have
    Plain,         \* closed and empty
    Worlds,        \* what is stored at start: the commits of the object and
                   \* the players its property has no role for
    MaxRevision,   \* bound: revisions of the object
    MaxWire        \* bound: messages under way in one direction

Nothing == [present |-> FALSE]

ASSUME WorldAssumption ==
    /\ Plain \in Contents /\ Nothing \notin Contents
    /\ Worlds \subseteq [commits : Seq(Contents), barred : SUBSET Players]
    /\ \A w \in Worlds : Len(w.commits) <= MaxRevision
    /\ MaxRevision \in Nat \ {0} /\ MaxWire \in Nat \ {0}

VARIABLES
    commits,   \* every state m_world_objects has held; it keeps the last one
    barred,    \* players that authorize() refuses at this object
    link,      \* away, loading (before the server accepts), in, or closing
    view,      \* m_world_objects of each client; revision 0 is no entry
    pending,   \* m_pending_world_objects: the update in flight, or Nothing
    deferred,  \* m_deferred_world_objects: what to send after it, or Nothing
    game,      \* what each player's game shows
    seen,      \* m_updates of the native sync: observations not yet polled
    up,        \* updates on their way to the server
    down,      \* answers and broadcasts on their way to each client
    strayed    \* history: what may have led a client astray: its change was
               \* crossed by an older answer, or it was answered with an
               \* object that is made up, or not at all

client == <<view, pending, deferred, game, seen, strayed>>
vars == <<commits, barred, link, view, pending, deferred, game, seen, up,
          down, strayed>>

Revision == Len(commits)
State(r, c) == [present |-> TRUE, rev |-> r, content |-> c]
States == [present : {TRUE}, rev : 0..MaxRevision, content : Contents]
Answers == [type : {"accepted", "rejected", "updated"}, rev : 0..MaxRevision,
            content : Contents]

TypeOK ==
    /\ commits \in Seq(Contents) /\ Len(commits) <= MaxRevision
    /\ barred \subseteq Players
    /\ link \in [Players -> {"away", "loading", "in", "closing"}]
    /\ \A p \in Players :
           /\ view[p] \in States
           /\ pending[p] \in States \cup {Nothing}
           /\ deferred[p] \in Contents \cup {Nothing}
           /\ game[p] \in Contents
           /\ seen[p] \in Seq(Contents)
           /\ up[p] \in Seq(States) /\ Len(up[p]) <= MaxWire
           /\ down[p] \in Seq(Answers) /\ Len(down[p]) <= MaxWire
           /\ strayed[p] \subseteq {"crossed", "invented", "unanswered"}

Init ==
    /\ \E w \in Worlds : commits = w.commits /\ barred = w.barred
    /\ link = [p \in Players |-> "away"]
    /\ view = [p \in Players |-> State(0, Plain)]
    /\ pending = [p \in Players |-> Nothing]
    /\ deferred = [p \in Players |-> Nothing]
    /\ game = [p \in Players |-> Plain]
    /\ seen = [p \in Players |-> << >>]
    /\ up = [p \in Players |-> << >>]
    /\ down = [p \in Players |-> << >>]
    /\ strayed = [p \in Players |-> {}]

Current == State(Revision, IF Revision = 0 THEN Plain ELSE commits[Revision])

(* Answers a client still waits for, one for each update.                  *)
Unanswered(p) ==
    Len(up[p]) + Cardinality({i \in DOMAIN down[p] : down[p][i].type # "updated"})

Crossed(p, when) ==
    strayed' = [strayed EXCEPT ![p] = IF when THEN @ \cup {"crossed"} ELSE @]

----------------------------------------------------------------------------
(* Joining, or joining again: the client clears its caches for those of    *)
(* the bootstrap, which are empty (send_bootstrap fills neither list), and *)
(* the game shows whatever its save holds.                                 *)
Load(p) ==
    /\ link[p] = "away"
    /\ link' = [link EXCEPT ![p] = "loading"]
    /\ view' = [view EXCEPT ![p] = State(0, Plain)]
    /\ pending' = [pending EXCEPT ![p] = Nothing]
    /\ deferred' = [deferred EXCEPT ![p] = Nothing]
    /\ \E c \in Contents : game' = [game EXCEPT ![p] = c]
    /\ seen' = [seen EXCEPT ![p] = << >>]
    /\ strayed' = [strayed EXCEPT ![p] = {}]
    /\ UNCHANGED <<commits, barred, up, down>>

(* Mutant form: the bootstrap is taken to hold the objects.                *)
EnterWithoutObjects(p) ==
    /\ link[p] = "loading"
    /\ link' = [link EXCEPT ![p] = "in"]
    /\ UNCHANGED <<commits, barred, client, up, down>>

(* handle_world_ready and send_world_objects.                              *)
Enter(p) ==
    /\ link[p] = "loading"
    /\ link' = [link EXCEPT ![p] = "in"]
    /\ down' = [down EXCEPT ![p] =
           IF Revision = 0 THEN << >>
           ELSE <<[type |-> "updated", rev |-> Revision,
                   content |-> Current.content]>>]
    /\ UNCHANGED <<commits, barred, client, up>>

(* A connection ends, also the one of a client that closes; what is under  *)
(* way is lost.                                                            *)
Leave(p) ==
    /\ link[p] # "away"
    /\ link' = [link EXCEPT ![p] = "away"]
    /\ up' = [up EXCEPT ![p] = << >>]
    /\ down' = [down EXCEPT ![p] = << >>]
    /\ UNCHANGED <<commits, barred, client>>

----------------------------------------------------------------------------
(* The game and the native sync.                                           *)

(* handle_entity_event: the player changes the object, which is noted.     *)
Act(p) ==
    /\ link[p] \in {"loading", "in"}
    /\ seen[p] = << >>
    /\ \E c \in Contents \ {game[p]} :
           /\ game' = [game EXCEPT ![p] = c]
           /\ seen' = [seen EXCEPT ![p] = <<c>>]
    /\ UNCHANGED <<commits, barred, link, view, pending, deferred, up, down,
                   strayed>>

(* poll_updates and queue_world_object_updates: what was noted is sent     *)
(* against the revision the client knows, held back behind an update in    *)
(* flight, or dropped when the client already knows it.                    *)
Poll(p) ==
    /\ link[p] = "in" /\ seen[p] # << >>
    /\ seen' = [seen EXCEPT ![p] = << >>]
    /\ LET c == Head(seen[p]) IN
       \/ /\ pending[p] # Nothing
          /\ deferred' = [deferred EXCEPT ![p] = c]
          /\ UNCHANGED <<pending, up, strayed>>
       \/ /\ pending[p] = Nothing
          /\ view[p].rev # 0 /\ view[p].content = c
          /\ UNCHANGED <<pending, deferred, up, strayed>>
       \/ /\ pending[p] = Nothing
          /\ view[p].rev = 0 \/ view[p].content # c
          /\ Len(up[p]) < MaxWire
          /\ pending' = [pending EXCEPT ![p] = State(view[p].rev, c)]
          /\ up' = [up EXCEPT ![p] = Append(@, State(view[p].rev, c))]
          /\ Crossed(p, Unanswered(p) > 0)
          /\ UNCHANGED deferred
    /\ UNCHANGED <<commits, barred, link, view, game, down>>

----------------------------------------------------------------------------
(* The server.                                                             *)

(* The answer to an update that is refused: the object, or, where there is *)
(* none, a plain one with revision 1 that exists nowhere.  The mutant      *)
(* form always makes one up.                                               *)
RefusalMadeUp == [type |-> "rejected", rev |-> 1, content |-> Plain]

Refusal ==
    [type |-> "rejected",
     rev |-> IF Revision = 0 THEN 1 ELSE Revision,
     content |-> Current.content]

(* Only the holder of a role may change the object, and only the revision  *)
(* that is current.                                                        *)
MayCommit(p, u) == p \notin barred /\ u.rev = Revision

Commits(p, u) ==
    /\ MayCommit(p, u)
    /\ Revision < MaxRevision
    /\ commits' = Append(commits, u.content)
    /\ LET told(t) == [type |-> t, rev |-> Revision + 1, content |-> u.content] IN
       down' = [q \in Players |->
                   IF link[q] # "in" THEN down[q]
                   ELSE Append(down[q], told(IF q = p THEN "accepted" ELSE "updated"))]
    /\ UNCHANGED strayed

(* What may not be committed is refused, and so may be what could: its     *)
(* items may not move.                                                     *)
Refuses(p) ==
    /\ down' = [down EXCEPT ![p] = Append(@, Refusal)]
    /\ strayed' = [strayed EXCEPT ![p] =
                      IF Revision = 0 THEN @ \cup {"invented"} ELSE @]
    /\ UNCHANGED commits

(* The items of the first update of an object may not move: the refusal    *)
(* would carry revision 0, which no envelope may (is_valid_envelope), so   *)
(* server_main logs that it could not be encoded and sends nothing.        *)
Unspoken(p, u) ==
    /\ MayCommit(p, u)
    /\ Revision = 0
    /\ strayed' = [strayed EXCEPT ![p] = @ \cup {"unanswered"}]
    /\ UNCHANGED <<commits, down>>

(* handle_world_object_update, handle_world_item_update.                   *)
HandleUpdate(p) ==
    /\ up[p] # << >>
    /\ up' = [up EXCEPT ![p] = Tail(@)]
    /\ \/ Commits(p, Head(up[p]))
       \/ Refuses(p)
       \/ Unspoken(p, Head(up[p]))
    /\ \A q \in Players : Len(down'[q]) <= MaxWire
    /\ UNCHANGED <<barred, link, view, pending, deferred, game, seen>>

(* remove_owned_items_from_world: the contents change at the server, under *)
(* a new revision that everybody is told.                                  *)
Strip ==
    /\ Revision \in 1..(MaxRevision - 1)
    /\ \E c \in Contents \ {Current.content} :
           /\ commits' = Append(commits, c)
           /\ down' = [q \in Players |->
                  IF link[q] # "in" THEN down[q]
                  ELSE Append(down[q], [type |-> "updated",
                                        rev |-> Revision + 1, content |-> c])]
    /\ \A q \in Players : Len(down'[q]) <= MaxWire
    /\ UNCHANGED <<barred, link, client, up>>

----------------------------------------------------------------------------
(* The client's answers, in the game thread.                               *)

(* The server's state replaces what the client knows, wants and shows; in  *)
(* the mutant form what it held back stays.                                *)
AppliedKeeping(p, m) ==
    /\ view' = [view EXCEPT ![p] = State(m.rev, m.content)]
    /\ pending' = [pending EXCEPT ![p] = Nothing]
    /\ game' = [game EXCEPT ![p] = m.content]
    /\ Crossed(p, seen[p] # << >>)
    /\ UNCHANGED <<link, up, seen, deferred>>

Applied(p, m) ==
    /\ view' = [view EXCEPT ![p] = State(m.rev, m.content)]
    /\ pending' = [pending EXCEPT ![p] = Nothing]
    /\ deferred' = [deferred EXCEPT ![p] = Nothing]
    /\ game' = [game EXCEPT ![p] = m.content]
    /\ Crossed(p, seen[p] # << >>)
    /\ UNCHANGED <<link, up, seen>>

Ignored == UNCHANGED <<link, client, up>>

Closed(p) ==
    /\ link' = [link EXCEPT ![p] = "closing"]
    /\ UNCHANGED <<client, up>>

(* An accepted update is what the client knows from now on; a change that  *)
(* was held back follows it.                                               *)
Accepted(p, m) ==
    IF pending[p] = Nothing
    THEN IF view[p].rev # 0 /\ view[p].rev >= m.rev THEN Ignored ELSE Closed(p)
    ELSE IF m.rev # pending[p].rev + 1 THEN Closed(p)
    ELSE /\ view' = [view EXCEPT ![p] = State(m.rev, pending[p].content)]
         /\ deferred' = [deferred EXCEPT ![p] = Nothing]
         /\ IF deferred[p] # Nothing /\ deferred[p] # pending[p].content
            THEN /\ Len(up[p]) < MaxWire
                 /\ pending' = [pending EXCEPT ![p] = State(m.rev, deferred[p])]
                 /\ up' = [up EXCEPT ![p] = Append(@, State(m.rev, deferred[p]))]
                 /\ Crossed(p, Unanswered(p) > 1)
            ELSE /\ pending' = [pending EXCEPT ![p] = Nothing]
                 /\ UNCHANGED <<up, strayed>>
         /\ UNCHANGED <<link, game, seen>>

(* A correction, unless the client has moved on; the mutant form thinks it *)
(* can only come while an update is pending.                               *)
RejectedStrictly(p, m) ==
    IF pending[p] = Nothing THEN Closed(p) ELSE Applied(p, m)

Rejected(p, m) ==
    IF pending[p] = Nothing
    THEN IF view[p].rev # 0 /\ view[p].rev >= m.rev THEN Ignored ELSE Closed(p)
    ELSE Applied(p, m)

(* Another's change, unless the client knows it already.                   *)
Updated(p, m) ==
    IF view[p].rev # 0 /\ m.rev <= view[p].rev THEN Ignored ELSE Applied(p, m)

(* handle_game_envelope.                                                   *)
Receive(p) ==
    /\ link[p] = "in" /\ down[p] # << >>
    /\ LET m == Head(down[p]) IN
       \/ m.type = "accepted" /\ Accepted(p, m)
       \/ m.type = "rejected" /\ Rejected(p, m)
       \/ m.type = "updated" /\ Updated(p, m)
    /\ down' = [down EXCEPT ![p] = Tail(@)]
    /\ UNCHANGED <<commits, barred>>

Next ==
    \/ Strip
    \/ \E p \in Players :
           \/ Load(p) \/ Enter(p) \/ Leave(p)
           \/ Act(p) \/ Poll(p) \/ HandleUpdate(p) \/ Receive(p)

Spec == Init /\ [][Next]_vars

----------------------------------------------------------------------------
(* Properties                                                              *)

Quiet(p) == link[p] = "in" /\ up[p] = << >> /\ down[p] = << >>

(* Unless one of its own changes was crossed by an older answer, or it was *)
(* answered with an object that does not exist, a client with nothing      *)
(* under way knows the server's object, its game shows it or a change that *)
(* is about to be sent, and it waits for no answer: but for the first      *)
(* update of an object, whose refusal is never sent, while nobody else's   *)
(* makes the object known.                                                 *)
SteadyClientsAgree ==
    \A p \in Players :
        Quiet(p) /\ strayed[p] \cap {"crossed", "invented"} = {} =>
            /\ view[p] = Current
            /\ \/ pending[p] = Nothing /\ deferred[p] = Nothing
               \/ Revision = 0 /\ "unanswered" \in strayed[p]
            /\ seen[p] = << >> /\ Revision # 0 => game[p] = Current.content

(* No answer closes a client none of whose changes was crossed.            *)
UncrossedClientsStay ==
    \A p \in Players : link[p] = "closing" => "crossed" \in strayed[p]

(* Whatever crosses, a client with nothing under way knows the revision of *)
(* the server's object, so that its next update is not refused for ever.   *)
QuietRevisionsAgree ==
    \A p \in Players :
        Quiet(p) /\ "invented" \notin strayed[p] => view[p].rev = Revision

(* Within a connection, what a client knows never goes back to an older    *)
(* revision.                                                               *)
ViewsMoveForward ==
    [][\A p \in Players :
           link[p] = "in" /\ link'[p] # "away" => view'[p].rev >= view[p].rev]_vars
=============================================================================

---------------------------- MODULE RoomProtocol ----------------------------
(***************************************************************************)
(* One room of the lobby, from its creation to the duel: RoomService and   *)
(* RoomCleanupScheduler of the Spring backend, the duel they ask the duel  *)
(* server for, RoomEventService's streams of server-sent events, and the   *)
(* room page of the browser of every user (RoomStateMachineService).       *)
(*                                                                         *)
(* Join, kick and the two transactions of a start lock the row and are one *)
(* step each.  endRoom and the clean-up jobs do not lock it: they read the *)
(* row, do something slow, and write back all its columns.  What runs      *)
(* after a commit (hooks) runs when its thread gets there.                 *)
(*                                                                         *)
(* Abstracted: decks, names, the presence pings, and time: a room is old   *)
(* enough for a clean-up, and a stream silent enough to be given up, at    *)
(* any moment.  The duels themselves are modelled in DuelSession.          *)
(***************************************************************************)
EXTENDS Integers, Sequences, FiniteSets

CONSTANTS
    Creator,    \* the user who created the room
    Joiners,    \* the users who may join it
    Nobody,     \* player2 of a room without one
    MaxStarts,  \* bound: how many times the duel server is asked for a duel
    MaxClosers, \* bound: how many unlocked transactions there are
    MaxOps      \* bound: how many joins, starts and unlocked transactions there are together

ASSUME RoomAssumption ==
    /\ Creator \notin Joiners /\ Nobody \notin Joiners \cup {Creator}
    /\ MaxStarts \in Nat /\ MaxClosers \in Nat /\ MaxOps \in Nat

VARIABLES
    room,       \* the row: status, player2 and duelServerId, which stands for the tokens too
    starts,     \* [Starts -> the calls of startDuel]
    closers,    \* [Closers -> the unlocked transactions]
    live,       \* the starts whose duel exists on the duel server
    ops,        \* how many joins, starts and unlocked transactions there have been
    hooks,      \* the after-commit sends that have not run yet
    emitters,   \* RoomEventService.emitters: the users with an open stream
    page,       \* [Users -> the room page]
    replies     \* the starts whose HTTP answer is on its way to the creator

server   == <<room, starts, closers, live, ops>>
roomVars == <<server, hooks, emitters, page, replies>>

Users    == {Creator} \cup Joiners
Starts   == 1..MaxStarts
Closers  == 1..MaxClosers
NoDuel   == 0
Statuses == {"WAITING", "READY", "CREATING_DUEL", "ACTIVE", "ENDED", "CLOSED"}
Over     == {"ENDED", "CLOSED"}
Rows     == [status : Statuses, player2 : Joiners \cup {Nobody}, duel : Starts \cup {NoDuel}]
NewRoom  == [status |-> "WAITING", player2 |-> Nobody, duel |-> NoDuel]
Event(kind, n) == [kind |-> kind, n |-> n]
Hook(kind, user, n) == [kind |-> kind, user |-> user, n |-> n]

\* RoomState; "connecting" stands for the duel states too, "picking" for the deck picker.
PageStates == {"away", "picking", "waiting", "ready", "creating-duel", "connecting"}

\* The EventSource: not there, (re)connecting, its request being handled by the server, or open.
Streams == {"none", "asking", "register", "open"}

Participants(row) == {Creator, row.player2} \ {Nobody}

RoomInit ==
    /\ room = NewRoom
    /\ starts = [n \in Starts |-> [stage |-> "unused", player2 |-> Nobody, byPage |-> FALSE]]
    /\ closers = [k \in Closers |-> [stage |-> "unused", row |-> NewRoom]]
    /\ live = {} /\ ops = 0 /\ hooks = {} /\ emitters = {} /\ replies = {}
    /\ page = [u \in Users |-> [state |-> "away",
                                stream |-> "none", inbox |-> <<>>, duel |-> NoDuel]]

Counted == ops < MaxOps /\ ops' = ops + 1

-----------------------------------------------------------------------------
(* The page.                                                               *)

Closed(p) == [p EXCEPT !.stream = "none", !.inbox = <<>>]

\* redirectWithError, leaveRoom
Gone(p) == [Closed(p) EXCEPT !.state = "away", !.duel = NoDuel]

\* startSseSubscription
Subscribed(p, state) == [p EXCEPT !.state = state, !.stream = "asking", !.inbox = <<>>]

\* connectWhenReady
ConnectWhenReady(p, n) ==
    IF n = NoDuel THEN Gone(p)
    ELSE IF p.state = "connecting" THEN p
    ELSE [p EXCEPT !.state = "connecting", !.duel = n]

\* RoomMapper.toRoomDTO: a participant is given the token of the duel.
TokenFor(u, row) == IF u \in Participants(row) THEN row.duel ELSE NoDuel

\* handleRoomStatus of a response with this row
HandleRoomStatus(u, p, row) ==
    CASE row.status = "WAITING" ->
           IF u \in Participants(row) THEN Subscribed(p, "waiting")
           ELSE [p EXCEPT !.state = "picking"]
      [] row.status = "READY" ->
           IF u \in Participants(row) THEN Subscribed(p, "ready") ELSE Gone(p)
      [] row.status = "CREATING_DUEL" -> Subscribed(p, "creating-duel")
      [] row.status = "ACTIVE" -> ConnectWhenReady(p, TokenFor(u, row))
      [] OTHER -> Gone(p)

\* A stream that is left is an emitter no longer.
Show(u, p) ==
    /\ page' = [page EXCEPT ![u] = p]
    /\ emitters' = IF p.stream = "open" THEN emitters ELSE emitters \ {u}

\* fetchRoom: the user opens the link of the room, or reloads the page.
FetchRoom(u) ==
    /\ page[u].state = "away"
    /\ Show(u, HandleRoomStatus(u, page[u], room))
    /\ UNCHANGED <<server, hooks, replies>>

Leave(u) ==
    /\ page[u].state # "away"
    /\ Show(u, Gone(page[u]))
    /\ UNCHANGED <<server, hooks, replies>>

\* The 5-minute timeout of the subscription: getRoom, and its answer is handled like the first.
\* Wrong variant: the stream is not given up.
SilenceIgnored(u) ==
    /\ FALSE
    /\ UNCHANGED roomVars

Silence(u) ==
    /\ page[u].stream # "none" /\ page[u].inbox = <<>>
    /\ Show(u, HandleRoomStatus(u, Closed(page[u]), room))
    /\ UNCHANGED <<server, hooks, replies>>

\* An event of the stream.  The server completes a stream after "ready"; the browser reconnects.
StreamEvent(u) ==
    LET p == [page[u] EXCEPT !.inbox = Tail(@)]
        e == Head(page[u].inbox)
    IN
    /\ page[u].stream = "open" /\ page[u].inbox # <<>>
    /\ Show(u, CASE e.kind = "joined-ready" -> [p EXCEPT !.state = "ready"]
                 [] e.kind = "kicked" -> Gone(p)
                 [] e.kind = "ready" -> ConnectWhenReady(p, e.n)
                 [] e.kind = "end" -> [p EXCEPT !.stream = "asking"])
    /\ UNCHANGED <<server, hooks, replies>>

\* The answer to startDuel, which races with the event.
StartReply(n) ==
    LET p == page[Creator] IN
    /\ n \in replies /\ replies' = replies \ {n}
    /\ Show(Creator, IF p.state = "away" THEN p ELSE ConnectWhenReady(p, n))
    /\ UNCHANGED <<server, hooks>>

-----------------------------------------------------------------------------
(* RoomEventService.                                                       *)

\* subscribe: the row is read first.  A started duel is answered from it and completed, and who
\* is not a participant of an open room is refused ...
Subscribe(u) ==
    LET p == page[u] IN
    /\ p.stream = "asking"
    /\ Show(u, IF u \notin Participants(room) \/ room.status \in Over
               THEN HandleRoomStatus(u, Closed(p), room)
               ELSE IF room.status = "ACTIVE"
               THEN [p EXCEPT !.stream = "open",
                              !.inbox = <<Event("ready", room.duel), Event("end", 0)>>]
               ELSE [p EXCEPT !.stream = "register"])
    /\ UNCHANGED <<server, hooks, replies>>

\* ... and then the emitter is put, without another look at the room.
Registered(u) ==
    /\ page[u].stream = "register"
    /\ page' = [page EXCEPT ![u].stream = "open"]
    /\ emitters' = emitters \cup {u}
    /\ UNCHANGED <<server, hooks, replies>>

Sent(u, events) ==
    IF u \in emitters THEN [page EXCEPT ![u].inbox = @ \o events] ELSE page

\* The events of sendRoomReady: to the two participants of the hook, whose streams it completes.
\* Wrong variant: whoever has a stream is told.
ReadyToAll(u, h) == <<Event("ready", h.n), Event("end", 0)>>
ReadyEvents(u, h) ==
    IF u \in {Creator, h.user} THEN <<Event("ready", h.n), Event("end", 0)>> ELSE <<>>

\* sendKicked and sendRoomReady, run by the hook of their transaction
RunHook(h) ==
    /\ h \in hooks /\ hooks' = hooks \ {h}
    /\ \/ /\ h.kind = "kicked"
          /\ page' = Sent(h.user, <<Event("kicked", 0)>>)
          /\ UNCHANGED emitters
       \/ /\ h.kind = "ready"
          /\ page' = [u \in Users |->
                IF u \in emitters
                THEN [page[u] EXCEPT !.inbox = @ \o ReadyEvents(u, h)]
                ELSE page[u]]
          /\ emitters' = {}
    /\ UNCHANGED <<server, replies>>

-----------------------------------------------------------------------------
(* RoomService: the transactions that lock the row.                        *)

\* joinRoom; the response leads the page to the waiting room.  Its hook is run with it: only the
\* creator is told, of whose requests none can have come in between.
JoinRoom(u) ==
    /\ page[u].state = "picking"
    /\ \/ /\ room.status = "WAITING"
          /\ Counted
          /\ room' = [room EXCEPT !.player2 = u, !.status = "READY"]
          /\ page' = [Sent(Creator, <<Event("joined-ready", 0)>>) EXCEPT
                        ![u] = Subscribed(page[u], "ready")]
          /\ emitters' = emitters \ {u}
       \/ /\ room.status # "WAITING"
          /\ Show(u, Gone(page[u]))
          /\ UNCHANGED <<room, ops>>
    /\ UNCHANGED <<starts, closers, live, hooks, replies>>

KickPlayer ==
    /\ page[Creator].state = "ready"
    /\ room.status = "READY"
    /\ room' = [room EXCEPT !.player2 = Nobody, !.status = "WAITING"]
    /\ hooks' = hooks \cup {Hook("kicked", room.player2, ops)}
    /\ page' = [page EXCEPT ![Creator].state = "waiting"]
    /\ UNCHANGED <<starts, closers, live, ops, emitters, replies>>

\* startDuel and its first transaction, prepareDuelStart.  The creator's page asks for it when it
\* shows the ready room, another tab of the creator at any moment; that tab is not followed
\* further.  A refusal leads the page that asked away from the room.
AsksForStart(n, byPage) ==
    /\ starts[n].stage = "unused" /\ \A m \in Starts : m < n => starts[m].stage # "unused"
    /\ byPage => page[Creator].state = "ready"

PageShows(byPage, p) == IF byPage THEN Show(Creator, p) ELSE UNCHANGED <<page, emitters>>

Claim(n, byPage) ==
    /\ Counted
    /\ room' = [room EXCEPT !.status = "CREATING_DUEL"]
    /\ starts' = [starts EXCEPT ![n] = [stage |-> "prepared", player2 |-> room.player2,
                                        byPage |-> byPage]]
    /\ PageShows(byPage, [page[Creator] EXCEPT !.state = "creating-duel"])

Refuse(byPage) ==
    /\ PageShows(byPage, Gone(page[Creator]))
    /\ UNCHANGED <<room, starts, ops>>

\* Wrong variant: the room need not be READY.
PrepareAnyway(n, byPage) ==
    /\ AsksForStart(n, byPage)
    /\ \/ room.player2 # Nobody /\ Claim(n, byPage)
       \/ room.player2 = Nobody /\ Refuse(byPage)
    /\ UNCHANGED <<closers, live, hooks, replies>>

PrepareDuelStart(n, byPage) ==
    /\ AsksForStart(n, byPage)
    /\ \/ room.status = "READY" /\ Claim(n, byPage)
       \/ room.status # "READY" /\ Refuse(byPage)
    /\ UNCHANGED <<closers, live, hooks, replies>>

\* A duel ends by itself, or nobody ever connects to it (see DuelSession).
DuelOver(n) ==
    /\ n \in live /\ live' = live \ {n}
    /\ UNCHANGED <<room, starts, closers, ops, hooks, emitters, page, replies>>

\* The duel server has answered, and finalizeDuelStart follows.  (A duel created after the backend
\* stopped waiting is nobody's, and expires there.)  The query locks the row, but the request's
\* session (open in view, Spring's default) still holds the entity that prepareDuelStart left, and
\* that is what it writes back.
FinalizeDuelStart(n) ==
    /\ starts[n].stage = "prepared" /\ live' = live \cup {n}
    /\ starts' = [starts EXCEPT ![n].stage = "done"]
    /\ room' = [status |-> "ACTIVE", player2 |-> starts[n].player2, duel |-> n]
    /\ hooks' = hooks \cup {Hook("ready", starts[n].player2, n)}
    /\ replies' = IF starts[n].byPage THEN replies \cup {n} ELSE replies
    /\ UNCHANGED <<closers, ops, emitters, page>>

\* rollbackDuelStart, after an error or the timeout of the request.  It too writes the entity that
\* prepareDuelStart left, WAITING and without the joiner; a room not yet started names no duel.
\* The joiner is not told.
RollbackDuelStart(n) ==
    /\ starts[n].stage = "prepared"
    /\ starts' = [starts EXCEPT ![n] = [stage |-> "failed", player2 |-> Nobody, byPage |-> FALSE]]
    /\ room' = NewRoom
    /\ page' = [page EXCEPT ![Creator].state =
                    IF @ = "away" \/ ~starts[n].byPage THEN @ ELSE "waiting"]
    /\ UNCHANGED <<closers, live, ops, hooks, emitters, replies>>

-----------------------------------------------------------------------------
(* The transactions that do not lock it.                                   *)

\* closeRoomInternal reads the room; a participant leaves the duel, or an administrator ends it.
EndRoomReads(k) ==
    /\ closers[k].stage = "unused" /\ room.status \notin Over
    /\ closers' = [closers EXCEPT ![k] = [stage |-> "ending", row |-> room]]
    /\ Counted
    /\ UNCHANGED <<room, starts, live, hooks, emitters, page, replies>>

\* After terminateDuel, which may fail unnoticed, the streams are completed and the row written.
EndRoomWrites(k) ==
    LET d == closers[k].row.duel IN
    /\ closers[k].stage = "ending"
    /\ closers' = [closers EXCEPT ![k] = [stage |-> "done", row |-> NewRoom]]
    /\ live' \in {live, live \ {d}}
    /\ page' = [u \in Users |-> IF u \in emitters
                                THEN [page[u] EXCEPT !.inbox = Append(@, Event("end", 0))]
                                ELSE page[u]]
    /\ emitters' = {}
    /\ room' = [closers[k].row EXCEPT !.status = "ENDED"]
    /\ UNCHANGED <<starts, ops, hooks, replies>>

\* The four clean-up jobs find the room ...
CleanupReads(k) ==
    /\ closers[k].stage = "unused" /\ room.status \notin Over
    /\ closers' = [closers EXCEPT ![k] = [stage |-> "cleaning", row |-> room]]
    /\ Counted
    /\ UNCHANGED <<room, starts, live, hooks, emitters, page, replies>>

\* ... and close it; an ACTIVE one only if the duel server no longer lists its duel.
CleanupWrites(k) ==
    LET row == closers[k].row IN
    /\ closers[k].stage = "cleaning"
    /\ closers' = [closers EXCEPT ![k] = [stage |-> "done", row |-> NewRoom]]
    /\ \/ /\ row.status = "ACTIVE" => row.duel \notin live
          /\ room' = [row EXCEPT !.status = "CLOSED"]
       \/ row.status = "ACTIVE" /\ UNCHANGED room
    /\ UNCHANGED <<starts, live, ops, hooks, emitters, page, replies>>

RoomNext ==
    \/ \E u \in Users :
         \/ FetchRoom(u) \/ Leave(u) \/ Silence(u)
         \/ StreamEvent(u) \/ Subscribe(u) \/ Registered(u) \/ JoinRoom(u)
    \/ \E n \in replies : StartReply(n)
    \/ \E h \in hooks : RunHook(h)
    \/ KickPlayer
    \/ \E n \in Starts :
         \/ \E byPage \in BOOLEAN : PrepareDuelStart(n, byPage)
         \/ DuelOver(n) \/ FinalizeDuelStart(n)
         \/ RollbackDuelStart(n)
    \/ \E k \in Closers :
         \/ EndRoomReads(k) \/ EndRoomWrites(k) \/ CleanupReads(k) \/ CleanupWrites(k)

RoomSpec == RoomInit /\ [][RoomNext]_roomVars

\* The requests of a stream are answered and its events are handled, one after the other, and the
\* timeout of a silent one fires.
StreamStep(u) == StreamEvent(u) \/ Subscribe(u) \/ Registered(u)

RoomFairness == \A u \in Users : WF_roomVars(Silence(u)) /\ WF_roomVars(StreamStep(u))

RoomFairSpec == RoomSpec /\ RoomFairness

-----------------------------------------------------------------------------
(* Properties.                                                             *)

RoomTypeOK ==
    /\ room \in Rows
    /\ starts \in [Starts -> [stage : {"unused", "prepared", "failed", "done"},
                              player2 : Joiners \cup {Nobody}, byPage : BOOLEAN]]
    /\ closers \in [Closers -> [stage : {"unused", "ending", "cleaning", "done"},
                                row : Rows]]
    /\ live \subseteq Starts /\ ops \in 0..MaxOps /\ emitters \subseteq Users
    /\ \A u \in Users : page[u].state \in PageStates /\ page[u].stream \in Streams
                        /\ page[u].duel \in Starts \cup {NoDuel}
                        /\ page[u].state = "connecting" => page[u].duel # NoDuel

Prepared == {n \in Starts : starts[n].stage = "prepared"}

\* The duel server is asked for one duel at a time, although endRoom and the clean-ups may write
\* an old row over the status that guards the start.
OneStartAtATime == Cardinality(Prepared) <= 1

\* No room is bridged to two duels: everybody who is sent to a duel is sent to the same one.
OneDuelPerRoom ==
    \A m, n \in Starts : starts[m].stage = "done" /\ starts[n].stage = "done" => m = n

\* A token leads the user to the seat the duel was created for: whoever connects is the creator
\* or the player the start was prepared with.
TokensGoToTheirPlayers ==
    \A u \in Users : page[u].state = "connecting" =>
        u = Creator \/ u = starts[page[u].duel].player2

\* RoomService.java:175 ("The CREATING_DUEL status is the guard between steps"): a room that was
\* ended or closed stays so.
EndedIsFinal == [][room.status \in Over => room'.status \in Over]_roomVars

\* A player whose page waits for a duel that has been created is taken there, even when the
\* event was sent while no stream was open.
StartedDuelIsReached ==
    \A u \in Users :
        room.status = "ACTIVE" /\ u \in Participants(room)
            /\ page[u].state \in {"waiting", "ready", "creating-duel"}
        ~> room.status # "ACTIVE" \/ page[u].state \notin {"waiting", "ready", "creating-duel"}

=============================================================================

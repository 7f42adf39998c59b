------------------------ MODULE RoomProtocol_proofs -------------------------
(***************************************************************************)
(* Proof that a room is bridged to one duel, asked for once at a time, and *)
(* that whoever is sent to a duel has a seat in it: for any joiners, any   *)
(* number of starts and of transactions that write an old row back.        *)
(*                                                                         *)
(* Two facts carry it. Locked: a row that is WAITING or READY has no start *)
(* on its way and none behind it, since the unlocked writers only ever     *)
(* write ENDED or CLOSED. Seat: a start that is done keeps its player, so  *)
(* that a token may be given, by the row, by an event or by an answer, at  *)
(* any later time.                                                         *)
(***************************************************************************)
EXTENDS RoomProtocol, FiniteSetTheorems, TLAPS

Events == [kind : {"joined-ready", "kicked", "ready", "end"}, n : Starts \cup {0}]
Hooks  == [kind : {"kicked"}, user : Joiners \cup {Nobody}, n : Nat]
          \cup [kind : {"ready"}, user : Joiners \cup {Nobody}, n : Starts]
Pages  == [state : PageStates, stream : Streams, inbox : Seq(Events), duel : Starts \cup {NoDuel}]

Typed ==
    /\ room \in Rows
    /\ starts \in [Starts -> [stage : {"unused", "prepared", "failed", "done"},
                              player2 : Joiners \cup {Nobody}, byPage : BOOLEAN]]
    /\ closers \in [Closers -> [stage : {"unused", "ending", "cleaning", "done"}, row : Rows]]
    /\ live \subseteq Starts /\ ops \in 0..MaxOps /\ emitters \subseteq Users
    /\ hooks \subseteq Hooks /\ replies \subseteq Starts

\* A start that is on its way, or has led to the room's duel.
Bridged(s) == {n \in Starts : s[n].stage \in {"prepared", "done"}}

\* The status of the row guards the start: see prepareDuelStart.
Locked ==
    /\ room.status \in {"WAITING", "READY"} => Bridged(starts) = {}
    /\ \A m, n \in Bridged(starts) : m = n

\* The duel n, by the starts s, has a seat for u.
Seat(s, u, n) ==
    n \in Starts /\ s[n].stage = "done" /\ u \in {Creator, s[n].player2}

\* A page is at a duel where its user has a seat, or has been told of such a duel; the creator
\* never picks a deck to join his own room.
OnSeat(s, u, p) ==
    /\ p \in Pages
    /\ p.state = "picking" => u \in Joiners
    /\ p.state = "connecting" => Seat(s, u, p.duel)
    /\ \A i \in 1..Len(p.inbox) : p.inbox[i].kind = "ready" => Seat(s, u, p.inbox[i].n)

RowLeadsHome ==
    room.status = "ACTIVE" => /\ room.duel \in Starts
                              /\ starts[room.duel].stage = "done"
                              /\ starts[room.duel].player2 = room.player2
NewsLeadHome ==
    /\ \A h \in hooks : h.kind = "ready" => Seat(starts, h.user, h.n) /\ Seat(starts, Creator, h.n)
    /\ \A n \in replies : Seat(starts, Creator, n)

Seated ==
    /\ DOMAIN page = Users
    /\ \A u \in Users : OnSeat(starts, u, page[u])

RoomInv == Typed /\ Locked /\ RowLeadsHome /\ NewsLeadHome /\ Seated

-----------------------------------------------------------------------------
(* Pages. *)

LEMMA SeatsStay ==
    ASSUME NEW s, NEW t, \A n \in Starts : s[n].stage = "done" => t[n] = s[n],
           NEW u, NEW p, OnSeat(s, u, p)
    PROVE  OnSeat(t, u, p)
  BY DEF OnSeat, Seat

LEMMA ClosedPage ==
    ASSUME NEW s, NEW u, NEW p, OnSeat(s, u, p)
    PROVE  OnSeat(s, u, Closed(p)) /\ OnSeat(s, u, Gone(p))
  <1>1. p \in Pages /\ (p.state = "connecting" => Seat(s, u, p.duel))
    BY DEF OnSeat
  <1> DEFINE none == <<>>
  <1>a. none \in Seq(Events)
    OBVIOUS
  <1> HIDE DEF none
  <1>b. Closed(p) = [p EXCEPT !.stream = "none", !.inbox = none]
    BY DEF Closed, none
  <1>2. /\ Closed(p) \in Pages /\ Closed(p).inbox = none
        /\ Closed(p).state = p.state /\ Closed(p).duel = p.duel
    BY <1>1, <1>a, <1>b DEF Pages, Streams
  <1>3. Gone(p) \in Pages /\ Gone(p).inbox = none /\ Gone(p).state = "away"
    BY <1>2 DEF Gone, Pages, PageStates
  <1>c. Len(none) = 0
    BY DEF none
  <1>4. QED BY <1>1, <1>2, <1>3, <1>c DEF OnSeat

LEMMA SubscribedPage ==
    ASSUME NEW s, NEW u, NEW p, OnSeat(s, u, p), NEW state \in PageStates \ {"connecting"},
           state = "picking" => u \in Joiners
    PROVE  /\ OnSeat(s, u, Subscribed(p, state)) /\ OnSeat(s, u, [p EXCEPT !.state = state])
  <1>1. p \in Pages
    BY DEF OnSeat
  <1> DEFINE none == <<>>
  <1>a. none \in Seq(Events) /\ Len(none) = 0
    OBVIOUS
  <1> HIDE DEF none
  <1>b. Subscribed(p, state) = [p EXCEPT !.state = state, !.stream = "asking", !.inbox = none]
    BY DEF Subscribed, none
  <1>2. /\ Subscribed(p, state) \in Pages /\ Subscribed(p, state).inbox = none
        /\ Subscribed(p, state).state = state
    BY <1>1, <1>a, <1>b DEF Pages, Streams
  <1>3. /\ [p EXCEPT !.state = state] \in Pages /\ [p EXCEPT !.state = state].state = state
        /\ [p EXCEPT !.state = state].inbox = p.inbox
    BY <1>1 DEF Pages
  <1>4. QED BY <1>1, <1>2, <1>3, <1>a DEF OnSeat

LEMMA ConnectedPage ==
    ASSUME NEW s, NEW u, NEW p, OnSeat(s, u, p), NEW n, n = NoDuel \/ Seat(s, u, n)
    PROVE  OnSeat(s, u, ConnectWhenReady(p, n))
  <1>1. CASE n = NoDuel \/ p.state = "connecting"
    BY <1>1, ClosedPage DEF ConnectWhenReady
  <1>2. CASE n # NoDuel /\ p.state # "connecting"
    <2> DEFINE q == [p EXCEPT !.state = "connecting", !.duel = n]
    <2>1. p \in Pages /\ n \in Starts /\ Seat(s, u, n)
      BY <1>2 DEF OnSeat, Seat
    <2>2. q \in Pages /\ q.duel = n /\ q.inbox = p.inbox /\ q.state = "connecting"
      BY <2>1 DEF Pages, PageStates
    <2>3. ConnectWhenReady(p, n) = q
      BY <1>2 DEF ConnectWhenReady
    <2> HIDE DEF q
    <2>4. QED BY <2>1, <2>2, <2>3 DEF OnSeat
  <1>3. QED BY <1>1, <1>2

\* A response with the row, handled when it was made.
LEMMA AnsweredPage ==
    ASSUME RoomInv, NEW u \in Users, NEW p, OnSeat(starts, u, p)
    PROVE  OnSeat(starts, u, HandleRoomStatus(u, p, room))
  <1>1. room.status \in Statuses /\ {"waiting", "picking", "ready", "creating-duel"}
                                       \subseteq PageStates \ {"connecting"}
    BY DEF RoomInv, Typed, Rows, PageStates
  <1>2. CASE room.status = "WAITING"
    <2>1. u \in Participants(room) \/ u \in Joiners
      BY RoomAssumption DEF Participants, Users
    <2>2. QED BY <1>1, <1>2, <2>1, SubscribedPage DEF HandleRoomStatus
  <1>3. CASE room.status = "READY"
    BY <1>1, <1>3, SubscribedPage, ClosedPage DEF HandleRoomStatus
  <1>4. CASE room.status = "CREATING_DUEL"
    BY <1>1, <1>4, SubscribedPage DEF HandleRoomStatus
  <1>5. CASE room.status = "ACTIVE"
    <2>1. TokenFor(u, room) = NoDuel \/ Seat(starts, u, TokenFor(u, room))
      BY <1>5 DEF RoomInv, RowLeadsHome, Seat, TokenFor, Participants
    <2>2. QED BY <1>5, <2>1, ConnectedPage DEF HandleRoomStatus
  <1>6. CASE room.status \in Over
    BY <1>6, ClosedPage DEF HandleRoomStatus, Over
  <1>7. QED BY <1>1, <1>2, <1>3, <1>4, <1>5, <1>6 DEF Statuses, Over

\* An event arrives at the page of u: an event of a start only if u has a seat.
LEMMA ToldPage ==
    ASSUME NEW s, NEW u, NEW p, OnSeat(s, u, p), NEW events \in Seq(Events),
           \A i \in 1..Len(events) : events[i].kind = "ready" => Seat(s, u, events[i].n)
    PROVE  OnSeat(s, u, [p EXCEPT !.inbox = @ \o events])
  <1> DEFINE q == [p EXCEPT !.inbox = @ \o events]
  <1>1. p \in Pages /\ p.inbox \in Seq(Events)
    BY DEF OnSeat, Pages
  <1>2. p.inbox \o events \in Seq(Events)
    BY <1>1
  <1>3. q \in Pages /\ q.inbox = p.inbox \o events /\ q.state = p.state /\ q.duel = p.duel
    BY <1>1, <1>2 DEF Pages
  <1>4. \A i \in 1..Len(q.inbox) :
           q.inbox[i] = IF i <= Len(p.inbox) THEN p.inbox[i] ELSE events[i - Len(p.inbox)]
    BY <1>1, <1>3
  <1>5. \A i \in 1..Len(q.inbox) : i \in 1..Len(p.inbox) \/ i - Len(p.inbox) \in 1..Len(events)
    BY <1>1, <1>3
  <1> HIDE DEF q
  <1>6. \A i \in 1..Len(q.inbox) : q.inbox[i].kind = "ready" => Seat(s, u, q.inbox[i].n)
    <2>1. SUFFICES ASSUME NEW i \in 1..Len(q.inbox), q.inbox[i].kind = "ready"
                   PROVE  Seat(s, u, q.inbox[i].n)
      OBVIOUS
    <2>2. CASE i <= Len(p.inbox)
      BY <1>1, <1>4, <2>1, <2>2 DEF OnSeat
    <2>3. CASE ~(i <= Len(p.inbox))
      <3> DEFINE k == i - Len(p.inbox)
      <3>1. k \in 1..Len(events)
        BY <1>1, <1>5, <2>3
      <3>2. q.inbox[i] = events[k]
        BY <1>4, <2>3
      <3> HIDE DEF k
      <3>3. QED BY <2>1, <3>1, <3>2
    <2>4. QED BY <2>2, <2>3
  <1>7. QED BY <1>3, <1>6 DEF OnSeat, q

-----------------------------------------------------------------------------
(* Steps of a single page. *)

\* The pages when one of them changes.
LEMMA ShownPage ==
    ASSUME RoomInv, NEW u \in Users, NEW p, OnSeat(starts, u, p), Show(u, p), UNCHANGED starts
    PROVE  Seated' /\ emitters' \subseteq Users
  <1>1. page' = [page EXCEPT ![u] = p] /\ emitters' \subseteq emitters
    BY DEF Show
  <1>2. DOMAIN page' = Users
        /\ \A v \in Users : page'[v] = IF v = u THEN p ELSE page[v]
    BY <1>1 DEF RoomInv, Seated
  <1>3. QED BY <1>1, <1>2 DEF RoomInv, Seated, Typed

LEMMA PageOfUser ==
    ASSUME RoomInv, NEW u \in Users
    PROVE  OnSeat(starts, u, page[u])
  BY DEF RoomInv, Seated

\* A step of a page that changes nothing on the server.
LEMMA PageStep ==
    ASSUME RoomInv, Seated', emitters' \subseteq Users, UNCHANGED <<server, hooks>>,
           replies' \subseteq replies
    PROVE  RoomInv'
  <1>1. Typed'
    BY DEF RoomInv, Typed, server
  <1>2. Locked' /\ RowLeadsHome'
    BY DEF RoomInv, Locked, Bridged, RowLeadsHome, server
  <1>3. NewsLeadHome'
    BY DEF RoomInv, NewsLeadHome, Seat, server
  <1>4. QED BY <1>1, <1>2, <1>3 DEF RoomInv

LEMMA FetchRoomKeeps ==
    ASSUME RoomInv, NEW u \in Users, FetchRoom(u)
    PROVE  RoomInv'
  <1>1. OnSeat(starts, u, HandleRoomStatus(u, page[u], room))
    BY PageOfUser, AnsweredPage
  <1>2. Seated' /\ emitters' \subseteq Users
    BY <1>1, ShownPage DEF FetchRoom, server
  <1>3. QED BY <1>2, PageStep DEF FetchRoom

LEMMA LeaveKeeps ==
    ASSUME RoomInv, NEW u \in Users, Leave(u)
    PROVE  RoomInv'
  <1>1. OnSeat(starts, u, Gone(page[u]))
    BY PageOfUser, ClosedPage
  <1>2. Seated' /\ emitters' \subseteq Users
    BY <1>1, ShownPage DEF Leave, server
  <1>3. QED BY <1>2, PageStep DEF Leave

LEMMA SilenceKeeps ==
    ASSUME RoomInv, NEW u \in Users, Silence(u)
    PROVE  RoomInv'
  <1>1. OnSeat(starts, u, Closed(page[u]))
    BY PageOfUser, ClosedPage
  <1>2. OnSeat(starts, u, HandleRoomStatus(u, Closed(page[u]), room))
    BY <1>1, AnsweredPage
  <1>3. Seated' /\ emitters' \subseteq Users
    BY <1>2, ShownPage DEF Silence, server
  <1>4. QED BY <1>3, PageStep DEF Silence

LEMMA StreamEventKeeps ==
    ASSUME RoomInv, NEW u \in Users, StreamEvent(u)
    PROVE  RoomInv'
  <1> DEFINE p == [page[u] EXCEPT !.inbox = Tail(@)]
             e == Head(page[u].inbox)
             q == CASE e.kind = "joined-ready" -> [p EXCEPT !.state = "ready"]
                    [] e.kind = "kicked" -> Gone(p)
                    [] e.kind = "ready" -> ConnectWhenReady(p, e.n)
                    [] e.kind = "end" -> [p EXCEPT !.stream = "asking"]
  <1>1. page[u] \in Pages /\ OnSeat(starts, u, page[u]) /\ page[u].inbox \in Seq(Events)
        /\ page[u].inbox # <<>>
    BY PageOfUser DEF StreamEvent, OnSeat, Pages
  <1>2. e \in Events /\ e = page[u].inbox[1] /\ 1 \in 1..Len(page[u].inbox)
    BY <1>1
  <1>3. e.kind = "ready" => Seat(starts, u, e.n)
    BY <1>1, <1>2 DEF OnSeat
  <1>4. /\ Tail(page[u].inbox) \in Seq(Events)
        /\ Len(Tail(page[u].inbox)) = Len(page[u].inbox) - 1
        /\ \A i \in 1..Len(Tail(page[u].inbox)) :
              Tail(page[u].inbox)[i] = page[u].inbox[i + 1] /\ i + 1 \in 1..Len(page[u].inbox)
    BY <1>1
  <1>5. OnSeat(starts, u, p)
    <2>1. p \in Pages /\ p.inbox = Tail(page[u].inbox) /\ p.state = page[u].state
          /\ p.duel = page[u].duel
      BY <1>1, <1>4 DEF Pages
    <2> HIDE DEF p
    <2>2. \A i \in 1..Len(p.inbox) : p.inbox[i].kind = "ready" => Seat(starts, u, p.inbox[i].n)
      BY <1>1, <1>4, <2>1 DEF OnSeat
    <2>3. QED BY <1>1, <2>1, <2>2 DEF OnSeat
  <1> HIDE DEF p, e
  <1>6. OnSeat(starts, u, q)
    <2>1. CASE e.kind = "joined-ready"
      BY <1>5, <2>1, SubscribedPage, "ready" \in PageStates \ {"connecting"} DEF PageStates
    <2>2. CASE e.kind = "kicked"
      BY <1>5, <2>2, ClosedPage
    <2>3. CASE e.kind = "ready"
      BY <1>3, <1>5, <2>3, ConnectedPage
    <2>4. CASE e.kind = "end"
      <3> DEFINE a == [p EXCEPT !.stream = "asking"]
      <3>1. p \in Pages
        BY <1>5 DEF OnSeat
      <3>2. a \in Pages /\ a.inbox = p.inbox /\ a.state = p.state /\ a.duel = p.duel
        BY <3>1 DEF Pages, Streams
      <3>3. q = a
        BY <2>4
      <3> HIDE DEF a, q
      <3>4. QED BY <1>5, <3>2, <3>3 DEF OnSeat
    <2>5. QED BY <1>2, <2>1, <2>2, <2>3, <2>4 DEF Events
  <1>7. Show(u, q) /\ UNCHANGED <<server, hooks, replies>>
    BY DEF StreamEvent, p, e
  <1> HIDE DEF q
  <1>8. Seated' /\ emitters' \subseteq Users
    BY <1>6, <1>7, ShownPage DEF server
  <1>9. QED BY <1>7, <1>8, PageStep

LEMMA StartReplyKeeps ==
    ASSUME RoomInv, NEW n \in replies, StartReply(n)
    PROVE  RoomInv'
  <1> DEFINE p == page[Creator]
             q == IF p.state = "away" THEN p ELSE ConnectWhenReady(p, n)
  <1>1. Creator \in Users /\ Seat(starts, Creator, n)
    BY DEF RoomInv, NewsLeadHome, Users
  <1>2. OnSeat(starts, Creator, q)
    BY <1>1, PageOfUser, ConnectedPage
  <1>3. Show(Creator, q) /\ UNCHANGED <<server, hooks>> /\ replies' \subseteq replies
    BY DEF StartReply
  <1> HIDE DEF q
  <1>4. Seated' /\ emitters' \subseteq Users
    BY <1>1, <1>2, <1>3, ShownPage DEF server
  <1>5. QED BY <1>3, <1>4, PageStep

\* The answer to a subscription: a started duel's event and the end of the stream.
LEMMA SubscribeKeeps ==
    ASSUME RoomInv, NEW u \in Users, Subscribe(u)
    PROVE  RoomInv'
  <1> DEFINE p == page[u]
             events == <<Event("ready", room.duel), Event("end", 0)>>
             told == [p EXCEPT !.stream = "open", !.inbox = events]
             put == [p EXCEPT !.stream = "register"]
             q == IF u \notin Participants(room) \/ room.status \in Over
                  THEN HandleRoomStatus(u, Closed(p), room)
                  ELSE IF room.status = "ACTIVE" THEN told ELSE put
  <1>1. p \in Pages /\ OnSeat(starts, u, p)
    BY PageOfUser DEF OnSeat
  <1>2. OnSeat(starts, u, HandleRoomStatus(u, Closed(p), room))
    BY <1>1, ClosedPage, AnsweredPage
  <1>3. OnSeat(starts, u, put)
    <2>1. put \in Pages /\ put.inbox = p.inbox /\ put.state = p.state /\ put.duel = p.duel
      BY <1>1 DEF Pages, Streams
    <2> HIDE DEF put, p
    <2>2. QED BY <1>1, <2>1 DEF OnSeat
  <1>4. ASSUME u \in Participants(room), room.status = "ACTIVE"
        PROVE  OnSeat(starts, u, told)
    <2>1. Seat(starts, u, room.duel) /\ room.duel \in Starts
      BY <1>4 DEF RoomInv, RowLeadsHome, Seat, Participants
    <2>2. /\ Event("ready", room.duel) \in Events /\ Event("end", 0) \in Events
          /\ Event("ready", room.duel).n = room.duel /\ Event("end", 0).kind = "end"
      BY <2>1 DEF Event, Events
    <2>3. events \in Seq(Events) /\ Len(events) = 2
          /\ events[1] = Event("ready", room.duel) /\ events[2] = Event("end", 0)
      BY <2>2
    <2> HIDE DEF events
    <2>4. told \in Pages /\ told.inbox = events /\ told.state = p.state /\ told.duel = p.duel
      BY <1>1, <2>3 DEF Pages, Streams
    <2> HIDE DEF told, p
    <2>5. \A i \in 1..Len(events) : events[i].kind = "ready" => Seat(starts, u, events[i].n)
      <3>1. SUFFICES ASSUME NEW i \in 1..Len(events), events[i].kind = "ready"
                     PROVE  Seat(starts, u, events[i].n)
        OBVIOUS
      <3>2. i = 1 \/ i = 2
        BY <2>3
      <3>3. QED BY <2>1, <2>2, <2>3, <3>1, <3>2
    <2>6. QED BY <1>1, <2>4, <2>5 DEF OnSeat
  <1>5. Show(u, q) /\ UNCHANGED <<server, hooks, replies>>
    BY DEF Subscribe
  <1> HIDE DEF p, told, put
  <1>6. OnSeat(starts, u, q)
    BY <1>2, <1>3, <1>4
  <1> HIDE DEF q
  <1>7. Seated' /\ emitters' \subseteq Users
    BY <1>5, <1>6, ShownPage DEF server
  <1>8. QED BY <1>5, <1>7, PageStep

LEMMA RegisteredKeeps ==
    ASSUME RoomInv, NEW u \in Users, Registered(u)
    PROVE  RoomInv'
  <1> DEFINE q == [page[u] EXCEPT !.stream = "open"]
  <1>1. page[u] \in Pages /\ OnSeat(starts, u, page[u])
    BY PageOfUser DEF OnSeat
  <1>2. q \in Pages /\ q.inbox = page[u].inbox /\ q.state = page[u].state /\ q.duel = page[u].duel
    BY <1>1 DEF Pages, Streams
  <1>3. page' = [page EXCEPT ![u] = q] /\ emitters' \subseteq Users
    BY DEF Registered, RoomInv, Typed
  <1> HIDE DEF q
  <1>4. OnSeat(starts, u, q)
    BY <1>1, <1>2 DEF OnSeat
  <1>5. DOMAIN page' = Users
        /\ \A v \in Users : page'[v] = IF v = u THEN q ELSE page[v]
    BY <1>3 DEF RoomInv, Seated
  <1>6. Seated'
    BY <1>4, <1>5 DEF Registered, RoomInv, Seated, server
  <1>7. QED BY <1>3, <1>6, PageStep DEF Registered

-----------------------------------------------------------------------------
(* Events for several pages. *)

\* Every page is sent what its user has a seat for.
LEMMA ToldPages ==
    ASSUME RoomInv,
           DOMAIN page' = Users,
           \A v \in Users : OnSeat(starts, v, page'[v]),
           UNCHANGED <<starts>>
    PROVE  Seated'
  BY DEF Seated

\* One page of the pages is changed, or none is.
LEMMA OnePage ==
    ASSUME RoomInv, NEW u, NEW q, NEW sent \in BOOLEAN, NEW pages,
           pages = IF sent THEN [page EXCEPT ![u] = q] ELSE page
    PROVE  /\ DOMAIN pages = Users
           /\ \A v \in Users : pages[v] = page[v] \/ (v = u /\ pages[v] = q)
  <1>1. DOMAIN page = Users
    BY DEF RoomInv, Seated
  <1>2. CASE sent
    <2>1. pages = [page EXCEPT ![u] = q]
      BY <1>2, Zenon
    <2>2. QED BY <1>1, <2>1
  <1>3. CASE ~sent
    <2>1. pages = page
      BY <1>3, Zenon
    <2>2. QED BY <1>1, <2>1
  <1>4. QED BY <1>2, <1>3

LEMMA EndEvent ==
    /\ <<Event("end", 0)>> \in Seq(Events) /\ <<Event("kicked", 0)>> \in Seq(Events)
    /\ <<Event("joined-ready", 0)>> \in Seq(Events)
    /\ \A kind \in {"end", "kicked", "joined-ready"} :
          Len(<<Event(kind, 0)>>) = 1 /\ <<Event(kind, 0)>>[1].kind = kind
  BY DEF Event, Events

\* One of these is news to nobody's seat.
LEMMA QuietEvent ==
    ASSUME NEW s, NEW u, NEW p, OnSeat(s, u, p), NEW kind \in {"end", "kicked", "joined-ready"}
    PROVE  OnSeat(s, u, [p EXCEPT !.inbox = @ \o <<Event(kind, 0)>>])
  <1> DEFINE events == <<Event(kind, 0)>>
  <1>1. events \in Seq(Events) /\ Len(events) = 1 /\ events[1].kind = kind
    BY EndEvent
  <1> HIDE DEF events
  <1>2. \A i \in 1..Len(events) : events[i].kind = "ready" => Seat(s, u, events[i].n)
    BY <1>1
  <1>3. OnSeat(s, u, [p EXCEPT !.inbox = @ \o events])
    BY <1>1, <1>2, ToldPage
  <1>4. QED BY <1>3 DEF events

LEMMA ReadyNews ==
    ASSUME NEW s, NEW u, NEW p, OnSeat(s, u, p), NEW h, Seat(s, Creator, h.n), Seat(s, h.user, h.n)
    PROVE  OnSeat(s, u, [p EXCEPT !.inbox = @ \o ReadyEvents(u, h)])
  <1> DEFINE events == ReadyEvents(u, h)
             ready == <<Event("ready", h.n), Event("end", 0)>>
  <1>1. h.n \in Starts
    BY DEF Seat
  <1>2. Event("ready", h.n) \in Events /\ Event("end", 0) \in Events
        /\ Event("ready", h.n).n = h.n /\ Event("end", 0).kind = "end"
    BY <1>1 DEF Event, Events
  <1>3. ready \in Seq(Events) /\ Len(ready) = 2
        /\ ready[1] = Event("ready", h.n) /\ ready[2] = Event("end", 0)
    BY <1>2
  <1>4. (events = ready /\ u \in {Creator, h.user}) \/ events = <<>>
    BY DEF ReadyEvents
  <1> HIDE DEF ready, events
  <1>5. events \in Seq(Events)
    <2>1. <<>> \in Seq(Events)
      OBVIOUS
    <2>2. QED BY <1>3, <1>4, <2>1
  <1>6. \A i \in 1..Len(events) : events[i].kind = "ready" => Seat(s, u, events[i].n)
    <2>1. CASE events = <<>>
      BY <2>1
    <2>2. CASE events = ready /\ u \in {Creator, h.user}
      <3>1. Seat(s, u, h.n)
        BY <2>2
      <3>2. SUFFICES ASSUME NEW i \in 1..Len(ready), ready[i].kind = "ready"
                     PROVE  Seat(s, u, ready[i].n)
        BY <2>2
      <3>3. i = 1 \/ i = 2
        BY <1>3
      <3>4. QED BY <1>2, <1>3, <3>1, <3>2, <3>3
    <2>3. QED BY <1>4, <2>1, <2>2
  <1>7. QED BY <1>5, <1>6, ToldPage DEF events

LEMMA RunHookKeeps ==
    ASSUME RoomInv, NEW h \in hooks, RunHook(h)
    PROVE  RoomInv'
  <1>1. starts' = starts /\ server' = server /\ replies' = replies /\ hooks' \subseteq hooks
    BY DEF RunHook, server
  <1>2. \A v \in Users : OnSeat(starts, v, page[v])
    BY PageOfUser
  <1>3. CASE h.kind = "kicked"
    <2> DEFINE q == [page[h.user] EXCEPT !.inbox = @ \o <<Event("kicked", 0)>>]
    <2>0. h \in Hooks /\ h.kind # "ready"
      BY <1>3 DEF RoomInv, Typed
    <2>1. emitters' = emitters
          /\ page' = IF h.user \in emitters THEN [page EXCEPT ![h.user] = q] ELSE page
      BY <2>0 DEF RunHook, Sent
    <2>2. h.user \in Users => OnSeat(starts, h.user, q)
      BY <1>2, QuietEvent
    <2> HIDE DEF q
    <2>3. DOMAIN page' = Users
          /\ \A v \in Users : page'[v] = page[v] \/ (v = h.user /\ page'[v] = q)
      BY <2>1, OnePage
    <2>4. Seated'
      BY <1>1, <1>2, <2>2, <2>3, ToldPages
    <2>5. QED BY <1>1, <2>1, <2>4 DEF RoomInv, Typed, Locked, Bridged, RowLeadsHome, NewsLeadHome,
                                     Seat, server
  <1>4. CASE h.kind = "ready"
    <2>1. emitters' = {}
          /\ page' = [v \in Users |-> IF v \in emitters
                        THEN [page[v] EXCEPT !.inbox = @ \o ReadyEvents(v, h)] ELSE page[v]]
      BY <1>4 DEF RunHook
    <2>2. Seat(starts, Creator, h.n) /\ Seat(starts, h.user, h.n)
      BY <1>4 DEF RoomInv, NewsLeadHome
    <2>3. \A v \in Users : OnSeat(starts, v, [page[v] EXCEPT !.inbox = @ \o ReadyEvents(v, h)])
      BY <1>2, <2>2, ReadyNews
    <2>4. DOMAIN page' = Users
          /\ \A v \in Users : OnSeat(starts, v, page'[v])
      BY <1>2, <2>1, <2>3
    <2>5. Seated'
      BY <1>1, <2>4, ToldPages
    <2>6. QED BY <1>1, <2>1, <2>5 DEF RoomInv, Typed, Locked, Bridged, RowLeadsHome, NewsLeadHome,
                                     Seat, server
  <1>5. QED BY <1>3, <1>4 DEF RunHook

-----------------------------------------------------------------------------
(* The transactions that lock the row. *)

LEMMA JoinRoomKeeps ==
    ASSUME RoomInv, NEW u \in Users, JoinRoom(u)
    PROVE  RoomInv'
  <1>1. CASE room.status # "WAITING"
    <2>1. OnSeat(starts, u, Gone(page[u]))
      BY PageOfUser, ClosedPage
    <2>2. Show(u, Gone(page[u])) /\ UNCHANGED <<server, hooks, replies>>
      BY <1>1 DEF JoinRoom, server
    <2>3. Seated' /\ emitters' \subseteq Users
      BY <2>1, <2>2, ShownPage DEF server
    <2>4. QED BY <2>2, <2>3, PageStep
  <1>2. CASE room.status = "WAITING"
    <2> DEFINE q == [page[Creator] EXCEPT !.inbox = @ \o <<Event("joined-ready", 0)>>]
               a == Subscribed(page[u], "ready")
               told == Sent(Creator, <<Event("joined-ready", 0)>>)
    <2>1. /\ ops < MaxOps /\ ops' = ops + 1
          /\ room' = [room EXCEPT !.player2 = u, !.status = "READY"]
          /\ page' = [told EXCEPT ![u] = a]
          /\ emitters' = emitters \ {u}
          /\ UNCHANGED <<starts, closers, live, hooks, replies>>
      BY <1>2 DEF JoinRoom, Counted
    <2>2. OnSeat(starts, u, page[u]) /\ u \in Joiners /\ Creator \in Users
      BY PageOfUser DEF OnSeat, JoinRoom, Users
    <2>3. OnSeat(starts, Creator, q) /\ OnSeat(starts, u, a)
      BY <2>2, PageOfUser, QuietEvent, SubscribedPage DEF PageStates
    <2>4. told = IF Creator \in emitters THEN [page EXCEPT ![Creator] = q] ELSE page
      BY DEF Sent
    <2> HIDE DEF q, a, told
    <2>5. DOMAIN told = Users
          /\ \A v \in Users : told[v] = page[v] \/ (v = Creator /\ told[v] = q)
      BY <2>4, OnePage
    <2>6. DOMAIN page' = Users
          /\ \A v \in Users : page'[v] = IF v = u THEN a ELSE told[v]
      BY <2>1, <2>5
    <2>7. Seated'
      <3>1. \A v \in Users : OnSeat(starts, v, page'[v])
        BY <2>3, <2>5, <2>6, PageOfUser
      <3>2. QED BY <2>1, <2>6, <3>1, ToldPages
    <2>8. Typed'
      <3>1. room' \in Rows
        BY <2>1, <2>2 DEF RoomInv, Typed, Rows, Statuses
      <3>2. ops' \in 0..MaxOps
        BY <2>1, RoomAssumption DEF RoomInv, Typed
      <3>3. QED BY <2>1, <3>1, <3>2 DEF RoomInv, Typed
    <2>9. room'.status = "READY"
      BY <2>1 DEF RoomInv, Typed, Rows
    <2>10. Locked' /\ RowLeadsHome' /\ NewsLeadHome'
      BY <1>2, <2>1, <2>9 DEF RoomInv, Locked, Bridged, RowLeadsHome, NewsLeadHome, Seat
    <2>11. QED BY <2>7, <2>8, <2>10 DEF RoomInv
  <1>3. QED BY <1>1, <1>2

LEMMA KickPlayerKeeps ==
    ASSUME RoomInv, KickPlayer
    PROVE  RoomInv'
  <1> DEFINE q == [page[Creator] EXCEPT !.state = "waiting"]
             h == Hook("kicked", room.player2, ops)
  <1>1. Creator \in Users /\ room.status = "READY"
    BY DEF Users, KickPlayer
  <1>2. OnSeat(starts, Creator, q)
    BY <1>1, PageOfUser, SubscribedPage DEF PageStates
  <1>3. page' = [page EXCEPT ![Creator] = q]
        /\ UNCHANGED <<starts, closers, live, ops, emitters, replies>>
        /\ room' = [room EXCEPT !.player2 = Nobody, !.status = "WAITING"]
        /\ hooks' = hooks \cup {h}
    BY DEF KickPlayer
  <1>4. h \in Hooks /\ h.kind = "kicked"
    BY DEF RoomInv, Typed, Rows, Hook, Hooks
  <1> HIDE DEF q, h
  <1>5. DOMAIN page' = Users
        /\ \A v \in Users : page'[v] = IF v = Creator THEN q ELSE page[v]
    BY <1>3 DEF RoomInv, Seated
  <1>6. Seated'
    <2>1. \A v \in Users : OnSeat(starts, v, page'[v])
      BY <1>2, <1>5, PageOfUser
    <2>2. QED BY <1>3, <1>5, <2>1, ToldPages
  <1>7. room' \in Rows /\ room'.status = "WAITING"
    BY <1>3 DEF RoomInv, Typed, Rows, Statuses
  <1>8. Typed'
    BY <1>3, <1>4, <1>7 DEF RoomInv, Typed
  <1>9. Locked' /\ RowLeadsHome' /\ NewsLeadHome'
    BY <1>1, <1>3, <1>4, <1>7 DEF RoomInv, Locked, Bridged, RowLeadsHome, NewsLeadHome, Seat
  <1>10. QED BY <1>6, <1>8, <1>9 DEF RoomInv

\* The page of the creator after a request for a start.
LEMMA AskedPage ==
    ASSUME RoomInv, NEW byPage \in BOOLEAN, NEW p, OnSeat(starts, Creator, p),
           PageShows(byPage, p),
           NEW s, \A n \in Starts : starts[n].stage = "done" => s[n] = starts[n], starts' = s
    PROVE  Seated' /\ emitters' \subseteq Users
  <1>1. Creator \in Users
    BY DEF Users
  <1>2. DOMAIN page' = Users /\ emitters' \subseteq Users
        /\ \A v \in Users : OnSeat(starts, v, page'[v])
    <2>1. CASE byPage
      <3>1. page' = [page EXCEPT ![Creator] = p] /\ emitters' \subseteq emitters
        BY <2>1, Zenon DEF PageShows, Show
      <3>2. QED BY <1>1, <3>1, PageOfUser DEF RoomInv, Seated, Typed
    <2>2. CASE ~byPage
      <3>1. page' = page /\ emitters' = emitters
        BY <2>2, Zenon DEF PageShows
      <3>2. QED BY <3>1, PageOfUser DEF RoomInv, Seated, Typed
    <2>3. QED BY <2>1, <2>2
  <1>3. \A v \in Users : OnSeat(starts', v, page'[v])
    BY <1>2, SeatsStay
  <1>4. QED BY <1>2, <1>3 DEF Seated

LEMMA PrepareDuelStartKeeps ==
    ASSUME RoomInv, NEW n \in Starts, NEW byPage \in BOOLEAN, PrepareDuelStart(n, byPage)
    PROVE  RoomInv'
  <1>0. OnSeat(starts, Creator, page[Creator]) /\ starts[n].stage = "unused"
        /\ UNCHANGED <<closers, live, hooks, replies>>
    BY PageOfUser DEF Users, PrepareDuelStart, AsksForStart
  <1>1. CASE room.status # "READY"
    <2>1. PageShows(byPage, Gone(page[Creator])) /\ UNCHANGED <<room, starts, ops>>
      BY <1>1 DEF PrepareDuelStart, Refuse
    <2>2. OnSeat(starts, Creator, Gone(page[Creator]))
      BY <1>0, ClosedPage
    <2>3. Seated' /\ emitters' \subseteq Users
      BY <2>1, <2>2, AskedPage
    <2>4. QED BY <1>0, <2>1, <2>3, PageStep DEF server
  <1>2. CASE room.status = "READY"
    <2> DEFINE p == [page[Creator] EXCEPT !.state = "creating-duel"]
               a == [stage |-> "prepared", player2 |-> room.player2, byPage |-> byPage]
    <2>1. /\ ops < MaxOps /\ ops' = ops + 1
          /\ room' = [room EXCEPT !.status = "CREATING_DUEL"]
          /\ starts' = [starts EXCEPT ![n] = a]
          /\ PageShows(byPage, p)
      BY <1>2 DEF PrepareDuelStart, Claim, Counted
    <2>2. OnSeat(starts, Creator, p)
      BY <1>0, SubscribedPage DEF PageStates
    <2>3. a \in [stage : {"unused", "prepared", "failed", "done"},
                 player2 : Joiners \cup {Nobody}, byPage : BOOLEAN] /\ a.stage = "prepared"
      BY DEF RoomInv, Typed, Rows
    <2> HIDE DEF p, a
    <2>4. \A m \in Starts : starts'[m] = IF m = n THEN a ELSE starts[m]
      BY <2>1 DEF RoomInv, Typed
    <2>5. Seated' /\ emitters' \subseteq Users
      BY <1>0, <2>1, <2>2, <2>4, AskedPage
    <2>6. room' \in Rows /\ room'.status = "CREATING_DUEL"
      BY <2>1 DEF RoomInv, Typed, Rows, Statuses
    <2>7. Typed'
      <3>1. ops' \in 0..MaxOps
        BY <2>1, RoomAssumption DEF RoomInv, Typed
      <3>2. QED BY <1>0, <2>1, <2>3, <2>5, <2>6, <3>1 DEF RoomInv, Typed
    <2>8. Locked'
      <3>1. Bridged(starts) = {}
        BY <1>2 DEF RoomInv, Locked
      <3>2. Bridged(starts') \subseteq {n}
        BY <2>4, <3>1 DEF Bridged
      <3>3. QED BY <2>6, <3>2 DEF Locked
    <2>9. NewsLeadHome'
      BY <1>0, <2>4 DEF RoomInv, NewsLeadHome, Seat
    <2>10. QED BY <2>5, <2>6, <2>7, <2>8, <2>9 DEF RoomInv, RowLeadsHome
  <1>3. QED BY <1>1, <1>2

LEMMA DuelOverKeeps ==
    ASSUME RoomInv, NEW n, DuelOver(n)
    PROVE  RoomInv'
  BY DEF DuelOver, RoomInv, Typed, Locked, Bridged, RowLeadsHome, NewsLeadHome, Seat, Seated

LEMMA FinalizeDuelStartKeeps ==
    ASSUME RoomInv, NEW n \in Starts, FinalizeDuelStart(n)
    PROVE  RoomInv'
  <1> DEFINE h == Hook("ready", starts[n].player2, n)
             a == [starts[n] EXCEPT !.stage = "done"]
  <1>1. /\ starts[n].stage = "prepared" /\ live' = live \cup {n}
        /\ starts' = [starts EXCEPT ![n] = a]
        /\ room' = [status |-> "ACTIVE", player2 |-> starts[n].player2, duel |-> n]
        /\ hooks' = hooks \cup {h}
        /\ replies' = replies \/ replies' = replies \cup {n}
        /\ UNCHANGED <<closers, ops, emitters, page>>
    BY DEF FinalizeDuelStart
  <1>2. starts[n] \in [stage : {"unused", "prepared", "failed", "done"},
                       player2 : Joiners \cup {Nobody}, byPage : BOOLEAN]
    BY DEF RoomInv, Typed
  <1>3. /\ a \in [stage : {"unused", "prepared", "failed", "done"},
                  player2 : Joiners \cup {Nobody}, byPage : BOOLEAN]
        /\ a.stage = "done" /\ a.player2 = starts[n].player2
    BY <1>2
  <1>4. h \in Hooks /\ h.n = n /\ h.user = starts[n].player2
    BY <1>2 DEF Hook, Hooks
  <1> HIDE DEF h, a
  <1>5. \A m \in Starts : starts'[m] = IF m = n THEN a ELSE starts[m]
    BY <1>1 DEF RoomInv, Typed
  <1>6. room' \in Rows /\ room'.status = "ACTIVE" /\ room'.duel = n
        /\ room'.player2 = starts[n].player2
    BY <1>1, <1>2 DEF Rows, Statuses
  <1>7. Typed'
    BY <1>1, <1>3, <1>4, <1>6 DEF RoomInv, Typed
  <1>8. Locked'
    <2>1. Bridged(starts') \subseteq Bridged(starts)
      BY <1>1, <1>5 DEF Bridged
    <2>2. QED BY <1>6, <2>1 DEF RoomInv, Locked
  <1>9. RowLeadsHome'
    BY <1>3, <1>5, <1>6 DEF RowLeadsHome
  <1>10. NewsLeadHome'
    <2>1. Seat(starts', Creator, n) /\ Seat(starts', h.user, n)
      BY <1>3, <1>4, <1>5 DEF Seat
    <2>2. \A m \in Starts : starts[m].stage = "done" => starts'[m] = starts[m]
      BY <1>1, <1>5
    <2>3. QED BY <1>1, <1>4, <2>1, <2>2 DEF RoomInv, NewsLeadHome, Seat
  <1>11. Seated'
    <2>1. \A m \in Starts : starts[m].stage = "done" => starts'[m] = starts[m]
      BY <1>1, <1>5
    <2>2. \A v \in Users : OnSeat(starts', v, page[v])
      BY <2>1, PageOfUser, SeatsStay
    <2>3. QED BY <1>1, <2>2 DEF RoomInv, Seated
  <1>12. QED BY <1>7, <1>8, <1>9, <1>10, <1>11 DEF RoomInv

LEMMA RollbackDuelStartKeeps ==
    ASSUME RoomInv, NEW n \in Starts, RollbackDuelStart(n)
    PROVE  RoomInv'
  <1> DEFINE a == [stage |-> "failed", player2 |-> Nobody, byPage |-> FALSE]
             p == page[Creator]
             q == [p EXCEPT !.state =
                      IF p.state = "away" \/ ~starts[n].byPage THEN p.state ELSE "waiting"]
  <1>1. /\ starts[n].stage = "prepared"
        /\ starts' = [starts EXCEPT ![n] = a]
        /\ room' = NewRoom
        /\ page' = [page EXCEPT ![Creator] = q]
        /\ UNCHANGED <<closers, live, ops, hooks, emitters, replies>>
    BY DEF RollbackDuelStart
  <1>2. a \in [stage : {"unused", "prepared", "failed", "done"},
               player2 : Joiners \cup {Nobody}, byPage : BOOLEAN] /\ a.stage = "failed"
    OBVIOUS
  <1>3. Creator \in Users /\ OnSeat(starts, Creator, p) /\ p \in Pages
    BY PageOfUser DEF Users, OnSeat
  <1>4. OnSeat(starts, Creator, q)
    <2>1. q = p \/ q = [p EXCEPT !.state = "waiting"]
      BY <1>3 DEF Pages
    <2>2. QED BY <1>3, <2>1, SubscribedPage DEF PageStates
  <1> HIDE DEF a, p, q
  <1>5. \A m \in Starts : starts'[m] = IF m = n THEN a ELSE starts[m]
    BY <1>1 DEF RoomInv, Typed
  <1>6. room' \in Rows /\ room'.status = "WAITING"
    BY <1>1 DEF NewRoom, Rows, Statuses
  <1>7. Typed'
    BY <1>1, <1>2, <1>6 DEF RoomInv, Typed
  <1>8. Locked'
    <2>1. Bridged(starts') = {}
      BY <1>1, <1>2, <1>5 DEF RoomInv, Locked, Bridged
    <2>2. QED BY <2>1 DEF Locked
  <1>9. \A m \in Starts : starts[m].stage = "done" => starts'[m] = starts[m]
    BY <1>1, <1>5
  <1>10. NewsLeadHome'
    BY <1>1, <1>9 DEF RoomInv, NewsLeadHome, Seat
  <1>11. Seated'
    <2>1. DOMAIN page' = Users /\ \A v \in Users : OnSeat(starts, v, page'[v])
      BY <1>1, <1>3, <1>4, PageOfUser DEF RoomInv, Seated
    <2>2. \A v \in Users : OnSeat(starts', v, page'[v])
      BY <1>9, <2>1, SeatsStay
    <2>3. QED BY <2>1, <2>2 DEF Seated
  <1>12. QED BY <1>6, <1>7, <1>8, <1>10, <1>11 DEF RoomInv, RowLeadsHome

-----------------------------------------------------------------------------
(* The transactions that do not lock it: they write ENDED or CLOSED. *)

\* A row that was read is written back as one that is over.
LEMMA RowIsOver ==
    ASSUME NEW row \in Rows, NEW status \in Over
    PROVE  [row EXCEPT !.status = status] \in Rows /\ [row EXCEPT !.status = status].status = status
  BY DEF Rows, Over, Statuses

LEMMA ReadsKeep ==
    ASSUME RoomInv, NEW k \in Closers, EndRoomReads(k) \/ CleanupReads(k)
    PROVE  RoomInv'
  <1>1. /\ closers' = [closers EXCEPT ![k] = [stage |-> "ending", row |-> room]]
           \/ closers' = [closers EXCEPT ![k] = [stage |-> "cleaning", row |-> room]]
        /\ ops < MaxOps /\ ops' = ops + 1
        /\ UNCHANGED <<room, starts, live, hooks, emitters, page, replies>>
    BY DEF EndRoomReads, CleanupReads, Counted
  <1>2. ops' \in 0..MaxOps
    BY <1>1, RoomAssumption DEF RoomInv, Typed
  <1>3. closers' \in [Closers -> [stage : {"unused", "ending", "cleaning", "done"}, row : Rows]]
    BY <1>1 DEF RoomInv, Typed
  <1>4. QED BY <1>1, <1>2, <1>3 DEF RoomInv, Typed, Locked, Bridged, RowLeadsHome, NewsLeadHome,
                                    Seat, Seated

LEMMA NewRowTyped == NewRoom \in Rows
  BY DEF NewRoom, Rows, Statuses

LEMMA EndRoomWritesKeeps ==
    ASSUME RoomInv, NEW k \in Closers, EndRoomWrites(k)
    PROVE  RoomInv'
  <1> DEFINE row == closers[k].row
             closer == [stage |-> "done", row |-> NewRoom]
  <1>1. /\ closers' = [closers EXCEPT ![k] = closer]
        /\ live' \subseteq live /\ emitters' = {}
        /\ page' = [v \in Users |-> IF v \in emitters
                       THEN [page[v] EXCEPT !.inbox = Append(@, Event("end", 0))] ELSE page[v]]
        /\ room' = [row EXCEPT !.status = "ENDED"]
        /\ UNCHANGED <<starts, ops, hooks, replies>>
    BY DEF EndRoomWrites
  <1>2. row \in Rows /\ closer \in [stage : {"unused", "ending", "cleaning", "done"}, row : Rows]
    BY NewRowTyped DEF RoomInv, Typed
  <1>3. room' \in Rows /\ room'.status = "ENDED"
    BY <1>1, <1>2, RowIsOver DEF Over
  <1> HIDE DEF row, closer
  <1>4. Typed'
    BY <1>1, <1>2, <1>3 DEF RoomInv, Typed
  <1>5. Locked' /\ RowLeadsHome' /\ NewsLeadHome'
    BY <1>1, <1>3 DEF RoomInv, Locked, Bridged, RowLeadsHome, NewsLeadHome, Seat
  <1>6. Seated'
    <2>1. \A v \in Users : OnSeat(starts, v, [page[v] EXCEPT !.inbox = @ \o <<Event("end", 0)>>])
      BY PageOfUser, QuietEvent
    <2>2. \A v \in Users : page[v].inbox \in Seq(Events)
      BY PageOfUser DEF OnSeat, Pages
    <2>3. Event("end", 0) \in Events
      BY DEF Event, Events
    <2>4. \A v \in Users : Append(page[v].inbox, Event("end", 0))
                             = page[v].inbox \o <<Event("end", 0)>>
      BY <2>2, <2>3
    <2>5. DOMAIN page' = Users /\ \A v \in Users : OnSeat(starts, v, page'[v])
      BY <1>1, <2>1, <2>4, PageOfUser
    <2>6. QED BY <1>1, <2>5, ToldPages
  <1>7. QED BY <1>4, <1>5, <1>6 DEF RoomInv

LEMMA CleanupWritesKeeps ==
    ASSUME RoomInv, NEW k \in Closers, CleanupWrites(k)
    PROVE  RoomInv'
  <1> DEFINE row == closers[k].row
             closer == [stage |-> "done", row |-> NewRoom]
  <1>1. /\ closers' = [closers EXCEPT ![k] = closer]
        /\ room' = [row EXCEPT !.status = "CLOSED"] \/ room' = room
        /\ UNCHANGED <<starts, live, ops, hooks, emitters, page, replies>>
    BY DEF CleanupWrites
  <1>2. row \in Rows /\ closer \in [stage : {"unused", "ending", "cleaning", "done"}, row : Rows]
    BY NewRowTyped DEF RoomInv, Typed
  <1>3. room' = room \/ (room' \in Rows /\ room'.status = "CLOSED")
    BY <1>1, <1>2, RowIsOver DEF Over
  <1> HIDE DEF row, closer
  <1>4. Typed'
    BY <1>1, <1>2, <1>3 DEF RoomInv, Typed
  <1>5. Locked' /\ RowLeadsHome' /\ NewsLeadHome' /\ Seated'
    BY <1>1, <1>3 DEF RoomInv, Locked, Bridged, RowLeadsHome, NewsLeadHome, Seat, Seated
  <1>6. QED BY <1>4, <1>5 DEF RoomInv

-----------------------------------------------------------------------------
(* The invariant, and what it gives. *)

LEMMA RoomInitInv == RoomInit => RoomInv
  <1> SUFFICES ASSUME RoomInit PROVE RoomInv
    OBVIOUS
  <1> DEFINE first == [state |-> "away", stream |-> "none", inbox |-> <<>>, duel |-> NoDuel]
  <1>1. first \in Pages /\ first.state = "away" /\ Len(first.inbox) = 0
    BY DEF Pages, PageStates, Streams
  <1>2. page = [u \in Users |-> first]
    BY DEF RoomInit
  <1> HIDE DEF first
  <1>3. Seated
    BY <1>1, <1>2 DEF Seated, OnSeat
  <1>4. Typed
    BY NewRowTyped, RoomAssumption DEF RoomInit, Typed
  <1>5. Locked /\ RowLeadsHome /\ NewsLeadHome
    BY DEF RoomInit, Locked, Bridged, RowLeadsHome, NewsLeadHome, NewRoom
  <1>6. QED BY <1>3, <1>4, <1>5 DEF RoomInv

LEMMA RoomNextInv == RoomInv /\ [RoomNext]_roomVars => RoomInv'
  <1> SUFFICES ASSUME RoomInv, [RoomNext]_roomVars PROVE RoomInv'
    OBVIOUS
  <1>1. CASE UNCHANGED roomVars
    BY <1>1 DEF roomVars, server, RoomInv, Typed, Locked, Bridged, RowLeadsHome, NewsLeadHome,
                Seat, Seated
  <1>2. ASSUME NEW u \in Users,
               \/ FetchRoom(u) \/ Leave(u) \/ Silence(u)
               \/ StreamEvent(u) \/ Subscribe(u) \/ Registered(u) \/ JoinRoom(u)
        PROVE  RoomInv'
    BY <1>2, FetchRoomKeeps, LeaveKeeps, SilenceKeeps, StreamEventKeeps, SubscribeKeeps,
       RegisteredKeeps, JoinRoomKeeps
  <1>3. ASSUME NEW n \in replies, StartReply(n)
        PROVE  RoomInv'
    BY <1>3, StartReplyKeeps
  <1>4. ASSUME NEW h \in hooks, RunHook(h)
        PROVE  RoomInv'
    BY <1>4, RunHookKeeps
  <1>5. CASE KickPlayer
    BY <1>5, KickPlayerKeeps
  <1>6. ASSUME NEW n \in Starts,
               \/ \E byPage \in BOOLEAN : PrepareDuelStart(n, byPage)
               \/ DuelOver(n) \/ FinalizeDuelStart(n) \/ RollbackDuelStart(n)
        PROVE  RoomInv'
    BY <1>6, PrepareDuelStartKeeps, DuelOverKeeps, FinalizeDuelStartKeeps, RollbackDuelStartKeeps
  <1>7. ASSUME NEW k \in Closers,
               EndRoomReads(k) \/ EndRoomWrites(k) \/ CleanupReads(k) \/ CleanupWrites(k)
        PROVE  RoomInv'
    BY <1>7, ReadsKeep, EndRoomWritesKeeps, CleanupWritesKeeps
  <1>8. QED BY <1>1, <1>2, <1>3, <1>4, <1>5, <1>6, <1>7 DEF RoomNext

\* The invariant holds throughout: a WAITING or READY row has no start behind it, no two starts
\* have a duel, and every page, event, hook and answer leads to a duel with a seat for its user.
THEOREM RoomIsInvariant == RoomSpec => []RoomInv
  BY RoomInitInv, RoomNextInv, PTL DEF RoomSpec

\* Every variable of the room, the backend and the pages has its type, and a page that connects
\* has a duel.
THEOREM RoomTypes == RoomSpec => []RoomTypeOK
  <1>1. RoomInv => RoomTypeOK
    <2> SUFFICES ASSUME RoomInv PROVE RoomTypeOK
      OBVIOUS
    <2>1. \A u \in Users : /\ page[u].state \in PageStates /\ page[u].stream \in Streams
                           /\ page[u].duel \in Starts \cup {NoDuel}
                           /\ page[u].state = "connecting" => page[u].duel # NoDuel
      BY PageOfUser DEF OnSeat, Pages, Seat, Starts, NoDuel
    <2>2. QED BY <2>1 DEF RoomInv, Typed, RoomTypeOK
  <1>2. QED BY <1>1, RoomIsInvariant, PTL

\* prepareDuelStart: the duel server is asked for one duel of a room at a time, whoever asks,
\* whatever row endRoom and the clean-up jobs write back, and however a start ends.
THEOREM StartsOneAtATime == RoomSpec => []OneStartAtATime
  <1>1. RoomInv => OneStartAtATime
    <2> SUFFICES ASSUME RoomInv PROVE OneStartAtATime
      OBVIOUS
    <2>1. \A m, n \in Prepared : m = n
      BY DEF RoomInv, Locked, Bridged, Prepared
    <2>2. CASE Prepared = {}
      BY <2>2, FS_EmptySet DEF OneStartAtATime
    <2>3. ASSUME NEW n \in Prepared
          PROVE  OneStartAtATime
      <3>1. Prepared = {n}
        BY <2>1, <2>3
      <3>2. QED BY <3>1, FS_Singleton DEF OneStartAtATime
    <2>4. QED BY <2>2, <2>3
  <1>2. QED BY <1>1, RoomIsInvariant, PTL

\* finalizeDuelStart: two starts never both bridge the room to a duel.
THEOREM BridgedOnce == RoomSpec => []OneDuelPerRoom
  <1>1. RoomInv => OneDuelPerRoom
    BY DEF RoomInv, Locked, Bridged, OneDuelPerRoom
  <1>2. QED BY <1>1, RoomIsInvariant, PTL

\* toRoomDTO, sendRoomReady and the answer of startDuel: who connects to a duel with a token is
\* the creator or the player the start was prepared with, though a player may have been kicked,
\* another have joined, and an old row have been written back, since the token was sent.
THEOREM TokensLeadHome == RoomSpec => []TokensGoToTheirPlayers
  <1>1. RoomInv => TokensGoToTheirPlayers
    <2> SUFFICES ASSUME RoomInv, NEW u \in Users, page[u].state = "connecting"
                 PROVE  u = Creator \/ u = starts[page[u].duel].player2
      BY DEF TokensGoToTheirPlayers
    <2>1. QED BY PageOfUser DEF OnSeat, Seat
  <1>2. QED BY <1>1, RoomIsInvariant, PTL

=============================================================================

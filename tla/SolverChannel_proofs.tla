------------------------ MODULE SolverChannel_proofs ------------------------
(***************************************************************************)
(* Proofs about SolverChannel for any number of sockets, solves, faults,   *)
(* visits and cancels, and whether or not connect overlaps: its type       *)
(* invariant and its three safety properties.                              *)
(*                                                                         *)
(* OpenIsRegistered is inductive.  OneSolveAtATime follows from OneSolve,  *)
(* which says the same without counting, and needs to know that a number   *)
(* not yet given to a START is in no state and in no queue.  CancelIsFinal *)
(* holds because a result in a queue, in the cache or on the page belongs  *)
(* to a solve that is done (Answered), and a solve that is done is never   *)
(* begun again: its START was one message, which has been read (AskedOnce).*)
(***************************************************************************)
EXTENDS SolverChannel, FiniteSetTheorems, TLAPS

UpMsgs == [type : UpTypes, id : Starts \cup {None}]
DownMsgs == [type : DownTypes, id : Starts \cup {None}]

\* A message that starts a solve or a verification.
Ask(m) == m.type \in {"start", "verify"}

\* The numbers given out so far are in use, the others are not.
Given ==
    /\ \A i \in Starts : i > started => task[i] = "none" /\ i \notin checks
    /\ \A s \in Sockets : \A k \in DOMAIN up[s] :
         Ask(up[s][k]) => up[s][k].id \in 1..started /\ task[up[s][k].id] = "none"

\* No two messages carry the same number.
AskedOnce ==
    \A s, r \in Sockets : \A k \in DOMAIN up[s], l \in DOMAIN up[r] :
        Ask(up[s][k]) /\ Ask(up[r][l]) /\ up[s][k].id = up[r][l].id => s = r /\ k = l

\* Whatever result is about belongs to a solve that is done.
Answered ==
    /\ cached # None => task[cached] = "done"
    /\ page.shown # None => task[page.shown] = "done"
    /\ \A s \in Sockets : \A k \in DOMAIN down[s] : down[s][k].type = "result" =>
         down[s][k].id # None /\ task[down[s][k].id] = "done"

\* OneSolveAtATime, element by element.
OneSolve ==
    /\ \A i, j \in Solves : task[i] \in Busy /\ task[j] \in Busy => i = j
    /\ inFlight <=> \E i \in Solves : task[i] \in Busy
    /\ \A i \in Solves : task[i] \in {"running", "cancelled"} <=> i = active
    /\ active # None => active \in Solves /\ cached = None

SolverInv == SolverTypeOK /\ OpenIsRegistered /\ Given /\ AskedOnce /\ Answered /\ OneSolve

-----------------------------------------------------------------------------
(* Queues.                                                                 *)

\* What the operations on a queue do to its messages.
LEMMA QueueSteps ==
    ASSUME NEW M, NEW q \in Seq(M)
    PROVE  /\ <<>> \in Seq(M) /\ DOMAIN <<>> = {} /\ DOMAIN q = 1..Len(q) /\ Len(q) \in Nat
           /\ \A m \in M : /\ Append(q, m) \in Seq(M) /\ <<m>> \in Seq(M) /\ DOMAIN <<m>> = {1}
                           /\ <<m>>[1] = m
                           /\ \A k \in DOMAIN Append(q, m) :
                                \/ k \in DOMAIN q /\ Append(q, m)[k] = q[k]
                                \/ k = Len(q) + 1 /\ Append(q, m)[k] = m
           /\ q # <<>> => /\ Tail(q) \in Seq(M) /\ Head(q) \in M /\ 1 \in DOMAIN q /\ Head(q) = q[1]
                          /\ \A k \in DOMAIN Tail(q) : k + 1 \in DOMAIN q /\ Tail(q)[k] = q[k + 1]
                          /\ \A k \in DOMAIN Tail(q) : k \in Nat
  OBVIOUS

\* A message is the pair of its fields.
LEMMA Replies ==
    ASSUME NEW type, NEW id
    PROVE  /\ Reply(type, id).type = type /\ Reply(type, id).id = id
           /\ type \in DownTypes /\ id \in Starts \cup {None} => Reply(type, id) \in DownMsgs
  BY DEF Reply, DownMsgs

\* What the server sends is added to one queue, or to none.
LEMMA SentAdds ==
    ASSUME NEW d \in [Sockets -> Seq(DownMsgs)], NEW s \in Sockets \cup {None}, NEW m \in DownMsgs
    PROVE  /\ Sent(d, s, m) \in [Sockets -> Seq(DownMsgs)]
           /\ \A r \in Sockets : \A k \in DOMAIN Sent(d, s, m)[r] :
                \/ k \in DOMAIN d[r] /\ Sent(d, s, m)[r][k] = d[r][k]
                \/ Sent(d, s, m)[r][k] = m
  <1>1. CASE s # None /\ server[s] = "open" /\ client[s] # "closed"
    <2>1. s \in Sockets /\ Sent(d, s, m) = [d EXCEPT ![s] = Append(@, m)]
      BY <1>1 DEF Sent
    <2>2. \A r \in Sockets : Sent(d, s, m)[r] = IF r = s THEN Append(d[s], m) ELSE d[r]
      BY <2>1
    <2>3. /\ Append(d[s], m) \in Seq(DownMsgs)
          /\ \A k \in DOMAIN Append(d[s], m) : \/ k \in DOMAIN d[s] /\ Append(d[s], m)[k] = d[s][k]
                                               \/ Append(d[s], m)[k] = m
      BY <2>1, QueueSteps
    <2>4. Sent(d, s, m) \in [Sockets -> Seq(DownMsgs)]
      BY <2>1, <2>3
    <2> QED BY <2>2, <2>3, <2>4
  <1>2. CASE ~(s # None /\ server[s] = "open" /\ client[s] # "closed")
    BY <1>2 DEF Sent
  <1> QED BY <1>1, <1>2

\* What the page sends is added to the queue of its socket, or to none.
LEMMA SendsAdds ==
    ASSUME SolverTypeOK, NEW m \in UpMsgs, ws # None, Sends(m)
    PROVE  /\ up' \in [Sockets -> Seq(UpMsgs)]
           /\ \A r \in Sockets : \A k \in DOMAIN up'[r] :
                \/ k \in DOMAIN up[r] /\ up'[r][k] = up[r][k]
                \/ r = ws /\ k = Len(up[ws]) + 1 /\ up'[r][k] = m
  <1>1. ws \in Sockets /\ up \in [Sockets -> Seq(UpMsgs)]
    BY DEF SolverTypeOK, UpMsgs
  <1>2. CASE server[ws] \in {"open", "closing"}
    <2>1. up' = [up EXCEPT ![ws] = Append(@, m)]
      BY <1>2 DEF Sends
    <2>2. \A r \in Sockets : up'[r] = IF r = ws THEN Append(up[ws], m) ELSE up[r]
      BY <1>1, <2>1
    <2>3. /\ Append(up[ws], m) \in Seq(UpMsgs)
          /\ \A k \in DOMAIN Append(up[ws], m) :
               \/ k \in DOMAIN up[ws] /\ Append(up[ws], m)[k] = up[ws][k]
               \/ k = Len(up[ws]) + 1 /\ Append(up[ws], m)[k] = m
      BY <1>1, QueueSteps
    <2>4. up' \in [Sockets -> Seq(UpMsgs)]
      BY <1>1, <2>1, <2>3
    <2> QED BY <2>2, <2>3, <2>4
  <1>3. CASE server[ws] \notin {"open", "closing"}
    BY <1>1, <1>3 DEF Sends
  <1> QED BY <1>2, <1>3

-----------------------------------------------------------------------------
(* Types.                                                                  *)

Page == [state : PageStates, deck : {"none", "loading", "ready"}, sameDeck : BOOLEAN,
         shown : Starts \cup {None}, verifying : BOOLEAN, collapsed : BOOLEAN, handtraps : BOOLEAN]

\* The ends of the sockets.
ClientEnds == [Sockets -> {"connecting", "open", "closed"}]
ServerEnds == [Sockets -> {"none", "open", "closing", "refused", "closed"}]

\* The page in another state.
LEMMA InTypes ==
    ASSUME NEW p \in Page, NEW state \in PageStates
    PROVE  /\ In(p, state) \in Page /\ In(p, state).shown = p.shown
           /\ [In(p, state) EXCEPT !.verifying = FALSE] \in Page
           /\ [In(p, state) EXCEPT !.verifying = FALSE].shown = p.shown
           /\ [In(p, state) EXCEPT !.verifying = TRUE] \in Page
           /\ [In(p, state) EXCEPT !.verifying = TRUE].shown = p.shown
           /\ [In(p, state) EXCEPT !.shown = None, !.sameDeck = TRUE] \in Page
           /\ [In(p, state) EXCEPT !.shown = None, !.sameDeck = TRUE].shown = None
           /\ [In(p, state) EXCEPT !.verifying = FALSE, !.shown = None] \in Page
           /\ [In(p, state) EXCEPT !.verifying = FALSE, !.shown = None].shown = None
           /\ \A i \in Starts \cup {None} : /\ [In(p, state) EXCEPT !.shown = i] \in Page
                                            /\ [In(p, state) EXCEPT !.shown = i].shown = i
  <1>1. (state = "complete" \/ (state # "configuring" /\ p.collapsed)) \in BOOLEAN
    OBVIOUS
  <1>2. In(p, state) \in Page /\ In(p, state).shown = p.shown
    BY <1>1 DEF In, Page
  <1>3. None \in Starts \cup {None} /\ TRUE \in BOOLEAN /\ FALSE \in BOOLEAN
    OBVIOUS
  <1>4. ASSUME NEW q \in Page, NEW i \in Starts \cup {None}
        PROVE /\ [q EXCEPT !.verifying = FALSE] \in Page /\ [q EXCEPT !.verifying = FALSE].shown = q.shown
              /\ [q EXCEPT !.verifying = TRUE] \in Page /\ [q EXCEPT !.verifying = TRUE].shown = q.shown
              /\ [q EXCEPT !.shown = i] \in Page /\ [q EXCEPT !.shown = i].shown = i
              /\ [q EXCEPT !.shown = i, !.sameDeck = TRUE] \in Page
              /\ [q EXCEPT !.shown = i, !.sameDeck = TRUE].shown = i
              /\ [q EXCEPT !.verifying = FALSE, !.shown = i] \in Page
              /\ [q EXCEPT !.verifying = FALSE, !.shown = i].shown = i
    BY DEF Page
  <1> QED BY <1>2, <1>3, <1>4

\* A new socket is one that both ends had forgotten.
LEMMA ConnectTypes ==
    ASSUME SolverTypeOK, NEW c \in ClientEnds, NEW t \in SUBSET Timers, Connect(c, t)
    PROVE  /\ client' \in ClientEnds /\ server' \in ServerEnds /\ timers' \in SUBSET Timers
           /\ ws' \in Sockets \cup {None} /\ intentional' \in BOOLEAN
           /\ \E s \in Sockets : server[s] = "closed" /\ server' = [server EXCEPT ![s] = "none"]
  <1>1. PICK s \in Sockets : /\ Free(s) /\ client' = [c EXCEPT ![s] = "connecting"]
                             /\ server' = [server EXCEPT ![s] = "none"]
                             /\ ws' = s /\ intentional' = FALSE /\ timers' = t
    BY DEF Connect
  <1>2. server \in ServerEnds
    BY DEF SolverTypeOK, ServerEnds
  <1> QED BY <1>1, <1>2 DEF Free, ClientEnds, ServerEnds

\* The end of a socket.
LEMMA OnCloseTypes ==
    ASSUME SolverTypeOK, NEW s \in Sockets, OnClose(s)
    PROVE  /\ client' \in ClientEnds /\ ws' \in Sockets \cup {None} /\ timers' \in SUBSET Timers
           /\ UNCHANGED <<page, intentional>>
  BY DEF SolverTypeOK, OnClose, ClientEnds, Timers

\* The end of an outdated page's socket.
LEMMA OnOutdatedTypes ==
    ASSUME SolverTypeOK, NEW s \in Sockets, OnOutdated(s)
    PROVE  /\ client' \in ClientEnds /\ ws' \in Sockets \cup {None} /\ timers' \in SUBSET Timers
           /\ intentional' \in BOOLEAN /\ page' \in Page /\ page'.shown = page.shown
  <1>1. page \in Page /\ "error" \in PageStates
    BY DEF SolverTypeOK, Page, PageStates
  <1>2. page' \in Page /\ page'.shown = page.shown
    BY <1>1, InTypes DEF OnOutdated
  <1> QED BY <1>2 DEF SolverTypeOK, OnOutdated, ClientEnds

\* connect without a token.
LEMMA NoTokenTypes ==
    ASSUME SolverTypeOK, NoToken
    PROVE  page' \in Page /\ page'.shown = page.shown /\ server' \in ServerEnds
  <1>1. page \in Page /\ "error" \in PageStates
    BY DEF SolverTypeOK, Page, PageStates
  <1> QED BY <1>1, InTypes DEF NoToken, SolverTypeOK, ServerEnds

\* What a message changes of the page.
LEMMA HandleTypes ==
    ASSUME SolverTypeOK, NEW m \in DownMsgs, m.type \notin {"close", "outdated"}, Handle(m)
    PROVE  /\ page' \in Page /\ timers' \in SUBSET Timers
           /\ page'.shown \in {page.shown, None} \/ (m.type = "result" /\ page'.shown = m.id)
  <1>1. page \in Page /\ timers \in SUBSET Timers /\ m.id \in Starts \cup {None}
    BY DEF SolverTypeOK, Page, DownMsgs
  <1>3. "complete" \in PageStates /\ "configuring" \in PageStates
    BY DEF PageStates
  <1>4. CASE m.type = "handtraps"
    <2>1. /\ page' = [page EXCEPT !.handtraps = TRUE]
          /\ timers' = (timers \ {"init"}) \cup (IF page.state = "running" THEN {"grace"} ELSE {})
      BY <1>4 DEF Handle
    <2>2. timers' \in SUBSET Timers
      BY <1>1, <2>1 DEF Timers
    <2>3. page' \in Page /\ page'.shown = page.shown
      BY <1>1, <2>1 DEF Page
    <2> QED BY <2>2, <2>3
  <1>5. CASE m.type = "result"
    <2>1. /\ page' = [In(page, "complete") EXCEPT !.shown = m.id] \/ page' = page
          /\ timers' = timers \ {"grace"}
      BY <1>5 DEF Handle
    <2>2. timers' \in SUBSET Timers
      BY <1>1, <2>1
    <2>3. /\ [In(page, "complete") EXCEPT !.shown = m.id] \in Page
          /\ [In(page, "complete") EXCEPT !.shown = m.id].shown = m.id
      <3>1. \A i \in Starts \cup {None} : /\ [In(page, "complete") EXCEPT !.shown = i] \in Page
                                         /\ [In(page, "complete") EXCEPT !.shown = i].shown = i
        BY <1>1, <1>3, InTypes
      <3> QED BY <1>1, <3>1
    <2> QED BY <1>1, <1>5, <2>1, <2>2, <2>3
  <1>6. CASE m.type = "verified"
    <2>1. page' = [In(page, "complete") EXCEPT !.verifying = FALSE] /\ timers' = timers \ {"grace"}
      BY <1>6 DEF Handle
    <2>2. timers' \in SUBSET Timers
      BY <1>1, <2>1
    <2>3. page' \in Page /\ page'.shown = page.shown
      BY <1>1, <1>3, <2>1, InTypes
    <2> QED BY <2>2, <2>3
  <1>7. CASE m.type = "partial"
    <2>1. page' = [In(page, "complete") EXCEPT !.verifying = FALSE, !.shown = None] /\ timers' = timers
      BY <1>7 DEF Handle
    <2>2. timers' \in SUBSET Timers
      BY <1>1, <2>1
    <2>3. page' \in Page /\ page'.shown = None
      BY <1>1, <1>3, <2>1, InTypes
    <2> QED BY <2>2, <2>3
  <1>8. CASE m.type \in {"cancelled", "error"}
    <2>1. page' = [In(page, "configuring") EXCEPT !.verifying = FALSE] /\ timers' = timers
      BY <1>8 DEF Handle
    <2>2. timers' \in SUBSET Timers
      BY <1>1, <2>1
    <2>3. page' \in Page /\ page'.shown = page.shown
      BY <1>1, <1>3, <2>1, InTypes
    <2> QED BY <2>2, <2>3
  <1>9. m.type \in {"handtraps", "result", "verified", "partial", "cancelled", "error"}
    BY DEF DownMsgs, DownTypes
  <1> QED BY <1>4, <1>5, <1>6, <1>7, <1>8, <1>9

\* The messages the page and the server can send.
LEMMA MessageTypes ==
    /\ \A id \in Starts \cup {None} : \A type \in UpTypes : [type |-> type, id |-> id] \in UpMsgs
    /\ \A id \in Starts \cup {None} : \A type \in DownTypes : Reply(type, id) \in DownMsgs
  BY Replies DEF UpMsgs

\* SolverTypeOK, part by part.
PageTypes == /\ page \in Page /\ ws \in Sockets \cup {None} /\ intentional \in BOOLEAN
             /\ timers \in SUBSET Timers /\ client \in ClientEnds
QueueTypes == up \in [Sockets -> Seq(UpMsgs)] /\ down \in [Sockets -> Seq(DownMsgs)]
ServerTypes == /\ server \in ServerEnds /\ registered \in Sockets \cup {None}
               /\ origin \in [Starts -> Sockets \cup {None}]
               /\ task \in [Starts -> {"none", "fetch", "running", "cancelled", "done", "aborted"}]
               /\ inFlight \in BOOLEAN /\ active \in Starts \cup {None} /\ cached \in Starts \cup {None}
BoundTypes == /\ started \in 0..MaxStarts /\ checks \in SUBSET Starts /\ faults \in 0..MaxFaults
              /\ visits \in 0..MaxVisits /\ cancels \in 0..MaxCancels

LEMMA TypeParts == SolverTypeOK <=> PageTypes /\ QueueTypes /\ ServerTypes /\ BoundTypes
  BY DEF SolverTypeOK, PageTypes, QueueTypes, ServerTypes, BoundTypes, Page, UpMsgs, DownMsgs,
         ClientEnds, ServerEnds

LEMMA TypePartsNext == PageTypes' /\ QueueTypes' /\ ServerTypes' /\ BoundTypes' => SolverTypeOK'
  BY DEF SolverTypeOK, PageTypes, QueueTypes, ServerTypes, BoundTypes, Page, UpMsgs, DownMsgs,
         ClientEnds, ServerEnds

\* The actions, in three groups.
PageStep ==
    \/ \E same \in BOOLEAN : OpenPage(same)
    \/ DeckLoaded \/ Uncollapse \/ Solve \/ Verify \/ Cancel
    \/ ReconnectFires \/ GraceFires \/ InitTimeout \/ IdleDisconnect
SocketStep(s) ==
    \/ Opened(s) \/ Deliver(s) \/ Attach(s) \/ Refuse(s) \/ ServerClose(s) \/ Receive(s)
    \/ HandshakeFails(s) \/ ClientCut(s) \/ ServerCut(s) \/ NeverArrives(s)
TaskStep(id) == FetchFails(id) \/ FetchDone(id) \/ SolveEnds(id) \/ VerifyEnds(id)

LEMMA NextParts ==
    SolverNext <=> \/ PageStep \/ CacheExpires
                   \/ \E s \in Sockets : SocketStep(s)
                   \/ \E id \in Starts : TaskStep(id)
  BY DEF SolverNext, PageStep, SocketStep, TaskStep

LEMMA PageStepTypes == ASSUME SolverTypeOK, PageStep PROVE SolverTypeOK'
  <1> USE SolverAssumption
  <1>1. PageTypes /\ QueueTypes /\ ServerTypes /\ BoundTypes
    BY TypeParts
  <1>2. /\ {"loading", "idle", "configuring", "running", "complete", "error"} = PageStates
        /\ {"init", "start", "verify", "cancel"} = UpTypes /\ None \in Starts \cup {None}
        /\ {"reconnect", "init", "grace"} = Timers
    BY DEF PageStates, UpTypes, Timers
  <1>3. ASSUME started < MaxStarts PROVE started + 1 \in Starts /\ started + 1 \in 0..MaxStarts
    BY <1>1, <1>3 DEF BoundTypes, Starts
  <1>4. Disconnected \in ClientEnds
    BY <1>1 DEF Disconnected, PageTypes, ClientEnds
  <1>5. ASSUME NEW s \in Sockets, Silenced(s) PROVE down' \in [Sockets -> Seq(DownMsgs)]
    BY <1>1, <1>5, QueueSteps DEF Silenced, QueueTypes
  <1>6. ASSUME NEW same \in BOOLEAN, OpenPage(same) PROVE SolverTypeOK'
    <2>1. page' \in Page
      BY <1>1, <1>2, <1>6 DEF OpenPage, PageTypes, Page
    <2>2. /\ client' \in ClientEnds /\ server' \in ServerEnds /\ timers' \in SUBSET Timers
          /\ ws' \in Sockets \cup {None} /\ intentional' \in BOOLEAN
      BY <1>1, <1>6, ConnectTypes DEF OpenPage, PageTypes, ServerTypes
    <2>3. visits' \in 0..MaxVisits /\ faults' \in 0..MaxFaults
      BY <1>1, <1>6 DEF OpenPage, Fault, BoundTypes
    <2> QED BY <1>1, <1>6, <2>1, <2>2, <2>3, TypePartsNext
         DEF OpenPage, PageTypes, QueueTypes, ServerTypes, BoundTypes, serverVars
  <1>7. CASE DeckLoaded
    <2>1. page' \in Page
      BY <1>1, <1>2, <1>7 DEF DeckLoaded, PageTypes, Page
    <2> QED BY <1>1, <1>7, <2>1, TypePartsNext
         DEF DeckLoaded, PageTypes, QueueTypes, ServerTypes, BoundTypes, serverVars, bounds
  <1>8. CASE Uncollapse
    <2>1. page' \in Page
      BY <1>1, <1>2, <1>8, InTypes DEF Uncollapse, PageTypes
    <2> QED BY <1>1, <1>8, <2>1, TypePartsNext
         DEF Uncollapse, PageTypes, QueueTypes, ServerTypes, BoundTypes, serverVars, bounds
  <1>9. CASE Solve
    <2> DEFINE asked == [In(page, "running") EXCEPT !.shown = None, !.sameDeck = TRUE]
    <2>1. asked \in Page /\ In(asked, "error") \in Page
      BY <1>1, <1>2, InTypes DEF PageTypes
    <2>2. page' \in {asked, In(asked, "error")}
      BY <1>9 DEF Solve
    <2>3. CASE Ready /\ Sends([type |-> "start", id |-> started + 1]) /\ started' = started + 1
      <3>1. [type |-> "start", id |-> started + 1] \in UpMsgs /\ started' \in 0..MaxStarts
        BY <1>2, <1>3, <1>9, <2>3, MessageTypes DEF Solve
      <3>2. up' \in [Sockets -> Seq(UpMsgs)]
        BY <2>3, <3>1, SendsAdds DEF Ready
      <3> QED BY <1>1, <1>9, <2>1, <2>2, <3>1, <3>2, TypePartsNext
           DEF Solve, PageTypes, QueueTypes, ServerTypes, BoundTypes, serverVars
    <2>4. CASE UNCHANGED <<up, started>>
      BY <1>1, <1>9, <2>1, <2>2, <2>4, TypePartsNext
         DEF Solve, PageTypes, QueueTypes, ServerTypes, BoundTypes, serverVars
    <2> QED BY <1>9, <2>3, <2>4 DEF Solve
  <1>10. CASE Verify
    <2>1. page' \in Page
      <3>1. [In(page, "running") EXCEPT !.verifying = TRUE] \in Page /\ In(page, "error") \in Page
        BY <1>1, <1>2, InTypes DEF PageTypes
      <3> QED BY <1>10, <3>1 DEF Verify
    <2>2. CASE /\ Ready /\ Sends([type |-> "verify", id |-> started + 1])
               /\ started' = started + 1 /\ checks' = checks \cup {started + 1}
      <3>1. [type |-> "verify", id |-> started + 1] \in UpMsgs /\ started' \in 0..MaxStarts
        BY <1>2, <1>3, <1>10, <2>2, MessageTypes DEF Verify
      <3>2. up' \in [Sockets -> Seq(UpMsgs)]
        BY <2>2, <3>1, SendsAdds DEF Ready
      <3>3. checks' \in SUBSET Starts
        BY <1>1, <1>3, <1>10, <2>2 DEF Verify, BoundTypes
      <3> QED BY <1>1, <1>10, <2>1, <3>1, <3>2, <3>3, TypePartsNext
           DEF Verify, PageTypes, QueueTypes, ServerTypes, BoundTypes, serverVars
    <2>3. CASE UNCHANGED <<up, started, checks>>
      BY <1>1, <1>10, <2>1, <2>3, TypePartsNext
         DEF Verify, PageTypes, QueueTypes, ServerTypes, BoundTypes, serverVars
    <2> QED BY <1>10, <2>2, <2>3 DEF Verify
  <1>11. CASE Cancel
    <2>1. [type |-> "cancel", id |-> None] \in UpMsgs
      BY <1>2, MessageTypes
    <2>2. up' \in [Sockets -> Seq(UpMsgs)]
      BY <1>11, <2>1, SendsAdds DEF Cancel, Ready
    <2>3. cancels' \in 0..MaxCancels
      BY <1>1, <1>11 DEF Cancel, BoundTypes
    <2> QED BY <1>1, <1>11, <2>2, <2>3, TypePartsNext
         DEF Cancel, PageTypes, QueueTypes, ServerTypes, BoundTypes, serverVars, clientVars
  <1>12. CASE ReconnectFires
    <2>1. timers \ {"reconnect"} \in SUBSET Timers
      BY <1>1 DEF PageTypes
    <2>2. PageTypes' /\ server' \in ServerEnds
      <3>1. CASE Connect(client, timers \ {"reconnect"}) /\ UNCHANGED page
        BY <1>1, <2>1, <3>1, ConnectTypes DEF PageTypes
      <3>2. CASE timers' = timers \ {"reconnect"} /\ UNCHANGED <<page, ws, client, intentional, server>>
        BY <1>1, <2>1, <3>2 DEF PageTypes, ServerTypes
      <3>3. CASE NoToken /\ timers' = timers \ {"reconnect"} /\ UNCHANGED <<ws, client, intentional>>
        BY <1>1, <2>1, <3>3, NoTokenTypes DEF PageTypes
      <3> QED BY <1>12, <3>1, <3>2, <3>3 DEF ReconnectFires
    <2>3. faults' \in 0..MaxFaults
      BY <1>1, <1>12 DEF ReconnectFires, Fault, BoundTypes
    <2> QED BY <1>1, <1>12, <2>2, <2>3, TypePartsNext
         DEF ReconnectFires, QueueTypes, ServerTypes, BoundTypes, serverVars
  <1>13. CASE GraceFires
    <2>1. page' \in Page
      BY <1>1, <1>2, <1>13, InTypes DEF GraceFires, PageTypes
    <2> QED BY <1>1, <1>13, <2>1, TypePartsNext
         DEF GraceFires, PageTypes, QueueTypes, ServerTypes, BoundTypes, serverVars, bounds
  <1>14. CASE InitTimeout
    <2>1. PageTypes' /\ server' \in ServerEnds
      <3>1. CASE Connect(Disconnected, {}) /\ UNCHANGED page
        BY <1>1, <1>4, <3>1, ConnectTypes DEF PageTypes
      <3>2. CASE Disconnect /\ NoToken
        BY <1>1, <1>4, <3>2, NoTokenTypes DEF Disconnect, PageTypes
      <3> QED BY <1>14, <3>1, <3>2 DEF InitTimeout
    <2>2. down' \in [Sockets -> Seq(DownMsgs)]
      BY <1>1, <1>5, <1>14 DEF InitTimeout, PageTypes, QueueTypes
    <2>3. faults' \in 0..MaxFaults
      BY <1>1, <1>14 DEF InitTimeout, Fault, BoundTypes
    <2> QED BY <1>1, <1>14, <2>1, <2>2, <2>3, TypePartsNext
         DEF InitTimeout, QueueTypes, ServerTypes, BoundTypes, serverVars
  <1>15. CASE IdleDisconnect
    <2>1. down' \in [Sockets -> Seq(DownMsgs)]
      BY <1>1, <1>5, <1>15 DEF IdleDisconnect, PageTypes, QueueTypes
    <2> QED BY <1>1, <1>4, <1>15, <2>1, TypePartsNext
         DEF IdleDisconnect, Disconnect, PageTypes, QueueTypes, ServerTypes, BoundTypes, serverVars, bounds
  <1> QED BY <1>6, <1>7, <1>8, <1>9, <1>10, <1>11, <1>12, <1>13, <1>14, <1>15 DEF PageStep

\* What an answer of the server leaves of the queues.
LEMMA SentTypes ==
    ASSUME NEW d \in [Sockets -> Seq(DownMsgs)], NEW s \in Sockets \cup {None},
           NEW type \in DownTypes, NEW id \in Starts \cup {None}
    PROVE  Sent(d, s, Reply(type, id)) \in [Sockets -> Seq(DownMsgs)]
  BY MessageTypes, SentAdds

\* The names of the answers.
LEMMA AnswerNames ==
    {"handtraps", "result", "verified", "partial", "cancelled", "error", "close", "outdated"} = DownTypes
  BY DEF DownTypes

LEMMA ReceiveTypes ==
    ASSUME SolverTypeOK, NEW s \in Sockets, Receive(s)
    PROVE  SolverTypeOK'
  <1>1. PageTypes /\ QueueTypes /\ ServerTypes /\ BoundTypes
    BY TypeParts
  <1>2. up[s] \in Seq(UpMsgs) /\ up[s] # <<>> /\ up' = [up EXCEPT ![s] = Tail(@)]
    BY <1>1 DEF Receive, QueueTypes
  <1>3. Tail(up[s]) \in Seq(UpMsgs) /\ Head(up[s]) \in UpMsgs
    BY <1>2, QueueSteps
  <1>4. up' \in [Sockets -> Seq(UpMsgs)]
    BY <1>1, <1>2, <1>3 DEF QueueTypes
  <1> DEFINE m == Head(up[s])
  <1>5. None \in Starts \cup {None} /\ m.id \in Starts \cup {None} /\ down \in [Sockets -> Seq(DownMsgs)]
    BY <1>1, <1>3 DEF UpMsgs, QueueTypes
  <1>6. CASE ReceiveInit(s)
    <2> DEFINE traps == Sent(down, s, Reply("handtraps", None))
    <2>1. traps \in [Sockets -> Seq(DownMsgs)]
      BY <1>5, SentTypes, AnswerNames
    <2>2. cached \in Starts \cup {None}
      BY <1>1 DEF ServerTypes
    <2>3. Sent(traps, s, Reply("result", cached)) \in [Sockets -> Seq(DownMsgs)]
      BY <2>1, <2>2, SentTypes, AnswerNames
    <2>4. down' \in [Sockets -> Seq(DownMsgs)] /\ UNCHANGED serverVars
      BY <1>6, <2>1, <2>3 DEF ReceiveInit
    <2> QED BY <1>1, <1>4, <2>4, TypePartsNext
         DEF Receive, PageTypes, QueueTypes, ServerTypes, BoundTypes, serverVars, clientVars, bounds
  <1>7. CASE m.type \in {"start", "verify"} /\ ReceiveStart(s, m.id)
    <2>1. CASE down' = Sent(down, s, Reply("error", m.id)) /\ UNCHANGED serverVars
      <3>1. down' \in [Sockets -> Seq(DownMsgs)]
        BY <1>5, <2>1, SentTypes, AnswerNames
      <3> QED BY <1>1, <1>4, <2>1, <3>1, TypePartsNext
           DEF Receive, PageTypes, QueueTypes, ServerTypes, BoundTypes, serverVars, clientVars, bounds
    <2>2. CASE /\ task' = [task EXCEPT ![m.id] = "fetch"] /\ origin' = [origin EXCEPT ![m.id] = s]
               /\ inFlight' = (inFlight \/ m.id \notin checks)
               /\ UNCHANGED <<down, registered, active, cached>>
      <3>1. inFlight' \in BOOLEAN
        BY <2>2
      <3> QED BY <1>1, <1>4, <2>2, <3>1, TypePartsNext
           DEF Receive, PageTypes, QueueTypes, ServerTypes, BoundTypes, clientVars, bounds
    <2> QED BY <1>7, <2>1, <2>2 DEF ReceiveStart
  <1>8. CASE ReceiveCancel
    <2>1. task' \in [Starts -> {"none", "fetch", "running", "cancelled", "done", "aborted"}]
      BY <1>1, <1>8 DEF ReceiveCancel, ServerTypes
    <2> QED BY <1>1, <1>4, <1>8, <2>1, TypePartsNext
         DEF Receive, ReceiveCancel, PageTypes, QueueTypes, ServerTypes, BoundTypes, clientVars, bounds
  <1> QED BY <1>6, <1>7, <1>8 DEF Receive

LEMMA SocketStepTypes == ASSUME SolverTypeOK, NEW s \in Sockets, SocketStep(s) PROVE SolverTypeOK'
  <1>1. PageTypes /\ QueueTypes /\ ServerTypes /\ BoundTypes
    BY TypeParts
  <1>2. None \in Starts \cup {None} /\ None \in Sockets \cup {None}
    OBVIOUS
  <1>3. ASSUME NEW r \in Sockets, Silenced(r) PROVE down' \in [Sockets -> Seq(DownMsgs)]
    BY <1>1, <1>3, QueueSteps DEF Silenced, QueueTypes
  <1>4. ASSUME NEW r \in Sockets PROVE Detached(r) \in Sockets \cup {None}
    BY <1>1 DEF Detached, ServerTypes
  <1>5. ASSUME Fault PROVE faults' \in 0..MaxFaults
    BY <1>1, <1>5, SolverAssumption DEF Fault, BoundTypes
  <1>6. /\ [up EXCEPT ![s] = <<>>] \in [Sockets -> Seq(UpMsgs)]
        /\ \A type \in {"close", "outdated"} : <<Reply(type, None)>> \in Seq(DownMsgs)
    <2>1. up \in [Sockets -> Seq(UpMsgs)] /\ up[s] \in Seq(UpMsgs) /\ down[s] \in Seq(DownMsgs)
      BY <1>1 DEF QueueTypes
    <2>2. <<>> \in Seq(UpMsgs)
      BY <2>1, QueueSteps
    <2>3. \A type \in {"close", "outdated"} : Reply(type, None) \in DownMsgs
      BY <1>2, MessageTypes, AnswerNames
    <2>4. \A type \in {"close", "outdated"} : <<Reply(type, None)>> \in Seq(DownMsgs)
      BY <2>1, <2>3, QueueSteps
    <2> QED BY <2>1, <2>2, <2>4
  <1>7. \A type \in {"close", "outdated"} :
          [down EXCEPT ![s] = <<Reply(type, None)>>] \in [Sockets -> Seq(DownMsgs)]
    BY <1>1, <1>6 DEF QueueTypes
  <1>8. CASE Opened(s)
    <2>1. client' \in ClientEnds /\ timers' \in SUBSET Timers
      BY <1>1, <1>8 DEF Opened, PageTypes, ClientEnds, Timers
    <2>2. up' \in [Sockets -> Seq(UpMsgs)]
      <3>1. [type |-> "init", id |-> None] \in UpMsgs
        BY <1>2, MessageTypes DEF UpTypes
      <3> QED BY <1>1, <1>8, <3>1, SendsAdds DEF Opened, QueueTypes
    <2> QED BY <1>1, <1>8, <2>1, <2>2, TypePartsNext
         DEF Opened, PageTypes, QueueTypes, ServerTypes, BoundTypes, serverVars, bounds
  <1>9. CASE Deliver(s)
    <2>1. down[s] \in Seq(DownMsgs) /\ down[s] # <<>> /\ down' = [down EXCEPT ![s] = Tail(@)]
      BY <1>1, <1>9 DEF Deliver, QueueTypes
    <2>2. Tail(down[s]) \in Seq(DownMsgs) /\ Head(down[s]) \in DownMsgs
      BY <2>1, QueueSteps
    <2>3. down' \in [Sockets -> Seq(DownMsgs)]
      BY <1>1, <2>1, <2>2 DEF QueueTypes
    <2>4. PageTypes'
      <3>1. CASE OnClose(s)
        BY <1>1, <3>1, OnCloseTypes DEF PageTypes
      <3>2. CASE OnOutdated(s)
        BY <1>1, <3>2, OnOutdatedTypes DEF PageTypes
      <3>3. CASE Head(down[s]).type \notin {"close", "outdated"} /\ Handle(Head(down[s]))
        BY <1>1, <2>2, <3>3, HandleTypes DEF PageTypes, Handle
      <3> QED BY <1>9, <3>1, <3>2, <3>3 DEF Deliver
    <2> QED BY <1>1, <1>9, <2>3, <2>4, TypePartsNext
         DEF Deliver, QueueTypes, ServerTypes, BoundTypes, serverVars, bounds
  <1>10. CASE Attach(s)
    <2>1. down' \in [Sockets -> Seq(DownMsgs)]
      BY <1>1, <1>2, <1>10, SentTypes, AnswerNames DEF Attach, QueueTypes, ServerTypes
    <2>2. server' \in ServerEnds /\ registered' \in Sockets \cup {None}
      BY <1>1, <1>10 DEF Attach, ServerTypes, ServerEnds
    <2> QED BY <1>1, <1>10, <2>1, <2>2, TypePartsNext
         DEF Attach, PageTypes, QueueTypes, ServerTypes, BoundTypes, clientVars, bounds
  <1>11. CASE Refuse(s)
    <2>1. down' \in [Sockets -> Seq(DownMsgs)]
      BY <1>1, <1>7, <1>11 DEF Refuse, QueueTypes
    <2>2. server' \in ServerEnds /\ faults' \in 0..MaxFaults
      BY <1>1, <1>5, <1>11 DEF Refuse, ServerTypes, ServerEnds
    <2> QED BY <1>1, <1>11, <2>1, <2>2, TypePartsNext
         DEF Refuse, PageTypes, QueueTypes, ServerTypes, BoundTypes, clientVars, serverVars
  <1>12. CASE ServerClose(s)
    <2>1. server' \in ServerEnds /\ registered' \in Sockets \cup {None}
      BY <1>1, <1>4, <1>12 DEF ServerClose, ServerTypes, ServerEnds
    <2> QED BY <1>1, <1>12, <2>1, TypePartsNext
         DEF ServerClose, PageTypes, QueueTypes, ServerTypes, BoundTypes, clientVars, bounds
  <1>13. CASE Receive(s)
    BY <1>13, ReceiveTypes
  <1>14. CASE HandshakeFails(s)
    <2>1. server' \in ServerEnds /\ faults' \in 0..MaxFaults
      BY <1>1, <1>5, <1>14 DEF HandshakeFails, ServerTypes, ServerEnds
    <2>2. PageTypes'
      BY <1>1, <1>14, OnCloseTypes DEF HandshakeFails, PageTypes
    <2> QED BY <1>1, <1>14, <2>1, <2>2, TypePartsNext
         DEF HandshakeFails, QueueTypes, ServerTypes, BoundTypes, serverVars
  <1>15. CASE ClientCut(s)
    <2>1. faults' \in 0..MaxFaults
      BY <1>1, <1>5, <1>15 DEF ClientCut
    <2>2. PageTypes'
      BY <1>1, <1>15, OnCloseTypes DEF ClientCut, PageTypes
    <2>3. QueueTypes'
      BY <1>3, <1>6, <1>15 DEF ClientCut, QueueTypes
    <2> QED BY <1>1, <1>15, <2>1, <2>2, <2>3, TypePartsNext
         DEF ClientCut, ServerTypes, BoundTypes, serverVars
  <1>16. CASE ServerCut(s)
    <2>1. server' \in ServerEnds /\ registered' \in Sockets \cup {None} /\ faults' \in 0..MaxFaults
      BY <1>1, <1>4, <1>5, <1>16 DEF ServerCut, ServerTypes, ServerEnds
    <2>2. QueueTypes'
      BY <1>6, <1>7, <1>16 DEF ServerCut, QueueTypes
    <2> QED BY <1>1, <1>16, <2>1, <2>2, TypePartsNext
         DEF ServerCut, PageTypes, ServerTypes, BoundTypes, clientVars
  <1>17. CASE NeverArrives(s)
    <2>1. server' \in ServerEnds
      BY <1>1, <1>17 DEF NeverArrives, ServerTypes, ServerEnds
    <2> QED BY <1>1, <1>17, <2>1, TypePartsNext
         DEF NeverArrives, PageTypes, QueueTypes, ServerTypes, BoundTypes, clientVars, serverVars, bounds
  <1> QED BY <1>8, <1>9, <1>10, <1>11, <1>12, <1>13, <1>14, <1>15, <1>16, <1>17 DEF SocketStep

LEMMA TaskStepTypes == ASSUME SolverTypeOK, NEW id \in Starts, TaskStep(id) PROVE SolverTypeOK'
  <1>1. PageTypes /\ QueueTypes /\ ServerTypes /\ BoundTypes
    BY TypeParts
  <1>2. None \in Starts \cup {None} /\ origin[id] \in Sockets \cup {None}
        /\ down \in [Sockets -> Seq(DownMsgs)] /\ registered \in Sockets \cup {None}
    BY <1>1 DEF ServerTypes, QueueTypes
  <1>3. ASSUME NEW how \in {"done", "aborted"}, Ends(id, how)
        PROVE /\ task' \in [Starts -> {"none", "fetch", "running", "cancelled", "done", "aborted"}]
              /\ inFlight' \in BOOLEAN
    BY <1>1, <1>3 DEF Ends, ServerTypes
  <1>8. \A type \in {"result", "error", "partial", "cancelled", "verified"} :
          Sent(down, registered, Reply(type, id)) \in [Sockets -> Seq(DownMsgs)]
    <2>1. {"result", "error", "partial", "cancelled", "verified"} \subseteq DownTypes
      BY DEF DownTypes
    <2> QED BY <1>2, <2>1, SentTypes
  <1>4. CASE FetchFails(id)
    <2>1. down' \in [Sockets -> Seq(DownMsgs)]
      BY <1>2, <1>4, SentTypes, AnswerNames DEF FetchFails
    <2>2. Ends(id, "done")
      BY <1>4 DEF FetchFails
    <2> QED BY <1>1, <1>3, <1>4, <2>1, <2>2, TypePartsNext
         DEF FetchFails, Ends, PageTypes, QueueTypes, ServerTypes, BoundTypes, clientVars, bounds
  <1>5. CASE FetchDone(id)
    <2>1. task' \in [Starts -> {"none", "fetch", "running", "cancelled", "done", "aborted"}]
      BY <1>1, <1>5 DEF FetchDone, ServerTypes
    <2> QED BY <1>1, <1>2, <1>5, <2>1, TypePartsNext
         DEF FetchDone, PageTypes, QueueTypes, ServerTypes, BoundTypes, clientVars, bounds
  <1>6. CASE SolveEnds(id)
    <2>1. down' \in [Sockets -> Seq(DownMsgs)]
      BY <1>8, <1>6 DEF SolveEnds
    <2>2. PICK how \in {"done", "aborted"} : Ends(id, how)
      BY <1>6 DEF SolveEnds
    <2>3. active' \in Starts \cup {None} /\ cached' \in Starts \cup {None}
      BY <1>1, <1>6 DEF SolveEnds, ServerTypes
    <2> QED BY <1>1, <1>3, <2>1, <2>2, <2>3, TypePartsNext
         DEF Ends, PageTypes, QueueTypes, ServerTypes, BoundTypes, clientVars, bounds
  <1>7. CASE VerifyEnds(id)
    <2>1. down' \in [Sockets -> Seq(DownMsgs)]
      BY <1>8, <1>7 DEF VerifyEnds
    <2>2. Ends(id, "done") /\ UNCHANGED <<active, cached>>
      BY <1>7 DEF VerifyEnds
    <2> QED BY <1>1, <1>3, <2>1, <2>2, TypePartsNext
         DEF Ends, PageTypes, QueueTypes, ServerTypes, BoundTypes, clientVars, bounds
  <1> QED BY <1>4, <1>5, <1>6, <1>7 DEF TaskStep

LEMMA TypeStep == SolverTypeOK /\ [SolverNext]_vars => SolverTypeOK'
  <1> SUFFICES ASSUME SolverTypeOK, [SolverNext]_vars PROVE SolverTypeOK'
    OBVIOUS
  <1>1. PageTypes /\ QueueTypes /\ ServerTypes /\ BoundTypes
    BY TypeParts
  <1>2. CASE CacheExpires
    BY <1>1, <1>2, TypePartsNext
       DEF CacheExpires, PageTypes, QueueTypes, ServerTypes, BoundTypes, clientVars, bounds
  <1>3. CASE UNCHANGED vars
    BY <1>1, <1>3, TypePartsNext
       DEF vars, PageTypes, QueueTypes, ServerTypes, BoundTypes, clientVars, serverVars, bounds
  <1> QED BY <1>2, <1>3, PageStepTypes, SocketStepTypes, TaskStepTypes, NextParts

LEMMA InitTypes == SolverInit => SolverTypeOK
  <1> SUFFICES ASSUME SolverInit PROVE SolverTypeOK
    OBVIOUS
  <1> USE SolverAssumption DEF SolverInit
  <1>1. PageTypes
    BY DEF PageTypes, Page, PageStates, ClientEnds
  <1>2. QueueTypes
    <2>1. <<>> \in Seq(UpMsgs) /\ <<>> \in Seq(DownMsgs)
      OBVIOUS
    <2> QED BY <2>1 DEF QueueTypes
  <1>3. ServerTypes
    BY DEF ServerTypes, ServerEnds
  <1>4. BoundTypes
    BY DEF BoundTypes
  <1> QED BY <1>1, <1>2, <1>3, <1>4, TypeParts

\* Every variable keeps to its type, in particular a message names a START there has been room for.
THEOREM SolverTypeCorrect == SolverSpec => []SolverTypeOK
  BY InitTypes, TypeStep, PTL DEF SolverSpec

-----------------------------------------------------------------------------
(* The registered socket.                                                  *)

\* Only the handshake, the closing and the loss of a socket move either side; a new socket is
\* one that the server had closed.
LEMMA RegistrationStep == SolverTypeOK /\ OpenIsRegistered /\ [SolverNext]_vars => OpenIsRegistered'
  <1> SUFFICES ASSUME SolverTypeOK, OpenIsRegistered, [SolverNext]_vars PROVE OpenIsRegistered'
    OBVIOUS
  <1>1. server \in ServerEnds /\ registered \in Sockets \cup {None} /\ None \notin Sockets
    BY DEF SolverTypeOK, ServerEnds, None, Sockets
  <1>2. CASE UNCHANGED <<server, registered>>
    BY <1>2 DEF OpenIsRegistered
  <1>3. ASSUME NEW s \in Sockets, server[s] # "open", NEW end, end # "open",
               server' = [server EXCEPT ![s] = end], registered' = registered
        PROVE OpenIsRegistered'
    BY <1>1, <1>3 DEF OpenIsRegistered, ServerEnds
  <1>4. ASSUME NEW s \in Sockets, server' = [server EXCEPT ![s] = "closed"], registered' = Detached(s)
        PROVE OpenIsRegistered'
    BY <1>1, <1>4 DEF OpenIsRegistered, ServerEnds, Detached
  <1>5. ASSUME NEW c, NEW t, Connect(c, t), registered' = registered PROVE OpenIsRegistered'
    <2>1. PICK s \in Sockets : Free(s) /\ server' = [server EXCEPT ![s] = "none"]
      BY <1>5 DEF Connect
    <2> QED BY <1>3, <1>5, <2>1 DEF Free
  <1>6. CASE PageStep
    <2>1. ASSUME NEW same \in BOOLEAN, OpenPage(same) PROVE OpenIsRegistered'
      BY <1>2, <1>5, <2>1 DEF OpenPage, serverVars
    <2>2. CASE ReconnectFires
      BY <1>2, <1>5, <2>2 DEF ReconnectFires, NoToken, serverVars
    <2>3. CASE InitTimeout
      BY <1>2, <1>5, <2>3 DEF InitTimeout, NoToken, serverVars
    <2>4. CASE DeckLoaded \/ Uncollapse \/ Solve \/ Verify \/ Cancel \/ GraceFires \/ IdleDisconnect
      BY <1>2, <2>4 DEF DeckLoaded, Uncollapse, Solve, Verify, Cancel, GraceFires, IdleDisconnect, serverVars
    <2> QED BY <1>6, <2>1, <2>2, <2>3, <2>4 DEF PageStep
  <1>7. ASSUME NEW s \in Sockets, SocketStep(s) PROVE OpenIsRegistered'
    <2>1. CASE Attach(s)
      <3>1. /\ registered' = s
            /\ server' = [r \in Sockets |-> IF r = s THEN "open"
                                            ELSE IF r = registered THEN "closing" ELSE server[r]]
        BY <2>1 DEF Attach
      <3> QED BY <1>1, <3>1 DEF OpenIsRegistered
    <2>2. CASE Refuse(s) \/ HandshakeFails(s) \/ NeverArrives(s)
      BY <1>3, <2>2 DEF Refuse, HandshakeFails, NeverArrives, serverVars
    <2>3. CASE ServerClose(s) \/ ServerCut(s)
      BY <1>4, <2>3 DEF ServerClose, ServerCut
    <2>4. CASE Receive(s)
      <3>1. registered' = registered
        BY <2>4 DEF Receive, ReceiveInit, ReceiveStart, ReceiveCancel, serverVars
      <3> QED BY <1>2, <2>4, <3>1 DEF Receive
    <2>5. CASE Opened(s) \/ Deliver(s) \/ ClientCut(s)
      BY <1>2, <2>5 DEF Opened, Deliver, ClientCut, serverVars
    <2> QED BY <1>7, <2>1, <2>2, <2>3, <2>4, <2>5 DEF SocketStep
  <1>8. ASSUME NEW id \in Starts, TaskStep(id) PROVE OpenIsRegistered'
    BY <1>2, <1>8 DEF TaskStep, FetchFails, FetchDone, SolveEnds, VerifyEnds, Ends
  <1>9. CASE CacheExpires
    BY <1>2, <1>9 DEF CacheExpires
  <1>10. CASE UNCHANGED vars
    BY <1>2, <1>10 DEF vars, serverVars
  <1> QED BY <1>6, <1>7, <1>8, <1>9, <1>10, NextParts

\* The socket that the server reads and writes is the registered one, whenever the close event of
\* the socket it replaced comes.
THEOREM TheOpenSocketIsRegistered == SolverSpec => []OpenIsRegistered
  <1>1. SolverInit => OpenIsRegistered
    BY DEF SolverInit, OpenIsRegistered, Sockets, None
  <1> QED BY <1>1, SolverTypeCorrect, RegistrationStep, PTL DEF SolverSpec

-----------------------------------------------------------------------------
(* The messages that start a solve.                                        *)

\* After this step the queues hold what they held, less the first g[s] of each, and at most some
\* messages that start nothing.
Moves(g) ==
    \A s \in Sockets : \A k \in DOMAIN up'[s] :
        \/ k + g[s] \in DOMAIN up[s] /\ up'[s][k] = up[s][k + g[s]]
        \/ ~Ask(up'[s][k])

\* Such a step breaks nothing as long as it begins no solve.
LEMMA AskMoves ==
    ASSUME SolverTypeOK, Given, AskedOnce, NEW g \in [Sockets -> {0, 1}], Moves(g),
           up' \in [Sockets -> Seq(UpMsgs)], started' = started, checks' = checks,
           \A i \in Starts : task[i] = "none" => task'[i] = "none"
    PROVE  Given' /\ AskedOnce'
  <1>1. /\ \A s \in Sockets : up[s] \in Seq(UpMsgs) /\ up'[s] \in Seq(UpMsgs)
        /\ \A s \in Sockets : DOMAIN up[s] = 1..Len(up[s]) /\ DOMAIN up'[s] = 1..Len(up'[s])
        /\ started \in 0..MaxStarts
    <2>1. \A s \in Sockets : up[s] \in Seq(UpMsgs) /\ up'[s] \in Seq(UpMsgs)
      BY DEF SolverTypeOK, UpMsgs
    <2> QED BY <2>1 DEF SolverTypeOK
  <1>2. AskedOnce'
    <2> SUFFICES ASSUME NEW s \in Sockets, NEW r \in Sockets, NEW k \in DOMAIN up'[s], NEW l \in DOMAIN up'[r],
                        Ask(up'[s][k]), Ask(up'[r][l]), up'[s][k].id = up'[r][l].id
                 PROVE  s = r /\ k = l
      BY DEF AskedOnce, Ask
    <2>1. /\ k + g[s] \in DOMAIN up[s] /\ up'[s][k] = up[s][k + g[s]]
          /\ l + g[r] \in DOMAIN up[r] /\ up'[r][l] = up[r][l + g[r]]
      BY DEF Moves
    <2>2. s = r /\ k + g[s] = l + g[r]
      BY <2>1 DEF AskedOnce
    <2>3. k \in Nat /\ l \in Nat /\ g[s] \in {0, 1}
      BY <1>1
    <2> QED BY <2>2, <2>3
  <1>3. Given'
    <2>1. ASSUME NEW s \in Sockets, NEW k \in DOMAIN up'[s], Ask(up'[s][k])
          PROVE up'[s][k].id \in 1..started /\ task'[up'[s][k].id] = "none"
      <3>1. k + g[s] \in DOMAIN up[s] /\ up'[s][k] = up[s][k + g[s]]
        BY <2>1 DEF Moves
      <3>2. up'[s][k].id \in 1..started /\ task[up'[s][k].id] = "none"
        BY <2>1, <3>1 DEF Given
      <3>3. 1..started \subseteq Starts
        BY <1>1, SolverAssumption DEF Starts
      <3> QED BY <3>2, <3>3
    <2>2. \A i \in Starts : i > started => task'[i] = "none" /\ i \notin checks
      BY DEF Given
    <2> QED BY <2>1, <2>2 DEF Given, Ask
  <1> QED BY <1>2, <1>3

\* A new number, in a message at the end of a queue.
LEMMA AskAdds ==
    ASSUME SolverTypeOK, Given, AskedOnce, NEW m \in UpMsgs, ws # None, Sends(m), started < MaxStarts,
           m.id = started + 1, started' = started + 1, task' = task,
           checks' \subseteq checks \cup {started + 1}
    PROVE  Given' /\ AskedOnce'
  <1>1. /\ started \in 0..MaxStarts /\ 1..started \subseteq Starts
        /\ \A s \in Sockets : DOMAIN up[s] = 1..Len(up[s])
    BY SolverAssumption DEF SolverTypeOK, Starts
  <1>2. \A r \in Sockets : \A k \in DOMAIN up'[r] :
          \/ k \in DOMAIN up[r] /\ up'[r][k] = up[r][k]
          \/ r = ws /\ k = Len(up[ws]) + 1 /\ up'[r][k] = m
    BY SendsAdds
  <1>3. \A r \in Sockets : \A k \in DOMAIN up[r] : Ask(up[r][k]) => up[r][k].id \in 1..started
    BY DEF Given
  <1>4. AskedOnce'
    <2> SUFFICES ASSUME NEW s \in Sockets, NEW r \in Sockets, NEW k \in DOMAIN up'[s], NEW l \in DOMAIN up'[r],
                        Ask(up'[s][k]), Ask(up'[r][l]), up'[s][k].id = up'[r][l].id
                 PROVE  s = r /\ k = l
      BY DEF AskedOnce, Ask
    <2>1. CASE up'[s][k] = m /\ s = ws /\ k = Len(up[ws]) + 1
      BY <1>1, <1>2, <1>3, <2>1
    <2>2. CASE k \in DOMAIN up[s] /\ up'[s][k] = up[s][k]
      <3>1. up'[s][k].id # started + 1
        BY <1>1, <1>3, <2>2
      <3>2. l \in DOMAIN up[r] /\ up'[r][l] = up[r][l]
        BY <1>2, <3>1
      <3> QED BY <2>2, <3>2 DEF AskedOnce
    <2> QED BY <1>2, <2>1, <2>2
  <1>5. Given'
    <2>1. ASSUME NEW s \in Sockets, NEW k \in DOMAIN up'[s], Ask(up'[s][k])
          PROVE up'[s][k].id \in 1..started' /\ task'[up'[s][k].id] = "none"
      <3>1. CASE up'[s][k] = m
        BY <1>1, <3>1, SolverAssumption DEF Given, Starts
      <3>2. CASE k \in DOMAIN up[s] /\ up'[s][k] = up[s][k]
        BY <1>1, <2>1, <3>2 DEF Given
      <3> QED BY <1>2, <3>1, <3>2
    <2>2. \A i \in Starts : i > started' => task'[i] = "none" /\ i \notin checks'
      BY <1>1 DEF Given, Starts
    <2> QED BY <2>1, <2>2 DEF Given, Ask
  <1> QED BY <1>4, <1>5

\* What an arriving START finds: its number is in no state yet, and in no other message.
LEMMA AskTaken ==
    ASSUME SolverTypeOK, Given, AskedOnce, NEW s \in Sockets, up[s] # <<>>, up' = [up EXCEPT ![s] = Tail(@)],
           Ask(Head(up[s])), NEW n \in Starts, n = Head(up[s]).id, started' = started, checks' = checks,
           task' = task \/ task' = [task EXCEPT ![n] = "fetch"]
    PROVE  Given' /\ AskedOnce' /\ task[n] = "none" /\ n \in 1..started
  <1>1. /\ up \in [Sockets -> Seq(UpMsgs)] /\ started \in 0..MaxStarts /\ 1..started \subseteq Starts
        /\ task \in [Starts -> {"none", "fetch", "running", "cancelled", "done", "aborted"}]
    <2>1. started \in 0..MaxStarts /\ 1..started \subseteq Starts
      BY SolverAssumption DEF SolverTypeOK, Starts
    <2>2. /\ up \in [Sockets -> Seq(UpMsgs)]
          /\ task \in [Starts -> {"none", "fetch", "running", "cancelled", "done", "aborted"}]
      BY DEF SolverTypeOK, UpMsgs
    <2> QED BY <2>1, <2>2
  <1>2. /\ Tail(up[s]) \in Seq(UpMsgs) /\ 1 \in DOMAIN up[s] /\ Head(up[s]) = up[s][1]
        /\ \A k \in DOMAIN Tail(up[s]) : k \in Nat /\ k + 1 \in DOMAIN up[s] /\ Tail(up[s])[k] = up[s][k + 1]
    <2>1. up[s] \in Seq(UpMsgs)
      BY <1>1
    <2> QED BY <2>1, QueueSteps
  <1>3. task[n] = "none" /\ n \in 1..started
    BY <1>2 DEF Given
  <1> DEFINE g == [r \in Sockets |-> IF r = s THEN 1 ELSE 0]
  <1>4. \A r \in Sockets : \A k \in DOMAIN up'[r] :
          k \in Nat /\ k + g[r] \in DOMAIN up[r] /\ up'[r][k] = up[r][k + g[r]]
    <2>1. ASSUME NEW r \in Sockets, r # s, NEW k \in DOMAIN up'[r]
          PROVE k \in Nat /\ k + g[r] \in DOMAIN up[r] /\ up'[r][k] = up[r][k + g[r]]
      <3>1. up'[r] = up[r] /\ up[r] \in Seq(UpMsgs) /\ g[r] = 0
        BY <1>1, <2>1
      <3>2. DOMAIN up[r] = 1..Len(up[r]) /\ Len(up[r]) \in Nat
        BY <3>1
      <3> QED BY <2>1, <3>1, <3>2
    <2>2. up'[s] = Tail(up[s]) /\ g[s] = 1
      BY <1>1
    <2>3. \A k \in DOMAIN up'[s] : k \in Nat /\ k + g[s] \in DOMAIN up[s] /\ up'[s][k] = up[s][k + g[s]]
      BY <1>2, <2>2
    <2> HIDE DEF g
    <2> QED BY <2>1, <2>3
  <1>5. AskedOnce'
    <2> SUFFICES ASSUME NEW q \in Sockets, NEW r \in Sockets, NEW k \in DOMAIN up'[q], NEW l \in DOMAIN up'[r],
                        Ask(up'[q][k]), Ask(up'[r][l]), up'[q][k].id = up'[r][l].id
                 PROVE  q = r /\ k = l
      BY DEF AskedOnce, Ask
    <2>1. /\ k + g[q] \in DOMAIN up[q] /\ up'[q][k] = up[q][k + g[q]]
          /\ l + g[r] \in DOMAIN up[r] /\ up'[r][l] = up[r][l + g[r]]
      <3> HIDE DEF g
      <3> QED BY <1>4
    <2>2. q = r /\ k + g[q] = l + g[r]
      <3> HIDE DEF g
      <3>1. /\ Ask(up[q][k + g[q]]) /\ Ask(up[r][l + g[r]])
            /\ up[q][k + g[q]].id = up[r][l + g[r]].id
        BY <2>1
      <3> QED BY <2>1, <3>1 DEF AskedOnce
    <2>3. k \in Nat /\ l \in Nat
      BY <1>4
    <2> QED BY <2>2, <2>3
  <1>6. Given'
    <2>1. ASSUME NEW r \in Sockets, NEW k \in DOMAIN up'[r], Ask(up'[r][k])
          PROVE up'[r][k].id \in 1..started /\ task'[up'[r][k].id] = "none"
      <3>1. k \in Nat /\ k + g[r] \in DOMAIN up[r] /\ up'[r][k] = up[r][k + g[r]]
        BY <1>4
      <3>2. up'[r][k].id \in 1..started /\ task[up'[r][k].id] = "none"
        BY <2>1, <3>1 DEF Given
      <3>3. r # s \/ k + g[r] # 1
        BY <3>1
      <3>4. up'[r][k].id # n
        BY <1>2, <2>1, <3>1, <3>3 DEF AskedOnce
      <3> QED BY <1>1, <3>2, <3>4
    <2>2. \A i \in Starts : i > started => task'[i] = "none" /\ i \notin checks
      <3> SUFFICES ASSUME NEW i \in Starts, i > started PROVE task'[i] = "none" /\ i \notin checks
        OBVIOUS
      <3>1. i # n
        BY <1>1, <1>3 DEF Starts
      <3>2. task[i] = "none" /\ i \notin checks
        BY DEF Given
      <3> QED BY <1>1, <3>1, <3>2
    <2> QED BY <2>1, <2>2 DEF Given, Ask
  <1> QED BY <1>3, <1>5, <1>6

\* The queues to the server, and who is waiting in them, from one state to the next.
LEMMA AskStep ==
    SolverTypeOK /\ SolverTypeOK' /\ Given /\ AskedOnce /\ [SolverNext]_vars => Given' /\ AskedOnce'
  <1> SUFFICES ASSUME SolverTypeOK, SolverTypeOK', Given, AskedOnce, [SolverNext]_vars
               PROVE  Given' /\ AskedOnce'
    OBVIOUS
  <1>1. /\ up \in [Sockets -> Seq(UpMsgs)] /\ up' \in [Sockets -> Seq(UpMsgs)]
        /\ task \in [Starts -> {"none", "fetch", "running", "cancelled", "done", "aborted"}]
    BY DEF SolverTypeOK, UpMsgs
  <1>2. \A s \in Sockets : \A k \in DOMAIN up[s] : k \in Nat /\ k + 0 = k
    <2>1. \A s \in Sockets : up[s] \in Seq(UpMsgs) /\ DOMAIN up[s] = 1..Len(up[s])
      BY <1>1
    <2> QED BY <2>1
  <1> DEFINE none == [s \in Sockets |-> 0]
             keeps == /\ started' = started /\ checks' = checks
                      /\ \A i \in Starts : task[i] = "none" => task'[i] = "none"
  <1>3. none \in [Sockets -> {0, 1}] /\ \A s \in Sockets : none[s] = 0
    OBVIOUS
  <1>4. ASSUME keeps, \A r \in Sockets : up'[r] = up[r] \/ up'[r] = <<>>
        PROVE Given' /\ AskedOnce'
    <2>1. Moves(none)
      BY <1>2, <1>3, <1>4 DEF Moves
    <2> QED BY <1>1, <1>3, <1>4, <2>1, AskMoves
  <1>5. ASSUME keeps, ws # None, NEW type \in {"init", "cancel"}, Sends([type |-> type, id |-> None])
        PROVE Given' /\ AskedOnce'
    <2> DEFINE m == [type |-> type, id |-> None]
    <2>1. m \in UpMsgs /\ ~Ask(m)
      BY DEF UpMsgs, UpTypes, Ask
    <2>2. \A r \in Sockets : \A k \in DOMAIN up'[r] : \/ k \in DOMAIN up[r] /\ up'[r][k] = up[r][k]
                                                      \/ up'[r][k] = m
      BY <1>5, <2>1, SendsAdds
    <2>3. Moves(none)
      <3> HIDE DEF m, none
      <3> QED BY <1>2, <1>3, <2>1, <2>2 DEF Moves
    <2> QED BY <1>1, <1>3, <1>5, <2>3, AskMoves
  <1>6. ASSUME keeps, up' = up PROVE Given' /\ AskedOnce'
    <2>1. Moves(none)
      BY <1>2, <1>3, <1>6 DEF Moves
    <2> QED BY <1>1, <1>3, <1>6, <2>1, AskMoves
  <1>7. ASSUME keeps, NEW s \in Sockets, up[s] # <<>>, up' = [up EXCEPT ![s] = Tail(@)]
        PROVE Given' /\ AskedOnce'
    <2> DEFINE g == [r \in Sockets |-> IF r = s THEN 1 ELSE 0]
    <2>1. g \in [Sockets -> {0, 1}] /\ g[s] = 1 /\ \A r \in Sockets \ {s} : g[r] = 0
      OBVIOUS
    <2>2. up'[s] = Tail(up[s]) /\ \A r \in Sockets \ {s} : up'[r] = up[r]
      BY <1>1, <1>7
    <2>3. \A k \in DOMAIN Tail(up[s]) : k + 1 \in DOMAIN up[s] /\ Tail(up[s])[k] = up[s][k + 1]
      <3>1. up[s] \in Seq(UpMsgs)
        BY <1>1
      <3> QED BY <1>7, <3>1, QueueSteps
    <2> HIDE DEF g
    <2>4. Moves(g)
      BY <1>2, <2>1, <2>2, <2>3 DEF Moves
    <2> QED BY <1>1, <1>7, <2>1, <2>4, AskMoves
  <1>8. ASSUME started < MaxStarts, ws # None, NEW type \in {"start", "verify"},
               Sends([type |-> type, id |-> started + 1]), started' = started + 1, task' = task,
               checks' \subseteq checks \cup {started + 1}
        PROVE Given' /\ AskedOnce'
    <2>1. started + 1 \in Starts
      BY <1>8, SolverAssumption DEF SolverTypeOK, Starts
    <2>2. [type |-> type, id |-> started + 1] \in UpMsgs
      BY <2>1 DEF UpMsgs, UpTypes
    <2>3. [type |-> type, id |-> started + 1].id = started + 1
      OBVIOUS
    <2> QED BY <1>8, <2>2, <2>3, AskAdds
  <1> HIDE DEF none
  <1>9. CASE PageStep
    <2>1. ASSUME NEW same \in BOOLEAN, OpenPage(same) PROVE Given' /\ AskedOnce'
      BY <1>6, <2>1 DEF OpenPage, serverVars
    <2>2. CASE DeckLoaded \/ Uncollapse \/ ReconnectFires \/ GraceFires \/ InitTimeout \/ IdleDisconnect
      BY <1>6, <2>2 DEF DeckLoaded, Uncollapse, ReconnectFires, GraceFires, InitTimeout, IdleDisconnect,
                        serverVars, bounds
    <2>3. CASE Solve
      <3>1. CASE Ready /\ Sends([type |-> "start", id |-> started + 1]) /\ started' = started + 1
        BY <1>8, <2>3, <3>1 DEF Solve, Ready, serverVars
      <3>2. CASE UNCHANGED <<up, started>>
        BY <1>6, <2>3, <3>2 DEF Solve, serverVars
      <3> QED BY <2>3, <3>1, <3>2 DEF Solve
    <2>4. CASE Verify
      <3>1. CASE /\ Ready /\ Sends([type |-> "verify", id |-> started + 1])
                 /\ started' = started + 1 /\ checks' = checks \cup {started + 1}
        BY <1>8, <2>4, <3>1 DEF Verify, Ready, serverVars
      <3>2. CASE UNCHANGED <<up, started, checks>>
        BY <1>6, <2>4, <3>2 DEF Verify, serverVars
      <3> QED BY <2>4, <3>1, <3>2 DEF Verify
    <2>5. CASE Cancel
      BY <1>5, <2>5 DEF Cancel, Ready, serverVars
    <2> QED BY <1>9, <2>1, <2>2, <2>3, <2>4, <2>5 DEF PageStep
  <1>10. ASSUME NEW s \in Sockets, SocketStep(s) PROVE Given' /\ AskedOnce'
    <2>1. CASE Opened(s)
      BY <1>5, <1>6, <2>1 DEF Opened, serverVars, bounds
    <2>2. CASE Deliver(s) \/ Attach(s) \/ Refuse(s) \/ ServerClose(s) \/ HandshakeFails(s) \/ NeverArrives(s)
      BY <1>6, <2>2 DEF Deliver, Attach, Refuse, ServerClose, HandshakeFails, NeverArrives, serverVars, bounds
    <2>3. CASE ClientCut(s) \/ ServerCut(s)
      <3>1. \A r \in Sockets : up'[r] = up[r] \/ up'[r] = <<>>
        BY <1>1, <2>3 DEF ClientCut, ServerCut
      <3> QED BY <1>4, <2>3, <3>1 DEF ClientCut, ServerCut, serverVars
    <2>4. CASE Receive(s)
      <3>1. up[s] # <<>> /\ up' = [up EXCEPT ![s] = Tail(@)] /\ UNCHANGED bounds
        BY <2>4 DEF Receive
      <3>2. CASE ReceiveInit(s)
        BY <1>7, <3>1, <3>2 DEF ReceiveInit, serverVars, bounds
      <3>3. CASE ReceiveCancel
        BY <1>1, <1>7, <3>1, <3>3 DEF ReceiveCancel, bounds
      <3>4. CASE Head(up[s]).type \in {"start", "verify"} /\ ReceiveStart(s, Head(up[s]).id)
        <4>1. Ask(Head(up[s]))
          BY <3>4 DEF Ask
        <4>2. /\ 1 \in DOMAIN up[s] /\ Head(up[s]) = up[s][1]
          <5>1. up[s] \in Seq(UpMsgs)
            BY <1>1
          <5> QED BY <3>1, <5>1, QueueSteps
        <4>3. Head(up[s]).id \in Starts
          <5>1. Head(up[s]).id \in 1..started
            BY <4>1, <4>2 DEF Given
          <5>2. started \in 0..MaxStarts
            BY DEF SolverTypeOK
          <5> QED BY <5>1, <5>2, SolverAssumption DEF Starts
        <4>4. task' = task \/ task' = [task EXCEPT ![Head(up[s]).id] = "fetch"]
          BY <3>4 DEF ReceiveStart, serverVars
        <4> QED BY <3>1, <4>1, <4>3, <4>4, AskTaken DEF bounds
      <3> QED BY <2>4, <3>2, <3>3, <3>4 DEF Receive
    <2> QED BY <1>10, <2>1, <2>2, <2>3, <2>4 DEF SocketStep
  <1>11. ASSUME NEW id \in Starts, TaskStep(id) PROVE Given' /\ AskedOnce'
    <2>1. \A i \in Starts : task[i] = "none" => task'[i] = "none"
      BY <1>1, <1>11 DEF TaskStep, FetchFails, FetchDone, SolveEnds, VerifyEnds, Ends
    <2>2. up' = up /\ UNCHANGED bounds
      BY <1>11 DEF TaskStep, FetchFails, FetchDone, SolveEnds, VerifyEnds, Ends
    <2> QED BY <1>6, <2>1, <2>2 DEF bounds
  <1>12. CASE CacheExpires
    BY <1>6, <1>12 DEF CacheExpires, bounds
  <1>13. CASE UNCHANGED vars
    BY <1>6, <1>13 DEF vars, serverVars, bounds
  <1> QED BY <1>9, <1>10, <1>11, <1>12, <1>13, NextParts

-----------------------------------------------------------------------------
(* The mutex.                                                              *)

\* What keeps OneSolve when the solves, the pool and the mutex stay as they are.
LEMMA MutexFrame ==
    ASSUME OneSolve, UNCHANGED <<task, inFlight, active, checks>>, cached' \in {cached, None}
    PROVE  OneSolve'
  BY DEF OneSolve, Solves

\* A solve has a number of its own, not that of a verification, from the moment it is asked for.
LEMMA MutexStep ==
    SolverTypeOK /\ Given /\ AskedOnce /\ OneSolve /\ [SolverNext]_vars => OneSolve'
  <1> SUFFICES ASSUME SolverTypeOK, Given, AskedOnce, OneSolve, [SolverNext]_vars PROVE OneSolve'
    OBVIOUS
  <1>1. /\ task \in [Starts -> {"none", "fetch", "running", "cancelled", "done", "aborted"}]
        /\ inFlight \in BOOLEAN /\ active \in Starts \cup {None} /\ None \notin Starts
        /\ checks \in SUBSET Starts /\ started \in 0..MaxStarts /\ Solves \subseteq Starts
    BY DEF SolverTypeOK, None, Starts, Solves
  <1>2. CASE PageStep
    <2>1. CASE Verify
      <3>1. CASE UNCHANGED checks
        BY <2>1, <3>1, MutexFrame DEF Verify, serverVars
      <3>2. CASE checks' = checks \cup {started + 1}
        <4>1. started + 1 \in Starts /\ task[started + 1] = "none"
          BY <1>1, <2>1, SolverAssumption DEF Verify, Given, Starts
        <4>2. UNCHANGED <<task, inFlight, active, cached>>
          BY <2>1 DEF Verify, serverVars
        <4>3. Solves' = Solves \ {started + 1}
          BY <3>2 DEF Solves
        <4> QED BY <1>1, <4>1, <4>2, <4>3 DEF OneSolve, Busy
      <3> QED BY <2>1, <3>1, <3>2 DEF Verify
    <2>2. ASSUME NEW same \in BOOLEAN, OpenPage(same) PROVE OneSolve'
      BY <2>2, MutexFrame DEF OpenPage, serverVars
    <2>3. CASE DeckLoaded \/ Uncollapse \/ ReconnectFires \/ GraceFires \/ InitTimeout \/ IdleDisconnect
               \/ Solve \/ Cancel
      BY <2>3, MutexFrame DEF DeckLoaded, Uncollapse, ReconnectFires, GraceFires, InitTimeout, IdleDisconnect,
                              Solve, Cancel, serverVars, bounds
    <2> QED BY <1>2, <2>1, <2>2, <2>3 DEF PageStep
  <1>3. ASSUME NEW s \in Sockets, SocketStep(s) PROVE OneSolve'
    <2>1. CASE Receive(s)
      <3>1. UNCHANGED bounds /\ up[s] # <<>>
        BY <2>1 DEF Receive
      <3>2. CASE ReceiveInit(s)
        BY <3>1, <3>2, MutexFrame DEF ReceiveInit, serverVars, bounds
      <3>3. CASE ReceiveCancel
        <4>1. task' = task \/ (active \in Starts /\ task[active] = "running"
                                 /\ task' = [task EXCEPT ![active] = "cancelled"])
          BY <1>1, <3>3 DEF ReceiveCancel
        <4>2. UNCHANGED <<inFlight, active, cached, checks>>
          BY <3>1, <3>3 DEF ReceiveCancel, bounds
        <4> QED BY <1>1, <4>1, <4>2 DEF OneSolve, Busy, Solves
      <3>4. CASE Head(up[s]).type \in {"start", "verify"} /\ ReceiveStart(s, Head(up[s]).id)
        <4> DEFINE n == Head(up[s]).id
        <4>1. CASE UNCHANGED serverVars
          BY <3>1, <4>1, MutexFrame DEF serverVars, bounds
        <4>2. CASE /\ n \in checks \/ ~inFlight
                   /\ task' = [task EXCEPT ![n] = "fetch"] /\ inFlight' = (inFlight \/ n \notin checks)
                   /\ UNCHANGED <<active, cached>>
          <5>1. n \in Starts /\ task[n] = "none"
            <6>1. /\ 1 \in DOMAIN up[s] /\ Head(up[s]) = up[s][1]
              <7>1. up[s] \in Seq(UpMsgs)
                BY DEF SolverTypeOK, UpMsgs
              <7> QED BY <3>1, <7>1, QueueSteps
            <6>2. n \in 1..started /\ task[n] = "none"
              BY <3>4, <6>1 DEF Given, Ask
            <6> QED BY <1>1, <6>2, SolverAssumption DEF Starts
          <5>2. Solves' = Solves /\ (n \in checks <=> n \notin Solves)
            BY <3>1, <5>1 DEF Solves, bounds
          <5>3. \A i \in Starts : task'[i] = IF i = n THEN "fetch" ELSE task[i]
            BY <1>1, <4>2
          <5>4. CASE n \in checks
            BY <1>1, <4>2, <5>2, <5>3, <5>4 DEF OneSolve, Busy
          <5>5. CASE n \notin checks
            <6>1. inFlight' /\ ~inFlight
              BY <4>2, <5>5
            <6>2. \A i \in Solves : task[i] \notin Busy
              BY <6>1 DEF OneSolve
            <6> QED BY <1>1, <4>2, <5>1, <5>2, <5>3, <5>5, <6>1, <6>2 DEF OneSolve, Busy
          <5> QED BY <5>4, <5>5
        <4> QED BY <3>4, <4>1, <4>2 DEF ReceiveStart
      <3> QED BY <2>1, <3>2, <3>3, <3>4 DEF Receive
    <2>2. CASE Opened(s) \/ Deliver(s) \/ Attach(s) \/ Refuse(s) \/ ServerClose(s) \/ HandshakeFails(s)
               \/ NeverArrives(s) \/ ClientCut(s) \/ ServerCut(s)
      BY <2>2, MutexFrame DEF Opened, Deliver, Attach, Refuse, ServerClose, HandshakeFails, NeverArrives,
                              ClientCut, ServerCut, serverVars, bounds
    <2> QED BY <1>3, <2>1, <2>2 DEF SocketStep
  <1>4. ASSUME NEW id \in Starts, TaskStep(id) PROVE OneSolve'
    <2>1. ASSUME NEW how \in {"done", "aborted"}, Ends(id, how)
          PROVE /\ \A i \in Starts : task'[i] = IF i = id THEN how ELSE task[i]
                /\ inFlight' = (inFlight /\ id \in checks) /\ Solves' = Solves
      BY <1>1, <2>1 DEF Ends, Solves, bounds
    <2>2. CASE FetchFails(id)
      <3>1. Ends(id, "done") /\ UNCHANGED <<active, cached>> /\ task[id] = "fetch"
        BY <2>2 DEF FetchFails
      <3>2. CASE id \in checks
        <4>1. \A i \in Solves : i # id
          BY <3>2 DEF Solves
        <4> QED BY <1>1, <2>1, <3>1, <3>2, <4>1 DEF OneSolve, Busy
      <3>3. CASE id \notin checks
        <4>1. id \in Solves
          BY <3>3 DEF Solves
        <4> QED BY <1>1, <2>1, <3>1, <3>3, <4>1 DEF OneSolve, Busy
      <3> QED BY <3>2, <3>3
    <2>3. CASE FetchDone(id)
      <3>1. UNCHANGED <<inFlight, checks>> /\ task[id] = "fetch" /\ Solves' = Solves
        BY <2>3 DEF FetchDone, bounds, Solves
      <3>2. CASE id \in checks
        <4>1. /\ \A i \in Starts : task'[i] = IF i = id THEN "running" ELSE task[i]
              /\ UNCHANGED <<active, cached>>
          BY <2>3, <3>2 DEF FetchDone
        <4>2. \A i \in Solves : i # id
          BY <3>2 DEF Solves
        <4> QED BY <1>1, <3>1, <4>1, <4>2 DEF OneSolve, Busy
      <3>3. CASE id \notin checks
        <4>1. id \in Solves
          BY <3>3 DEF Solves
        <4>2. active = None
          BY <1>1, <3>1, <4>1 DEF OneSolve, Busy
        <4>3. /\ \A i \in Starts : task'[i] = IF i = id THEN "running" ELSE task[i]
              /\ active' = id /\ cached' = None
          BY <1>1, <2>3, <3>3, <4>2 DEF FetchDone
        <4> QED BY <1>1, <3>1, <4>1, <4>2, <4>3 DEF OneSolve, Busy
      <3> QED BY <3>2, <3>3
    <2>4. CASE SolveEnds(id)
      <3>1. /\ id \in Solves /\ active' = None /\ task[id] \in Busy
            /\ task[id] \in {"running", "cancelled"}
        BY <2>4 DEF SolveEnds, Solves, Busy
      <3>2. PICK how \in {"done", "aborted"} : Ends(id, how)
        BY <2>4 DEF SolveEnds
      <3>3. ~inFlight' /\ id \notin checks
        BY <2>1, <2>4, <3>2 DEF SolveEnds
      <3>4. \A i \in Solves : task'[i] \notin Busy
        BY <1>1, <2>1, <3>1, <3>2 DEF OneSolve, Busy
      <3> QED BY <1>1, <2>1, <3>1, <3>2, <3>3, <3>4 DEF OneSolve, Busy
    <2>5. CASE VerifyEnds(id)
      <3>1. Ends(id, "done") /\ UNCHANGED <<active, cached>> /\ id \in checks
        BY <2>5 DEF VerifyEnds
      <3>2. \A i \in Solves : i # id
        BY <3>1 DEF Solves
      <3> QED BY <1>1, <2>1, <3>1, <3>2 DEF OneSolve, Busy
    <2> QED BY <1>4, <2>2, <2>3, <2>4, <2>5 DEF TaskStep
  <1>5. CASE CacheExpires
    BY <1>5, MutexFrame DEF CacheExpires, bounds
  <1>6. CASE UNCHANGED vars
    BY <1>6, MutexFrame DEF vars, serverVars, bounds
  <1> QED BY <1>2, <1>3, <1>4, <1>5, <1>6, NextParts

-----------------------------------------------------------------------------
(* The results.                                                            *)

\* A START that has ended has ended for good: the number that arrives is new.
LEMMA DoneStays ==
    ASSUME SolverTypeOK, Given, AskedOnce, [SolverNext]_vars, NEW i \in Starts, task[i] = "done"
    PROVE  task'[i] = "done"
  <1>1. task \in [Starts -> {"none", "fetch", "running", "cancelled", "done", "aborted"}]
    BY DEF SolverTypeOK
  <1>2. CASE task' = task
    BY <1>2
  <1>3. ASSUME NEW s \in Sockets, Receive(s) PROVE task'[i] = "done"
    <2>1. up[s] # <<>>
      BY <1>3 DEF Receive
    <2>2. CASE ReceiveInit(s)
      BY <1>2, <2>2 DEF ReceiveInit, serverVars
    <2>3. CASE ReceiveCancel
      BY <1>1, <2>3 DEF ReceiveCancel
    <2>4. CASE Head(up[s]).type \in {"start", "verify"} /\ ReceiveStart(s, Head(up[s]).id)
      <3>1. /\ 1 \in DOMAIN up[s] /\ Head(up[s]) = up[s][1]
        <4>1. up[s] \in Seq(UpMsgs)
          BY DEF SolverTypeOK, UpMsgs
        <4> QED BY <2>1, <4>1, QueueSteps
      <3>2. task[Head(up[s]).id] = "none"
        BY <2>4, <3>1 DEF Given, Ask
      <3> QED BY <1>1, <1>2, <2>4, <3>2 DEF ReceiveStart, serverVars
    <2> QED BY <1>3, <2>2, <2>3, <2>4 DEF Receive
  <1>4. ASSUME NEW id \in Starts, TaskStep(id) PROVE task'[i] = "done"
    BY <1>1, <1>4 DEF TaskStep, FetchFails, FetchDone, SolveEnds, VerifyEnds, Ends
  <1>5. ASSUME NEW same \in BOOLEAN, OpenPage(same) PROVE task' = task
    BY <1>5 DEF OpenPage, serverVars
  <1>6. CASE PageStep
    BY <1>2, <1>5, <1>6 DEF PageStep, DeckLoaded, Uncollapse, Solve, Verify, Cancel, ReconnectFires,
                            GraceFires, InitTimeout, IdleDisconnect, serverVars
  <1>7. ASSUME NEW s \in Sockets, SocketStep(s), ~Receive(s) PROVE task' = task
    BY <1>7 DEF SocketStep, Opened, Deliver, Attach, Refuse, ServerClose, HandshakeFails, NeverArrives,
                ClientCut, ServerCut, serverVars
  <1>8. CASE CacheExpires \/ UNCHANGED vars
    BY <1>2, <1>8 DEF CacheExpires, vars, serverVars
  <1> QED BY <1>2, <1>3, <1>4, <1>6, <1>7, <1>8, NextParts

\* A message from the server is no result, or the result of a solve that this step leaves done.
Harmless(m) == m.type = "result" => m.id # None /\ task'[m.id] = "done"

\* A step that puts only such messages in the queues and results in their places.
LEMMA AnswerFrame ==
    ASSUME SolverTypeOK', Answered, \A i \in Starts : task[i] = "done" => task'[i] = "done",
           \A s \in Sockets : \A k \in DOMAIN down'[s] :
               \/ \E l \in DOMAIN down[s] : down'[s][k] = down[s][l]
               \/ Harmless(down'[s][k]),
           cached' \in {cached, None} \/ task'[cached'] = "done",
           page'.shown \in {page.shown, None} \/ task'[page'.shown] = "done"
    PROVE  Answered'
  <1>1. /\ cached' \in Starts \cup {None} /\ page'.shown \in Starts \cup {None}
        /\ \A s \in Sockets : \A k \in DOMAIN down'[s] : down'[s][k].id \in Starts \cup {None}
    <2>1. \A s \in Sockets : down'[s] \in Seq(DownMsgs)
      BY DEF SolverTypeOK, DownMsgs
    <2>2. \A s \in Sockets : \A k \in DOMAIN down'[s] : down'[s][k] \in DownMsgs
      BY <2>1
    <2> QED BY <2>2 DEF SolverTypeOK, DownMsgs
  <1>2. cached' # None => task'[cached'] = "done"
    BY <1>1 DEF Answered
  <1>3. page'.shown # None => task'[page'.shown] = "done"
    BY <1>1 DEF Answered
  <1>4. ASSUME NEW s \in Sockets, NEW k \in DOMAIN down'[s], down'[s][k].type = "result"
        PROVE  down'[s][k].id # None /\ task'[down'[s][k].id] = "done"
    <2>1. CASE Harmless(down'[s][k])
      BY <1>4, <2>1 DEF Harmless
    <2>2. ASSUME NEW l \in DOMAIN down[s], down'[s][k] = down[s][l]
          PROVE down'[s][k].id # None /\ task'[down'[s][k].id] = "done"
      <3>1. down[s][l].id # None /\ task[down[s][l].id] = "done"
        BY <1>4, <2>2 DEF Answered
      <3>2. down[s][l].id \in Starts
        BY <1>1, <2>2, <3>1
      <3> QED BY <2>2, <3>1, <3>2
    <2> QED BY <2>1, <2>2
  <1> QED BY <1>2, <1>3, <1>4 DEF Answered

\* What an answer adds.
LEMMA AnswerAdds ==
    ASSUME SolverTypeOK, NEW s \in Sockets \cup {None}, NEW a \in DownMsgs, Harmless(a)
    PROVE  \A r \in Sockets : \A k \in DOMAIN Sent(down, s, a)[r] :
               \/ \E l \in DOMAIN down[r] : Sent(down, s, a)[r][k] = down[r][l]
               \/ Harmless(Sent(down, s, a)[r][k])
  <1>1. down \in [Sockets -> Seq(DownMsgs)]
    BY DEF SolverTypeOK, DownMsgs
  <1>2. CASE s \in Sockets
    <2>1. \A r \in Sockets : \A k \in DOMAIN Sent(down, s, a)[r] :
            \/ k \in DOMAIN down[r] /\ Sent(down, s, a)[r][k] = down[r][k]
            \/ Sent(down, s, a)[r][k] = a
      BY <1>1, <1>2, SentAdds
    <2> QED BY <2>1
  <1>3. CASE s = None
    BY <1>3 DEF Sent
  <1> QED BY <1>2, <1>3

\* Two answers in a row.
LEMMA AnswersAdd ==
    ASSUME SolverTypeOK, NEW s \in Sockets, NEW a \in DownMsgs, Harmless(a), NEW b \in DownMsgs, Harmless(b),
           NEW d, d = Sent(down, s, a)
    PROVE  \A r \in Sockets : \A k \in DOMAIN Sent(d, s, b)[r] :
               \/ \E l \in DOMAIN down[r] : Sent(d, s, b)[r][k] = down[r][l]
               \/ Harmless(Sent(d, s, b)[r][k])
  <1>1. down \in [Sockets -> Seq(DownMsgs)]
    BY DEF SolverTypeOK, DownMsgs
  <1>2. d \in [Sockets -> Seq(DownMsgs)]
    BY <1>1, SentAdds
  <1>3. \A r \in Sockets : \A k \in DOMAIN Sent(d, s, b)[r] :
          \/ k \in DOMAIN d[r] /\ Sent(d, s, b)[r][k] = d[r][k]
          \/ Sent(d, s, b)[r][k] = b
    BY <1>2, SentAdds
  <1>4. \A r \in Sockets : \A k \in DOMAIN d[r] : \/ \E l \in DOMAIN down[r] : d[r][k] = down[r][l]
                                                  \/ Harmless(d[r][k])
    BY AnswerAdds
  <1> QED BY <1>3, <1>4

LEMMA AnswerStep ==
    SolverTypeOK /\ SolverTypeOK' /\ Given /\ AskedOnce /\ Answered /\ [SolverNext]_vars => Answered'
  <1> SUFFICES ASSUME SolverTypeOK, SolverTypeOK', Given, AskedOnce, Answered, [SolverNext]_vars
               PROVE  Answered'
    OBVIOUS
  <1>1. /\ down \in [Sockets -> Seq(DownMsgs)] /\ None \in Starts \cup {None}
        /\ page \in Page /\ cached \in Starts \cup {None} /\ registered \in Sockets \cup {None}
        /\ origin \in [Starts -> Sockets \cup {None}]
        /\ task \in [Starts -> {"none", "fetch", "running", "cancelled", "done", "aborted"}]
    BY DEF SolverTypeOK, DownMsgs, Page
  <1>2. \A i \in Starts : task[i] = "done" => task'[i] = "done"
    BY DoneStays
  <1> DEFINE Kept == \A s \in Sockets : \A k \in DOMAIN down'[s] :
                       \/ \E l \in DOMAIN down[s] : down'[s][k] = down[s][l]
                       \/ Harmless(down'[s][k])
             Shown == page'.shown \in {page.shown, None} \/ task'[page'.shown] = "done"
             Cached == cached' \in {cached, None} \/ task'[cached'] = "done"
  <1>3. ASSUME Kept, Shown, Cached PROVE Answered'
    BY <1>2, <1>3, AnswerFrame
  <1>4. ASSUME \A s \in Sockets : \/ down'[s] = down[s] \/ down'[s] = <<>>
                                  \/ \E type \in {"close", "outdated"} : down'[s] = <<Reply(type, None)>>
        PROVE Kept
    <2> SUFFICES ASSUME NEW s \in Sockets, NEW k \in DOMAIN down'[s]
                 PROVE \/ \E l \in DOMAIN down[s] : down'[s][k] = down[s][l]
                       \/ Harmless(down'[s][k])
      OBVIOUS
    <2>1. CASE down'[s] = down[s]
      BY <2>1
    <2>2. CASE down'[s] = <<>>
      BY <2>2
    <2>3. ASSUME NEW type \in {"close", "outdated"}, down'[s] = <<Reply(type, None)>>
          PROVE  Harmless(down'[s][k])
      <3>1. down'[s][k] = Reply(type, None)
        BY <2>3
      <3> QED BY <3>1, Replies, AnswerNames DEF Harmless
    <2> QED BY <1>4, <2>1, <2>2, <2>3
  <1>5. ASSUME NEW s \in Sockets \cup {None}, NEW type \in DownTypes, NEW id \in Starts \cup {None},
               type # "result" \/ (id # None /\ task'[id] = "done"),
               down' = Sent(down, s, Reply(type, id))
        PROVE Kept
    <2>1. Harmless(Reply(type, id)) /\ Reply(type, id) \in DownMsgs
      BY <1>5, Replies DEF Harmless
    <2> QED BY <1>5, <2>1, AnswerAdds
  <1>6. ASSUME NEW s \in Sockets, Silenced(s) PROVE Kept
    BY <1>1, <1>4, <1>6 DEF Silenced
  <1>7. ASSUME NEW state \in PageStates
        PROVE /\ In(page, state).shown = page.shown
              /\ [In(page, state) EXCEPT !.verifying = TRUE].shown = page.shown
              /\ [In(page, state) EXCEPT !.shown = None, !.sameDeck = TRUE].shown = None
              /\ In([In(page, state) EXCEPT !.shown = None, !.sameDeck = TRUE], "error").shown = None
    <2>1. [In(page, state) EXCEPT !.shown = None, !.sameDeck = TRUE] \in Page /\ "error" \in PageStates
      BY <1>1, InTypes DEF PageStates
    <2>2. /\ In(page, state).shown = page.shown
          /\ [In(page, state) EXCEPT !.verifying = TRUE].shown = page.shown
          /\ [In(page, state) EXCEPT !.shown = None, !.sameDeck = TRUE].shown = None
      <3>1. In(page, state).shown = page.shown
        BY <1>1, InTypes
      <3>2. [In(page, state) EXCEPT !.verifying = TRUE].shown = page.shown
        BY <1>1, InTypes
      <3>3. [In(page, state) EXCEPT !.shown = None, !.sameDeck = TRUE].shown = None
        <4>1. In(page, state) \in Page
          BY <1>1, InTypes
        <4> QED BY <4>1 DEF Page
      <3> QED BY <3>1, <3>2, <3>3
    <2>3. \A p \in Page : In(p, "error").shown = p.shown
      BY <2>1, InTypes
    <2> QED BY <2>1, <2>2, <2>3
  <1>8. {"idle", "configuring", "running", "complete", "error", "loading"} = PageStates
    BY DEF PageStates
  <1> HIDE DEF Kept, Shown, Cached
  <1>9. CASE PageStep
    <2>1. cached' = cached
      BY <1>9 DEF PageStep, OpenPage, DeckLoaded, Uncollapse, Solve, Verify, Cancel, ReconnectFires,
                  GraceFires, InitTimeout, IdleDisconnect, serverVars
    <2>2. Kept
      <3>1. CASE UNCHANGED down
        BY <1>4, <3>1
      <3>2. CASE InitTimeout \/ IdleDisconnect
        <4>1. ws \in Sockets \cup {None}
          BY DEF SolverTypeOK
        <4> QED BY <1>4, <1>6, <3>2, <4>1 DEF InitTimeout, IdleDisconnect
      <3> QED BY <1>9, <3>1, <3>2 DEF PageStep, OpenPage, DeckLoaded, Uncollapse, Solve, Verify, Cancel,
                                      ReconnectFires, GraceFires
    <2>3. page'.shown \in {page.shown, None}
      <3>1. ASSUME NEW same \in BOOLEAN, OpenPage(same) PROVE page'.shown = page.shown
        BY <1>1, <3>1 DEF OpenPage, Page
      <3>2. CASE DeckLoaded
        BY <1>1, <3>2 DEF DeckLoaded, Page
      <3>3. CASE Uncollapse
        BY <1>7, <1>8, <3>3 DEF Uncollapse
      <3>4. CASE Solve
        BY <1>7, <1>8, <3>4 DEF Solve
      <3>5. CASE Verify
        BY <1>7, <1>8, <3>5 DEF Verify
      <3>6. CASE GraceFires
        BY <1>7, <1>8, <3>6 DEF GraceFires
      <3>7. CASE Cancel \/ ReconnectFires \/ InitTimeout \/ IdleDisconnect
        BY <3>7, NoTokenTypes DEF Cancel, ReconnectFires, InitTimeout, IdleDisconnect, clientVars
      <3> QED BY <1>9, <3>1, <3>2, <3>3, <3>4, <3>5, <3>6, <3>7 DEF PageStep
    <2> QED BY <1>3, <2>1, <2>2, <2>3 DEF Shown, Cached
  <1>10. ASSUME NEW s \in Sockets, SocketStep(s) PROVE Answered'
    <2>1. cached' = cached
      BY <1>10 DEF SocketStep, Opened, Deliver, Attach, Refuse, ServerClose, Receive, ReceiveInit, ReceiveStart,
                   ReceiveCancel, HandshakeFails, ClientCut, ServerCut, NeverArrives, serverVars
    <2>2. CASE Deliver(s)
      <3>1. /\ Tail(down[s]) \in Seq(DownMsgs) /\ Head(down[s]) \in DownMsgs
            /\ 1 \in DOMAIN down[s] /\ Head(down[s]) = down[s][1]
            /\ \A k \in DOMAIN Tail(down[s]) : k + 1 \in DOMAIN down[s] /\ Tail(down[s])[k] = down[s][k + 1]
        <4>1. down[s] \in Seq(DownMsgs) /\ down[s] # <<>>
          BY <1>1, <2>2 DEF Deliver
        <4> QED BY <4>1, QueueSteps
      <3>2. \A r \in Sockets : down'[r] = IF r = s THEN Tail(down[s]) ELSE down[r]
        BY <1>1, <2>2 DEF Deliver
      <3>3. Kept
        BY <3>1, <3>2 DEF Kept
      <3>4. CASE OnClose(s)
        BY <1>3, <2>1, <3>3, <3>4 DEF OnClose, Shown, Cached
      <3>5. CASE OnOutdated(s)
        BY <1>3, <2>1, <3>3, <3>5, OnOutdatedTypes DEF Shown, Cached
      <3>6. CASE Head(down[s]).type \notin {"close", "outdated"} /\ Handle(Head(down[s]))
        <4>1. \/ page'.shown \in {page.shown, None}
              \/ Head(down[s]).type = "result" /\ page'.shown = Head(down[s]).id
          BY <3>1, <3>6, HandleTypes
        <4>2. CASE Head(down[s]).type = "result" /\ page'.shown = Head(down[s]).id
          <5>1. Head(down[s]).id # None /\ task[Head(down[s]).id] = "done"
            BY <3>1, <4>2 DEF Answered
          <5>2. Head(down[s]).id \in Starts
            BY <3>1, <5>1 DEF DownMsgs
          <5> QED BY <1>2, <1>3, <2>1, <3>3, <4>2, <5>1, <5>2 DEF Shown, Cached
        <4> QED BY <1>3, <2>1, <3>3, <4>1, <4>2 DEF Shown, Cached
      <3> QED BY <2>2, <3>4, <3>5, <3>6 DEF Deliver
    <2>3. CASE ~Deliver(s)
      <3>1. page' = page
        BY <1>10, <2>3 DEF SocketStep, Opened, Attach, Refuse, ServerClose, Receive, HandshakeFails,
                           ClientCut, ServerCut, NeverArrives, OnClose, clientVars
      <3>2. Kept
        <4>1. CASE UNCHANGED down
          BY <1>4, <4>1
        <4>2. CASE Refuse(s) \/ ServerCut(s)
          BY <1>1, <1>4, <4>2 DEF Refuse, ServerCut
        <4>3. CASE ClientCut(s)
          BY <1>6, <4>3 DEF ClientCut
        <4>4. CASE Attach(s)
          BY <1>1, <1>5, <4>4, AnswerNames DEF Attach
        <4>5. CASE Receive(s)
          <5>1. CASE ReceiveInit(s)
            <6>1. Reply("handtraps", None) \in DownMsgs /\ Harmless(Reply("handtraps", None))
              BY <1>1, MessageTypes, AnswerNames, Replies DEF Harmless
            <6>2. CASE cached = None
              <7>1. down' = Sent(down, s, Reply("handtraps", None))
                BY <5>1, <6>2 DEF ReceiveInit
              <7> QED BY <6>1, <7>1, AnswerAdds DEF Kept
            <6>3. CASE cached # None
              <7>1. down' = Sent(Sent(down, s, Reply("handtraps", None)), s, Reply("result", cached))
                BY <5>1, <6>3 DEF ReceiveInit
              <7>2. Reply("result", cached) \in DownMsgs
                BY <1>1, MessageTypes, AnswerNames
              <7>3. Harmless(Reply("result", cached))
                BY <1>1, <1>2, <6>3, Replies DEF Harmless, Answered
              <7> QED BY <6>1, <7>1, <7>2, <7>3, AnswersAdd DEF Kept
            <6> QED BY <6>2, <6>3
          <5>2. CASE ReceiveCancel
            BY <4>1, <5>2 DEF ReceiveCancel
          <5>3. CASE Head(up[s]).type \in {"start", "verify"} /\ ReceiveStart(s, Head(up[s]).id)
            <6>1. Head(up[s]).id \in Starts \cup {None}
              <7>1. up[s] \in Seq(UpMsgs) /\ up[s] # <<>>
                BY <4>5 DEF SolverTypeOK, UpMsgs, Receive
              <7>2. Head(up[s]) \in UpMsgs
                BY <7>1, QueueSteps
              <7> QED BY <7>2 DEF UpMsgs
            <6> QED BY <1>5, <4>1, <5>3, <6>1, AnswerNames DEF ReceiveStart
          <5> QED BY <4>5, <5>1, <5>2, <5>3 DEF Receive
        <4> QED BY <1>10, <2>3, <4>1, <4>2, <4>3, <4>4, <4>5
             DEF SocketStep, Opened, ServerClose, HandshakeFails, NeverArrives
      <3> QED BY <1>3, <2>1, <3>1, <3>2 DEF Shown, Cached
    <2> QED BY <2>2, <2>3
  <1>11. ASSUME NEW id \in Starts, TaskStep(id) PROVE Answered'
    <2>1. page' = page
      BY <1>11 DEF TaskStep, FetchFails, FetchDone, SolveEnds, VerifyEnds, Ends, clientVars
    <2>2. Cached
      BY <1>1, <1>11 DEF Cached, TaskStep, FetchFails, FetchDone, SolveEnds, VerifyEnds, Ends
    <2>3. Kept
      <3>1. id # None /\ id \in Starts \cup {None} /\ origin[id] \in Sockets \cup {None}
        BY <1>1 DEF None, Starts
      <3>2. CASE FetchFails(id)
        BY <1>1, <1>5, <3>1, <3>2, AnswerNames DEF FetchFails
      <3>3. CASE FetchDone(id)
        BY <1>4, <3>3 DEF FetchDone
      <3>4. CASE SolveEnds(id)
        <4>1. CASE down' = Sent(down, registered, Reply("result", id)) /\ Ends(id, "done")
          <5>1. task'[id] = "done"
            BY <1>1, <4>1 DEF Ends
          <5> QED BY <1>1, <1>5, <3>1, <4>1, <5>1, AnswerNames
        <4>2. \A type \in {"error", "partial", "cancelled"} :
                down' = Sent(down, registered, Reply(type, id)) => Kept
          BY <1>1, <1>5, <3>1, AnswerNames
        <4> QED BY <3>4, <4>1, <4>2 DEF SolveEnds
      <3>5. CASE VerifyEnds(id)
        <4>1. \A type \in {"verified", "error"} : down' = Sent(down, registered, Reply(type, id)) => Kept
          BY <1>1, <1>5, <3>1, AnswerNames
        <4> QED BY <3>5, <4>1 DEF VerifyEnds
      <3> QED BY <1>11, <3>2, <3>3, <3>4, <3>5 DEF TaskStep
    <2> QED BY <1>3, <2>1, <2>2, <2>3 DEF Shown
  <1>12. CASE CacheExpires \/ UNCHANGED vars
    <2>1. page' = page /\ down' = down /\ cached' \in {cached, None}
      BY <1>12 DEF CacheExpires, vars, clientVars, serverVars
    <2> QED BY <1>3, <1>4, <2>1 DEF Shown, Cached
  <1> QED BY <1>9, <1>10, <1>11, <1>12, NextParts

-----------------------------------------------------------------------------
(* The theorems.                                                           *)

LEMMA SolverInitInv == SolverInit => SolverInv
  <1> SUFFICES ASSUME SolverInit PROVE SolverInv
    OBVIOUS
  <1>1. SolverTypeOK
    BY InitTypes
  <1>2. OpenIsRegistered
    BY DEF SolverInit, OpenIsRegistered, Sockets, None
  <1>3. \A s \in Sockets : DOMAIN up[s] = {} /\ DOMAIN down[s] = {}
    BY DEF SolverInit
  <1>4. Given /\ AskedOnce
    BY <1>3 DEF SolverInit, Given, AskedOnce
  <1>5. Answered
    BY <1>3 DEF SolverInit, Answered
  <1>6. OneSolve
    BY DEF SolverInit, OneSolve, Busy, Solves, Starts, None
  <1> QED BY <1>1, <1>2, <1>4, <1>5, <1>6 DEF SolverInv

LEMMA SolverStepInv == SolverInv /\ [SolverNext]_vars => SolverInv'
  BY TypeStep, RegistrationStep, AskStep, AnswerStep, MutexStep DEF SolverInv

LEMMA SolverInvariance == SolverSpec => []SolverInv
  BY SolverInitInv, SolverStepInv, PTL DEF SolverSpec

\* OneSolve in the words of the property: at most one START of the user holds the mutex, and it is
\* held exactly then; the pool has his solve or none, and no result is kept beside it.
THEOREM TheMutexHolds == SolverSpec => []OneSolveAtATime
  <1>1. SolverInv => OneSolveAtATime
    <2> SUFFICES ASSUME SolverTypeOK, OneSolve PROVE OneSolveAtATime
      BY DEF SolverInv
    <2> DEFINE busy == {i \in Solves : task[i] \in Busy}
               pool == {i \in Solves : task[i] \in {"running", "cancelled"}}
    <2>1. Cardinality(busy) <= 1
      <3>1. CASE busy = {}
        BY <3>1, FS_EmptySet
      <3>2. CASE busy # {}
        <4>1. PICK i \in busy : TRUE
          BY <3>2
        <4>2. busy = {i}
          BY <4>1 DEF OneSolve
        <4> QED BY <4>2, FS_Singleton
      <3> QED BY <3>1, <3>2
    <2>2. inFlight = (busy # {})
      BY DEF OneSolve, SolverTypeOK
    <2>3. pool = {active} \ {None}
      BY DEF OneSolve, SolverTypeOK, Solves, Starts, None
    <2>4. pool # {} => cached = None
      BY <2>3 DEF OneSolve
    <2> QED BY <2>1, <2>2, <2>3, <2>4 DEF OneSolveAtATime
  <1> QED BY <1>1, SolverInvariance, PTL

\* What a cancelled solve has found is at most a partial result: nowhere, on its way, kept or
\* shown, does it become a result.
THEOREM CancelledSolvesGiveNoResult == SolverSpec => []CancelIsFinal
  <1>1. SolverInv => CancelIsFinal
    <2> SUFFICES ASSUME SolverTypeOK, Answered, NEW i \in Starts, task[i] \in {"cancelled", "aborted"}
                 PROVE /\ cached # i /\ page.shown # i
                       /\ \A s \in Sockets : \A k \in DOMAIN down[s] : down[s][k] # Reply("result", i)
      BY DEF SolverInv, CancelIsFinal
    <2>1. i # None /\ task[i] # "done"
      BY DEF Starts, None
    <2> QED BY <2>1, Replies DEF Answered
  <1> QED BY <1>1, SolverInvariance, PTL


=============================================================================

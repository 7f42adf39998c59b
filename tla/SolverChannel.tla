--------------------------- MODULE SolverChannel ---------------------------
(***************************************************************************)
(* The solver of a deck, from the page to the worker pool, for one user:   *)
(* the socket of SolverService and its timers (solver.service.ts), the     *)
(* page that drives it (solver-page.component.ts), the socket handlers of  *)
(* the duel server (solver-handlers.ts, pvp-connection-handler.ts) and the *)
(* life of a solve in the pool (solver-orchestrator.ts).                   *)
(*                                                                         *)
(* A message on a socket is delivered in order or lost with its socket.    *)
(* The two ends of a socket learn of its end at different times, and the   *)
(* solve of a START outlives the socket that carried it.                   *)
(*                                                                         *)
(* Abstracted: what is searched and found, a solve being a number; the     *)
(* clock of the rate limit, which refuses or does not; progress messages,  *)
(* which change no state of the protocol; the other users, who appear as a *)
(* full server and as the eviction of a cached result; the result taken    *)
(* back from the history; PUT /api/update-data, which cancels the solves.  *)
(***************************************************************************)
EXTENDS Naturals, Sequences, FiniteSets

CONSTANTS
    MaxSockets,  \* sockets of the user that exist at a time
    MaxStarts,   \* SOLVER_START messages sent, verifications included
    MaxFaults,   \* sockets cut, handshakes that fail or are refused, answers ten seconds late,
                 \* connections without a token
    MaxVisits,   \* times the page is opened
    MaxCancels,  \* times the user cancels
    Overlap      \* whether connect may find a socket that is still connecting

ASSUME SolverAssumption ==
    /\ MaxSockets \in Nat \ {0} /\ MaxStarts \in Nat \ {0}
    /\ MaxFaults \in Nat /\ MaxVisits \in Nat /\ MaxCancels \in Nat /\ Overlap \in BOOLEAN

Sockets == 1..MaxSockets
Starts == 1..MaxStarts
None == 0

PageStates == {"loading", "idle", "configuring", "running", "complete", "error"}
Timers == {"reconnect", "init", "grace"}
UpTypes == {"init", "start", "verify", "cancel"}
DownTypes == {"handtraps", "result", "verified", "partial", "cancelled", "error", "close", "outdated"}

VARIABLES
    page,       \* what the user sees, and what the page knows
    ws,         \* SolverService.ws
    client,     \* the browser's end of each socket; a socket without handlers is "closed"
    timers,     \* the timers of SolverService that are set
    intentional, \* intentionalClose
    up, down,   \* messages on their way, for each socket
    server,     \* the server's end of each socket
    registered, \* solverConnections.get(userId), solverJwts having the same keys
    task,       \* where the coroutine of each START is
    checks,     \* the STARTs that verify a result
    origin,     \* the socket each START came from
    inFlight,   \* solverInFlight.has(userId)
    active,     \* activeSolves.get(userId)
    cached,     \* solverResultCache.get(userId)
    started, faults, visits, cancels

clientVars == <<page, ws, client, timers, intentional>>
serverVars == <<registered, task, origin, inFlight, active, cached>>
bounds == <<started, checks, faults, visits, cancels>>
vars == <<clientVars, up, down, server, serverVars, bounds>>

Solves == Starts \ checks

\* Where the coroutine of a START can be while it holds the mutex.
Busy == {"fetch", "running", "cancelled"}

SolverInit ==
    /\ page = [state |-> "idle", deck |-> "none", sameDeck |-> FALSE, shown |-> None,
               verifying |-> FALSE, collapsed |-> FALSE, handtraps |-> FALSE]
    /\ ws = None /\ timers = {} /\ intentional = FALSE
    /\ client = [s \in Sockets |-> "closed"] /\ server = [s \in Sockets |-> "closed"]
    /\ up = [s \in Sockets |-> <<>>] /\ down = [s \in Sockets |-> <<>>]
    /\ registered = None /\ inFlight = FALSE /\ active = None /\ cached = None
    /\ task = [i \in Starts |-> "none"] /\ origin = [i \in Starts |-> None] /\ checks = {}
    /\ started = 0 /\ faults = 0 /\ visits = 0 /\ cancels = 0

-----------------------------------------------------------------------------
(* The page and SolverService.                                             *)

\* The page in another state; an effect folds the configuration over a result and unfolds it.
In(p, state) ==
    [p EXCEPT !.state = state, !.collapsed = state = "complete" \/ (state # "configuring" /\ @)]

Ready == ws # None /\ client[ws] = "open"

\* sendMessage, when the socket is open; what the server no longer reads is lost.
Sends(m) == up' = IF server[ws] \in {"open", "closing"} THEN [up EXCEPT ![ws] = Append(@, m)] ELSE up

\* A socket that both ends have forgotten.
Free(s) ==
    /\ client[s] = "closed" /\ server[s] = "closed"
    /\ \A i \in Starts : task[i] = "fetch" => origin[i] # s

\* connect, which counts only an open socket as one: a socket that is still connecting is
\* left behind with its handlers.  c and t are the sockets and the timers left before it.
Connect(c, t) ==
    \E s \in Sockets :
        /\ Free(s) /\ \A r \in Sockets : Free(r) => s <= r
        /\ Overlap \/ \A r \in Sockets : c[r] # "connecting"
        /\ client' = [c EXCEPT ![s] = "connecting"] /\ server' = [server EXCEPT ![s] = "none"]
        /\ ws' = s /\ intentional' = FALSE /\ timers' = t

\* connect without an ACCESS_TOKEN: an error, and no socket.
NoToken == page' = In(page, "error") /\ UNCHANGED server

\* disconnect: the handlers are taken off and the socket is closed.
Disconnected == IF ws = None THEN client ELSE [client EXCEPT ![ws] = "closed"]
Disconnect == intentional' = TRUE /\ timers' = {} /\ client' = Disconnected /\ ws' = None

\* Bound: what may go wrong in one behaviour
Fault == faults < MaxFaults /\ faults' = faults + 1

\* Wrong variant: nobody connects again.
OnCloseForGood(s) ==
    /\ client' = [client EXCEPT ![s] = "closed"] /\ ws' = None
    /\ UNCHANGED <<page, timers, intentional>>

\* onclose of any socket whose handlers are still on, the current one or not
OnClose(s) ==
    /\ client' = [client EXCEPT ![s] = "closed"] /\ ws' = None
    /\ timers' = IF intentional THEN timers ELSE timers \cup {"reconnect"}
    /\ UNCHANGED <<page, intentional>>

\* onclose with 4426: the server speaks a newer protocol than the page, which gives up.
OnOutdated(s) ==
    /\ client' = [client EXCEPT ![s] = "closed"] /\ ws' = None
    /\ intentional' = TRUE /\ page' = In(page, "error")
    /\ UNCHANGED timers

\* ngOnInit: connect, with or without a token, then the deck of the route is loaded.
OpenPage(same) ==
    /\ visits < MaxVisits /\ visits' = visits + 1
    /\ page' = [page EXCEPT !.state = "loading", !.deck = "loading", !.collapsed = FALSE,
                            !.sameDeck = same /\ started > 0]
    /\ \/ Ready /\ UNCHANGED <<ws, client, timers, intentional, server, faults>>
       \/ ~Ready /\ Connect(client, timers) /\ UNCHANGED faults
       \/ ~Ready /\ Fault /\ UNCHANGED <<ws, client, timers, intentional, server>>
    /\ UNCHANGED <<up, down, serverVars, started, checks, cancels>>

\* The deck arrives, or does not.
DeckLoaded ==
    /\ page.deck = "loading"
    /\ \/ page' = [page EXCEPT !.deck = "ready", !.state = IF @ = "loading" THEN "idle" ELSE @]
       \/ page' = [page EXCEPT !.deck = "none", !.state = "error"]
    /\ UNCHANGED <<ws, client, timers, intentional, up, down, server, serverVars, bounds>>

\* uncollapse, in any state in which the folded bar is shown
Uncollapse ==
    /\ page.collapsed /\ page' = In(page, "configuring")
    /\ UNCHANGED <<ws, client, timers, intentional, up, down, server, serverVars, bounds>>

\* onSolve and solve
Solve ==
    /\ page.deck = "ready" /\ page.state # "running" /\ started < MaxStarts
    /\ LET asked == [In(page, "running") EXCEPT !.shown = None, !.sameDeck = TRUE]
       IN \/ /\ Ready /\ Sends([type |-> "start", id |-> started + 1])
             /\ started' = started + 1 /\ page' = asked
          \/ /\ ~Ready /\ page' = In(asked, "error")
             /\ UNCHANGED <<up, started>>
    /\ UNCHANGED <<ws, client, timers, intentional, down, server, serverVars,
                   checks, faults, visits, cancels>>

\* onVerify and verify, for the result on the screen
Verify ==
    /\ page.state = "complete" /\ page.shown # None /\ ~page.verifying /\ started < MaxStarts
    /\ \/ /\ Ready /\ Sends([type |-> "verify", id |-> started + 1])
          /\ started' = started + 1 /\ checks' = checks \cup {started + 1}
          /\ page' = [In(page, "running") EXCEPT !.verifying = TRUE]
       \/ /\ ~Ready /\ page' = In(page, "error")
          /\ UNCHANGED <<up, started, checks>>
    /\ UNCHANGED <<ws, client, timers, intentional, down, server, serverVars, faults, visits, cancels>>

\* Wrong variant: the page goes to the state that the design listed for a cancelled solve.
CancelAtOnce ==
    /\ page.state = "running" /\ Ready /\ cancels < MaxCancels /\ cancels' = cancels + 1
    /\ Sends([type |-> "cancel", id |-> None]) /\ page' = [page EXCEPT !.state = "cancelled"]
    /\ UNCHANGED <<ws, client, timers, intentional, down, server, serverVars, started, checks,
                   faults, visits>>

\* onCancel, which the progress panel and the Escape key offer
Cancel ==
    /\ page.state = "running" /\ Ready /\ cancels < MaxCancels /\ cancels' = cancels + 1
    /\ Sends([type |-> "cancel", id |-> None])
    /\ UNCHANGED <<clientVars, down, server, serverVars, started, checks, faults, visits>>

\* onopen, which speaks on the current socket whichever one has opened; its timer does nothing
\* once the handtraps are there
Opened(s) ==
    /\ client[s] = "connecting" /\ server[s] \in {"open", "closing", "refused"}
    /\ client' = [client EXCEPT ![s] = "open"]
    /\ timers' = IF page.handtraps THEN timers ELSE timers \cup {"init"}
    /\ IF ws # None /\ client'[ws] = "open" THEN Sends([type |-> "init", id |-> None]) ELSE up' = up
    /\ UNCHANGED <<page, ws, intentional, down, server, serverVars, bounds>>

\* onmessage and handleMessage
Handle(m) ==
    /\ CASE m.type = "handtraps" ->
              /\ page' = [page EXCEPT !.handtraps = TRUE]
              /\ timers' = (timers \ {"init"}) \cup (IF page.state = "running" THEN {"grace"} ELSE {})
         [] m.type = "result" ->
              /\ page' = IF \/ page.state = "running"
                            \/ page.state \in {"idle", "configuring"} /\ page.sameDeck
                           THEN [In(page, "complete") EXCEPT !.shown = m.id]
                           ELSE page
              /\ timers' = timers \ {"grace"}
         [] m.type = "verified" ->
              /\ page' = [In(page, "complete") EXCEPT !.verifying = FALSE]
              /\ timers' = timers \ {"grace"}
         [] m.type = "partial" ->
              /\ page' = [In(page, "complete") EXCEPT !.verifying = FALSE, !.shown = None]
              /\ timers' = timers
         [] m.type \in {"cancelled", "error"} ->
              /\ page' = [In(page, "configuring") EXCEPT !.verifying = FALSE]
              /\ timers' = timers
    /\ UNCHANGED <<ws, client, intentional>>

\* The next message of a socket, or its end.
Deliver(s) ==
    /\ client[s] = "open" /\ down[s] # <<>>
    /\ down' = [down EXCEPT ![s] = Tail(@)]
    /\ CASE Head(down[s]).type = "close" -> OnClose(s)
         [] Head(down[s]).type = "outdated" -> OnOutdated(s)
         [] OTHER -> Handle(Head(down[s]))
    /\ UNCHANGED <<up, server, serverVars, bounds>>

\* attemptReconnect: two seconds, in which what is under way on the open sockets arrives
ReconnectFires ==
    /\ "reconnect" \in timers
    /\ \A s \in Sockets : client[s] = "open" => up[s] = <<>> /\ down[s] = <<>>
    /\ \/ /\ (Ready \/ intentional) /\ timers' = timers \ {"reconnect"}
          /\ UNCHANGED <<page, ws, client, intentional, server, faults>>
       \/ /\ ~Ready /\ ~intentional /\ Connect(client, timers \ {"reconnect"})
          /\ UNCHANGED <<page, faults>>
       \/ /\ ~Ready /\ ~intentional /\ NoToken /\ timers' = timers \ {"reconnect"} /\ Fault
          /\ UNCHANGED <<ws, client, intentional>>
    /\ UNCHANGED <<up, down, serverVars, started, checks, visits, cancels>>

\* The page gives up a result that did not follow the handtraps.
GraceFires ==
    /\ "grace" \in timers /\ timers' = timers \ {"grace"}
    /\ page' = IF page.state = "running" THEN In(page, "configuring") ELSE page
    /\ UNCHANGED <<ws, client, intentional, up, down, server, serverVars, bounds>>

\* What both disconnect and the loss of the client's end leave of the sockets.
Silenced(s) == down' = [down EXCEPT ![s] = <<>>]

\* startInitTimeout: ten seconds without the handtraps; onopen has reset the retry count.
InitTimeout ==
    /\ "init" \in timers /\ Fault
    /\ \/ Connect(Disconnected, {}) /\ UNCHANGED page
       \/ Disconnect /\ NoToken
    /\ IF ws = None THEN UNCHANGED down ELSE Silenced(ws)
    /\ UNCHANGED <<up, serverVars, started, checks, visits, cancels>>

\* startIdleTimer, from connect to disconnect: five minutes without the user
IdleDisconnect ==
    /\ visits > 0 /\ ~intentional /\ page.state \in {"idle", "configuring"}
    /\ Disconnect
    /\ IF ws = None THEN UNCHANGED down ELSE Silenced(ws)
    /\ UNCHANGED <<page, up, server, serverVars, bounds>>

-----------------------------------------------------------------------------
(* The duel server.                                                        *)

\* sendSolverMessage: nothing is sent on a socket that is gone or that the server is closing.
Sent(d, s, m) ==
    IF s # None /\ server[s] = "open" /\ client[s] # "closed" THEN [d EXCEPT ![s] = Append(@, m)] ELSE d

Reply(type, id) == [type |-> type, id |-> id]

\* attachSolverConnection and its caller: the user's older socket is closed.
Attach(s) ==
    /\ server[s] = "none" /\ registered' = s
    /\ server' = [r \in Sockets |-> IF r = s THEN "open" ELSE IF r = registered THEN "closing" ELSE server[r]]
    /\ down' = Sent(down, registered, Reply("close", None))
    /\ UNCHANGED <<clientVars, up, task, origin, inFlight, active, cached, bounds>>

\* The page is outdated, or the server is full: the limit comes before the look at the user's
\* own socket.
Refuse(s) ==
    /\ server[s] = "none" /\ Fault
    /\ server' = [server EXCEPT ![s] = "refused"]
    /\ \E type \in {"outdated", "close"} :
         down' = IF client[s] = "closed" THEN down ELSE [down EXCEPT ![s] = <<Reply(type, None)>>]
    /\ UNCHANGED <<clientVars, up, serverVars, started, checks, visits, cancels>>

\* Wrong variant: whichever socket closes.
DetachedAny(s) == None

\* detachSolverConnection: only the registered socket takes its registration with it.
Detached(s) == IF registered = s THEN None ELSE registered

\* The server sees the end of a socket that the client has closed, once it has read it.
ServerClose(s) ==
    /\ client[s] = "closed" /\ up[s] = <<>> /\ server[s] \in {"open", "closing", "refused"}
    /\ server' = [server EXCEPT ![s] = "closed"] /\ registered' = Detached(s)
    /\ UNCHANGED <<clientVars, up, down, task, origin, inFlight, active, cached, bounds>>

\* handleSolverInit: the handtraps, then the result the server still has
ReceiveInit(s) ==
    LET traps == Sent(down, s, Reply("handtraps", None)) IN
    /\ down' = IF cached = None THEN traps ELSE Sent(traps, s, Reply("result", cached))
    /\ UNCHANGED serverVars

\* Wrong variant: the mutex is not looked at.
ReceiveStartAnyway(s, id) ==
    /\ registered # None
    /\ task' = [task EXCEPT ![id] = "fetch"] /\ origin' = [origin EXCEPT ![id] = s]
    /\ inFlight' = (inFlight \/ id \notin checks)
    /\ UNCHANGED <<down, registered, active, cached>>

\* handleSolverStart up to its first await; a verification takes no mutex.  The rate limit and
\* the validation refuse as they like.
ReceiveStart(s, id) ==
    \/ /\ down' = Sent(down, s, Reply("error", id))
       /\ UNCHANGED serverVars
    \/ /\ id \in checks \/ ~inFlight
       /\ registered # None
       /\ task' = [task EXCEPT ![id] = "fetch"] /\ origin' = [origin EXCEPT ![id] = s]
       /\ inFlight' = (inFlight \/ id \notin checks)
       /\ UNCHANGED <<down, registered, active, cached>>

\* handleSolverCancel and SolverOrchestrator.cancel: only a solve that is in the pool
ReceiveCancel ==
    /\ task' = IF active # None /\ task[active] = "running"
                 THEN [task EXCEPT ![active] = "cancelled"] ELSE task
    /\ UNCHANGED <<down, registered, origin, inFlight, active, cached>>

\* handleSolverMessage; a socket that is being closed still reads what had been sent.
Receive(s) ==
    /\ server[s] \in {"open", "closing"} /\ up[s] # <<>> /\ up' = [up EXCEPT ![s] = Tail(@)]
    /\ LET m == Head(up[s]) IN
       \/ m.type = "init" /\ ReceiveInit(s)
       \/ m.type \in {"start", "verify"} /\ ReceiveStart(s, m.id)
       \/ m.type = "cancel" /\ ReceiveCancel
    /\ UNCHANGED <<clientVars, server, bounds>>

\* The end of a START: its coroutine leaves, and the finally clause gives the mutex back.
Ends(id, how) ==
    /\ task' = [task EXCEPT ![id] = how]
    /\ inFlight' = (inFlight /\ id \in checks)
    /\ UNCHANGED <<clientVars, up, server, registered, origin, bounds>>

\* No deck, or a hand that is not in it; the answer goes to the socket of the START.
FetchFails(id) ==
    /\ task[id] = "fetch" /\ Ends(id, "done")
    /\ down' = Sent(down, origin[id], Reply("error", id))
    /\ UNCHANGED <<active, cached>>

\* The deck is there: the old result is evicted and the solve goes to the pool, in place of one
\* that the orchestrator might still have of this user.
FetchDone(id) ==
    /\ task[id] = "fetch"
    /\ task' = [i \in Starts |-> IF i = id THEN "running"
                                 ELSE IF id \notin checks /\ i = active /\ task[i] = "running"
                                   THEN "cancelled" ELSE task[i]]
    /\ \/ id \in checks /\ UNCHANGED <<active, cached>>
       \/ id \notin checks /\ active' = id /\ cached' = None
    /\ UNCHANGED <<clientVars, up, down, server, registered, origin, inFlight, bounds>>

\* Wrong variant: the partial result of a cancelled solve is kept too.
SolveEndsCached(id) ==
    /\ id \notin checks /\ active' = None
    /\ task[id] \in {"running", "cancelled"}
    /\ Ends(id, IF task[id] = "running" THEN "done" ELSE "aborted")
    /\ cached' = id
    /\ down' = Sent(down, registered, Reply(IF task[id] = "running" THEN "result" ELSE "partial", id))

\* The end of solve in the orchestrator, at the latest by the hard kill, and of the handler: the
\* answer goes to the socket that is registered now, and only a full result is kept.
SolveEnds(id) ==
    /\ id \notin checks /\ active' = None
    /\ \/ /\ task[id] = "running" /\ Ends(id, "done")
          /\ \/ cached' = id /\ down' = Sent(down, registered, Reply("result", id))
             \/ cached' = cached /\ down' = Sent(down, registered, Reply("error", id))
       \/ /\ task[id] = "cancelled" /\ Ends(id, "aborted") /\ cached' = cached
          /\ \E type \in {"partial", "cancelled"} : down' = Sent(down, registered, Reply(type, id))

\* The end of a verification
VerifyEnds(id) ==
    /\ id \in checks /\ task[id] = "running" /\ Ends(id, "done")
    /\ \E type \in {"verified", "error"} : down' = Sent(down, registered, Reply(type, id))
    /\ UNCHANGED <<active, cached>>

\* The five minutes of a cached result pass, or another user's result takes its place.
CacheExpires ==
    /\ cached # None /\ cached' = None
    /\ UNCHANGED <<clientVars, up, down, server, registered, task, origin, inFlight, active, bounds>>

-----------------------------------------------------------------------------
(* The network.                                                            *)

\* The handshake does not get through.
HandshakeFails(s) ==
    /\ client[s] = "connecting" /\ server[s] = "none" /\ Fault
    /\ OnClose(s) /\ server' = [server EXCEPT ![s] = "closed"]
    /\ UNCHANGED <<up, down, serverVars, started, checks, visits, cancels>>

\* A socket is cut with what it carries, and the client knows first.
ClientCut(s) ==
    /\ client[s] = "open" /\ Fault
    /\ OnClose(s) /\ up' = [up EXCEPT ![s] = <<>>] /\ Silenced(s)
    /\ UNCHANGED <<server, serverVars, started, checks, visits, cancels>>

\* The same, and the server knows first.
ServerCut(s) ==
    /\ client[s] = "open" /\ server[s] \in {"open", "closing"}
    /\ Fault
    /\ server' = [server EXCEPT ![s] = "closed"] /\ registered' = Detached(s)
    /\ up' = [up EXCEPT ![s] = <<>>] /\ down' = [down EXCEPT ![s] = <<Reply("close", None)>>]
    /\ UNCHANGED <<clientVars, task, origin, inFlight, active, cached, started, checks, visits, cancels>>

\* The browser's end was closed before the handshake, which does not reach the server.
NeverArrives(s) ==
    /\ client[s] = "closed" /\ server[s] = "none"
    /\ server' = [server EXCEPT ![s] = "closed"]
    /\ UNCHANGED <<clientVars, up, down, serverVars, bounds>>

-----------------------------------------------------------------------------

SolverNext ==
    \/ \E same \in BOOLEAN : OpenPage(same)
    \/ DeckLoaded \/ Uncollapse \/ Solve \/ Verify \/ Cancel
    \/ ReconnectFires \/ GraceFires \/ InitTimeout \/ IdleDisconnect \/ CacheExpires
    \/ \E s \in Sockets :
         \/ Opened(s) \/ Deliver(s)
         \/ Attach(s) \/ Refuse(s) \/ ServerClose(s) \/ Receive(s)
         \/ HandshakeFails(s) \/ ClientCut(s) \/ ServerCut(s) \/ NeverArrives(s)
    \/ \E id \in Starts : FetchFails(id) \/ FetchDone(id) \/ SolveEnds(id) \/ VerifyEnds(id)

\* Messages and handshakes arrive, the deck request is answered, a solve ends (the hard kill sees
\* to it), and timers fire.  That a verification ends is assumed: nothing kills it.  The grace of
\* a second and a half is shorter than the two seconds between two connections, which alone set
\* it again: strong fairness.
SolverFairness ==
    /\ WF_vars(ReconnectFires) /\ SF_vars(GraceFires)
    /\ \A s \in Sockets :
         WF_vars(Opened(s)) /\ WF_vars(Deliver(s)) /\ WF_vars(Attach(s)) /\ WF_vars(ServerClose(s))
           /\ WF_vars(Receive(s))
    /\ \A id \in Starts :
         WF_vars(FetchFails(id) \/ FetchDone(id)) /\ WF_vars(SolveEnds(id)) /\ WF_vars(VerifyEnds(id))

SolverSpec == SolverInit /\ [][SolverNext]_vars /\ SolverFairness

-----------------------------------------------------------------------------
(* Properties                                                              *)

\* Every variable keeps to its type.
SolverTypeOK ==
    /\ page \in [state : PageStates, deck : {"none", "loading", "ready"}, sameDeck : BOOLEAN,
                 shown : Starts \cup {None}, verifying : BOOLEAN, collapsed : BOOLEAN,
                 handtraps : BOOLEAN]
    /\ ws \in Sockets \cup {None} /\ intentional \in BOOLEAN /\ timers \in SUBSET Timers
    /\ client \in [Sockets -> {"connecting", "open", "closed"}]
    /\ server \in [Sockets -> {"none", "open", "closing", "refused", "closed"}]
    /\ up \in [Sockets -> Seq([type : UpTypes, id : Starts \cup {None}])]
    /\ down \in [Sockets -> Seq([type : DownTypes, id : Starts \cup {None}])]
    /\ registered \in Sockets \cup {None} /\ checks \in SUBSET Starts
    /\ task \in [Starts -> {"none", "fetch", "running", "cancelled", "done", "aborted"}]
    /\ origin \in [Starts -> Sockets \cup {None}]
    /\ inFlight \in BOOLEAN /\ active \in Starts \cup {None} /\ cached \in Starts \cup {None}
    /\ started \in 0..MaxStarts /\ faults \in 0..MaxFaults
    /\ visits \in 0..MaxVisits /\ cancels \in 0..MaxCancels

\* The mutex of a user is held exactly as long as one START of his is on its way, across its
\* awaits and whatever way it ends; so the orchestrator never meets a solve of his that it would
\* have to abort, and the server keeps no result while one is in the pool.
OneSolveAtATime ==
    LET busy == {i \in Solves : task[i] \in Busy}
        pool == {i \in Solves : task[i] \in {"running", "cancelled"}} IN
    /\ Cardinality(busy) <= 1 /\ inFlight = (busy # {})
    /\ pool = {active} \ {None}
    /\ pool # {} => cached = None

\* The socket that the server reads and writes is the registered one, and there is one: the close
\* of a replaced socket may come as late as it likes without taking the newer one's registration.
OpenIsRegistered == \A s \in Sockets : server[s] = "open" <=> registered = s

\* A solve that a cancel reached in the pool never becomes a result: none is sent, kept or shown.
CancelIsFinal ==
    \A i \in Starts : task[i] \in {"cancelled", "aborted"} =>
        /\ cached # i /\ page.shown # i
        /\ \A s \in Sockets : \A k \in DOMAIN down[s] : down[s][k] # Reply("result", i)

\* The page does not wait for ever: whatever becomes of the START, of its answer and of the
\* sockets that carry them, the spinner goes.
SpinnerEnds == page.state = "running" ~> page.state # "running"

-----------------------------------------------------------------------------
(* Statements of the repository that the code does not keep; TLC refutes   *)
(* each of them when it is added to Solver.cfg.                            *)

\* "the cache entry is evicted after 5 minutes or on next SOLVER_START" (epics-solver.md:551): the
\* eviction waits for the deck, and an INIT before that brings the old result.
StartEvicts == \A i \in Solves : task[i] = "fetch" => cached = None

\* What a page that waited for a solve shows is the solve it waited for (solver.service.ts:470).
ShownIsTheLastAsked == page.state = "complete" /\ page.shown # None => \A i \in Solves : i <= started => i <= page.shown

\* "the current solve is aborted" by a cancel (epics-solver.md:528): not while its deck is fetched.
CancelReachesTheSolve ==
    [][\A s \in Sockets : up[s] # <<>> /\ Head(up[s]).type = "cancel" /\ up'[s] = Tail(up[s]) =>
         \A i \in Solves : task[i] # "fetch"]_vars

\* isVerifying goes with the verification (solver.service.ts:453): not when its answer is lost.
VerifyingEnds == page.verifying ~> ~page.verifying

\* A page whose sockets nobody cuts any more keeps one: not when a page opened twice has left a
\* socket connecting, whose end then makes it reconnect, replace its own socket and so on.
ConnectionSettles == <>[](ws = None \/ client[ws] = "open")

\* "Stop retrying so we don't loop forever" (solver.service.ts:220): a page that is told it is
\* outdated connects again only when it is opened again.  But onopen has set the timer of the
\* handtraps, which that close leaves, and which connects again ten seconds later.
OutdatedStops ==
    [][ws = None /\ intentional /\ page.state = "error" => ws' = None \/ visits' # visits]_vars

=============================================================================

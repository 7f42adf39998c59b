--------------------------- MODULE PromptChannel ---------------------------
(***************************************************************************)
(* The prompts of a running PvP duel: two clients, the main thread of the  *)
(* duel server and the engine thread, joined by message queues.            *)
(*   duel-server/src/client-message-router.ts   answers and cancellations  *)
(*   duel-server/src/worker-message-router.ts   prompts, retries, boards   *)
(*   duel-server/src/cancel-rollback-main.ts    the rollback, main thread  *)
(*   duel-server/src/duel-worker.ts             the rollback, worker       *)
(*   duel-server/src/timer-management.ts        the clock of the prompts   *)
(*                                                                         *)
(* Both sockets stay open and the duel is not surrendered: what closes and *)
(* ends do to a session is in DuelSession.  A prompt is a number; its type *)
(* is "menu" (SELECT_IDLECMD, SELECT_BATTLECMD: the rollback boundaries)   *)
(* or "step" (any other).  Time left in the pools is abstracted: a running *)
(* clock may expire at any moment.                                         *)
(***************************************************************************)
EXTENDS Integers, Sequences, FiniteSets

CONSTANTS
    MaxPrompts,     \* bound: prompts the engine emits
    MaxTurn,        \* bound: turns played
    MaxStrikes,     \* maxInvalidResponses
    MaxRefusals,    \* bound: refusals among the responses captured
    LinkSize        \* bound: messages of one client under way

ASSUME PromptsAssumption == MaxPrompts \in Nat \ {0}
ASSUME TurnAssumption == MaxTurn \in Nat \ {0}
ASSUME StrikesAssumption == MaxStrikes \in Nat \ {0}
ASSUME RefusalsAssumption == MaxRefusals \in Nat
ASSUME LinkAssumption == LinkSize \in Nat \ {0}

Players == {0, 1}
Other(p) == 1 - p
Prompts == 1..MaxPrompts
NoPrompt == 0

VARIABLES
    info,       \* what each prompt emitted so far asks: its player and its type
    engine,     \* the engine's memory: prompt waited for, turn, turn player, responses applied;
                \* history, for the properties: the prompt that opened the turn
    resolving,  \* liveChainTracker: a chain is resolving
    captured,   \* capturedResponses, the future replay
    snap,       \* lastIdleSnapshot
    toWorker,   \* messages of the main thread to the worker
    toMain,     \* messages of the worker to the main thread
    link,       \* messages of each client to the main thread
    shown,      \* the prompt each client shows
    main,       \* the session's prompt fields
    clock,      \* the session's timers
    crossed     \* history: a client has answered while its cancellation was under way

worker == <<info, engine, resolving, captured, snap>>
client == <<link, shown, crossed>>
promptVars == <<info, engine, resolving, captured, snap, toWorker, toMain, link, shown, main, clock, crossed>>

-----------------------------------------------------------------------------
(* Messages and records.                                                   *)

Asked == [player : Players, type : {"menu", "step"}]
Applied == [prompt : Prompts, ok : BOOLEAN]     \* a response given to the engine
Memory == [at : Prompts, turn : 1..MaxTurn, turnPlayer : Players, path : Seq(Applied),
           first : Prompts]

NoSnap == [player |-> -1]
Snapshots == [player : Players, memory : Memory, captured : Nat]

Response(n) == [type |-> "response", prompt |-> n]
Cancel == [type |-> "cancel"]
AnswerOf(p, n) == [type |-> "response", player |-> p, prompt |-> n]
CancelOf(p) == [type |-> "cancel", player |-> p]
Prompt(n) == [type |-> "prompt", prompt |-> n]
Board(t, p) == [type |-> "board", turn |-> t, turnPlayer |-> p]
Retry(p, late) == [type |-> "retry", player |-> p, late |-> late]
CancelDone(p) == [type |-> "cancelDone", player |-> p]

ToRouter == {Response(n) : n \in Prompts} \cup {Cancel}
ToWorker == {AnswerOf(p, n) : p \in Players, n \in Prompts} \cup {CancelOf(p) : p \in Players}
FromWorker ==
    {Prompt(n) : n \in Prompts} \cup {Board(t, p) : t \in 1..MaxTurn, p \in Players}
    \cup {Retry(p, b) : p \in Players, b \in BOOLEAN} \cup {CancelDone(p) : p \in Players}

PromptTypeOK ==
    /\ info \in Seq(Asked) /\ Len(info) <= MaxPrompts
    /\ engine \in Memory /\ engine.at <= Len(info)
    /\ resolving \in BOOLEAN
    /\ captured \in Seq(Applied)
    /\ snap \in Snapshots \cup {NoSnap}
    /\ toWorker \in Seq(ToWorker) /\ toMain \in Seq(FromWorker)
    /\ link \in [Players -> Seq(ToRouter)] /\ \A p \in Players : Len(link[p]) <= LinkSize
    /\ shown \in [Players -> Prompts \cup {NoPrompt}]
    /\ crossed \in BOOLEAN
    /\ main \in [awaiting : SUBSET Players,                     \* awaitingResponse
                 last     : [Players -> Prompts \cup {NoPrompt}],   \* lastSentPrompt
                 target   : [Players -> Prompts \cup {NoPrompt}],   \* cancelTargetPrompt
                 strikes  : [Players -> 0..MaxStrikes],         \* invalidResponseCount
                 ended    : BOOLEAN]                            \* endedAt
    /\ clock \in [state  : {"stopped", "pending", "running", "off"},    \* timerContext
                  active : Players,                             \* activePlayer
                  turn   : 0..MaxTurn,                          \* turnCount
                  idle   : SUBSET Players]                      \* inactivity timers armed

-----------------------------------------------------------------------------
(* The timers (timer-management.ts).  While pending, pendingPlayer is the  *)
(* active player.                                                          *)

\* scheduleTimerStart: whatever runs is paused, and the clock waits for the animations of p.
Parked(k, p) == [k EXCEPT !.state = "pending", !.active = p]

\* armResponseTimers
Armed(k, p) == [Parked(k, p) EXCEPT !.idle = @ \cup {p}]

\* pauseTurnTimer, which leaves a pending start alone
Paused(k) == IF k.state = "running" THEN [k EXCEPT !.state = "stopped"] ELSE k

\* Wrong variant: every board of the current turn counts as a change of turn.
TurnChangedByEveryBoard(k, p, t) ==
    IF t < k.turn THEN k ELSE [k EXCEPT !.turn = t, !.active = p]

\* handleTurnChange: a running clock goes on, and a pending one waits, for the turn player.
TurnChanged(k, p, t) == IF t <= k.turn THEN k ELSE [k EXCEPT !.turn = t, !.active = p]

\* clearAllDuelTimers
Disarmed(k) == [k EXCEPT !.state = "off", !.idle = {}]

-----------------------------------------------------------------------------
(* The duel starts: the engine has emitted its first prompt, a menu of the *)
(* player who begins, then the board.                                      *)
PromptInit ==
    /\ info = <<[player |-> 0, type |-> "menu"]>>
    /\ engine = [at |-> 1, turn |-> 1, turnPlayer |-> 0, path |-> <<>>, first |-> 1]
    /\ resolving = FALSE /\ captured = <<>> /\ snap = NoSnap
    /\ toWorker = <<>> /\ toMain = <<Prompt(1), Board(1, 0)>>
    /\ link = [p \in Players |-> <<>>] /\ shown = [p \in Players |-> NoPrompt]
    /\ main = [awaiting |-> {}, last |-> [p \in Players |-> NoPrompt],
               target |-> [p \in Players |-> NoPrompt], strikes |-> [p \in Players |-> 0],
               ended |-> FALSE]
    /\ clock = [state |-> "stopped", active |-> 0, turn |-> 0, idle |-> {}]
    /\ crossed = FALSE

-----------------------------------------------------------------------------
(* The clients.                                                            *)

Send(p, m) == Len(link[p]) < LinkSize /\ link' = [link EXCEPT ![p] = Append(@, m)]

Holds(queue, m) == \E i \in DOMAIN queue : queue[i] = m

CancelUnderWay(p) ==
    Holds(link[p], Cancel) \/ Holds(toWorker, CancelOf(p)) \/ Holds(toMain, CancelDone(p))

\* The player answers the prompt on the screen, which closes.
ClientAnswers(p) ==
    /\ ~main.ended /\ shown[p] # NoPrompt
    /\ Send(p, Response(shown[p]))
    /\ shown' = [shown EXCEPT ![p] = NoPrompt]
    /\ crossed' = (crossed \/ CancelUnderWay(p))
    /\ UNCHANGED <<worker, toWorker, toMain, main, clock>>

\* A right-click on a continuation prompt; the dialog stays open until the server reacts.
ClientCancels(p) ==
    /\ ~main.ended /\ shown[p] # NoPrompt /\ info[shown[p]].type = "step"
    /\ ~Holds(link[p], Cancel)
    /\ Send(p, Cancel)
    /\ UNCHANGED <<worker, toWorker, toMain, shown, main, clock, crossed>>

-----------------------------------------------------------------------------
(* The main thread and its clients (client-message-router.ts).             *)

Receive(p) == link' = [link EXCEPT ![p] = Tail(@)]

EndDuel(m) == [m EXCEPT !.ended = TRUE]

\* PLAYER_RESPONSE nobody waits for, or of another type than the prompt sent last
IgnoreAnswer(p) ==
    /\ ~main.ended /\ link[p] # <<>> /\ Head(link[p]).type = "response"
    /\ \/ p \notin main.awaiting
       \/ info[Head(link[p]).prompt].type # info[main.last[p]].type
    /\ Receive(p)
    /\ UNCHANGED <<worker, toWorker, toMain, shown, main, clock, crossed>>

Answers(p) ==
    /\ ~main.ended /\ link[p] # <<>> /\ Head(link[p]).type = "response"
    /\ p \in main.awaiting
    /\ info[Head(link[p]).prompt].type = info[main.last[p]].type

\* Wrong variant: one strike too many is allowed.
InvalidAnswerLenient(p) ==
    LET strike == [main EXCEPT !.strikes[p] = @ + 1] IN
    /\ Answers(p) /\ Receive(p)
    /\ IF strike.strikes[p] > MaxStrikes
       THEN main' = EndDuel(strike) /\ clock' = Disarmed(clock) /\ UNCHANGED shown
       ELSE main' = strike /\ shown' = [shown EXCEPT ![p] = main.last[p]] /\ UNCHANGED clock
    /\ UNCHANGED <<worker, toWorker, toMain, crossed>>

\* PLAYER_RESPONSE out of bounds: a strike, and the prompt again or the end
InvalidAnswer(p) ==
    LET strike == [main EXCEPT !.strikes[p] = @ + 1] IN
    /\ Answers(p) /\ Receive(p)
    /\ IF strike.strikes[p] >= MaxStrikes
       THEN /\ main' = EndDuel(strike) /\ clock' = Disarmed(clock)
            /\ UNCHANGED shown
       ELSE /\ main' = strike /\ shown' = [shown EXCEPT ![p] = main.last[p]]
            /\ UNCHANGED clock
    /\ UNCHANGED <<worker, toWorker, toMain, crossed>>

\* PLAYER_RESPONSE accepted: committed to the worker; the target of a rollback is remembered
AcceptAnswer(p) ==
    LET menu == info[Head(link[p]).prompt].type = "menu" IN
    /\ Answers(p) /\ Receive(p)
    /\ main' = [main EXCEPT !.strikes[p] = 0, !.awaiting = @ \ {p},
                            !.target[p] = IF menu THEN main.last[p] ELSE @]
    /\ clock' = [Paused(clock) EXCEPT !.idle = @ \ {p}]
    /\ toWorker' = Append(toWorker, AnswerOf(p, Head(link[p]).prompt))
    /\ UNCHANGED <<worker, toMain, shown, crossed>>

\* CANCEL_PROMPT_SEQUENCE: forwarded if p is awaited; the rate limit may swallow it.  Bound: it
\* does swallow it while the worker still holds an earlier one.
ReceiveCancel(p, limited) ==
    /\ Holds(toWorker, CancelOf(p)) => limited
    /\ ~main.ended /\ link[p] # <<>> /\ Head(link[p]).type = "cancel" /\ Receive(p)
    /\ toWorker' = IF limited \/ p \notin main.awaiting THEN toWorker
                   ELSE Append(toWorker, CancelOf(p))
    /\ UNCHANGED <<worker, toMain, shown, main, clock, crossed>>

-----------------------------------------------------------------------------
(* The worker (duel-worker.ts): it takes one message at a time and runs    *)
(* the engine until it waits again.                                        *)

Take == toWorker' = Tail(toWorker)

\* setLastIdleSnapshot(takeWorkerSnapshot()), before the response reaches the engine
Snapshot(p) == [player |-> p, memory |-> engine, captured |-> Len(captured)]

Refusals == Cardinality({i \in DOMAIN captured : ~captured[i].ok})

\* PLAYER_RESPONSE: the engine refuses it, emits RETRY and the board
WorkerRejects ==
    LET m == Head(toWorker)
        r == [prompt |-> m.prompt, ok |-> FALSE]
    IN
    /\ toWorker # <<>> /\ m.type = "response" /\ ~main.ended /\ Take
    /\ Refusals < MaxRefusals
    /\ captured' = Append(captured, r) /\ engine' = [engine EXCEPT !.path = Append(@, r)]
    /\ snap' = IF info[m.prompt].type = "menu" THEN Snapshot(m.player) ELSE snap
    /\ toMain' = toMain \o <<Retry(m.player, m.prompt # engine.at),
                             Board(engine.turn, engine.turnPlayer)>>
    /\ UNCHANGED <<info, resolving, client, main, clock>>

\* Wrong variant: the old rollback target survives the next menu.
WorkerAcceptsKeepsTarget(p, type, next, chain) ==
    LET m == Head(toWorker)
        n == Len(info) + 1
        r == [prompt |-> m.prompt, ok |-> TRUE]
        t == engine.turn + (IF next THEN 1 ELSE 0)
        tp == IF next THEN Other(engine.turnPlayer) ELSE engine.turnPlayer
    IN
    /\ toWorker # <<>> /\ m.type = "response" /\ ~main.ended /\ Take
    /\ info[m.prompt].type = info[engine.at].type
    /\ n \in Prompts /\ t <= MaxTurn /\ ~(next /\ chain)
    /\ (type = "menu" => p = tp /\ ~chain)
    /\ info' = Append(info, [player |-> p, type |-> type])
    /\ engine' = [at |-> n, turn |-> t, turnPlayer |-> tp, path |-> Append(engine.path, r),
                  first |-> IF next THEN n ELSE engine.first]
    /\ resolving' = chain
    /\ captured' = Append(captured, r)
    /\ snap' = IF info[m.prompt].type = "menu" THEN Snapshot(m.player) ELSE snap
    /\ toMain' = toMain \o <<Prompt(n), Board(t, tp)>>
    /\ UNCHANGED <<client, main, clock>>

\* PLAYER_RESPONSE: the engine goes on, to a prompt for p and then the board.  It takes an answer
\* by its format only, so one to an older prompt of the same kind may pass.  A menu drops the
\* rollback target; it belongs to the turn player, outside a chain.
WorkerAccepts(p, type, next, chain) ==
    LET m == Head(toWorker)
        n == Len(info) + 1
        r == [prompt |-> m.prompt, ok |-> TRUE]
        t == engine.turn + (IF next THEN 1 ELSE 0)
        tp == IF next THEN Other(engine.turnPlayer) ELSE engine.turnPlayer
    IN
    /\ toWorker # <<>> /\ m.type = "response" /\ ~main.ended /\ Take
    /\ info[m.prompt].type = info[engine.at].type
    /\ n \in Prompts /\ t <= MaxTurn /\ ~(next /\ chain)
    /\ (type = "menu" => p = tp /\ ~chain)
    /\ info' = Append(info, [player |-> p, type |-> type])
    /\ engine' = [at |-> n, turn |-> t, turnPlayer |-> tp, path |-> Append(engine.path, r),
                  first |-> IF next THEN n ELSE engine.first]
    /\ resolving' = chain
    /\ captured' = Append(captured, r)
    /\ snap' = IF type = "menu" THEN NoSnap
               ELSE IF info[m.prompt].type = "menu" THEN Snapshot(m.player) ELSE snap
    /\ toMain' = toMain \o <<Prompt(n), Board(t, tp)>>
    /\ UNCHANGED <<client, main, clock>>

\* tryCancelRollback
CanCancel(p) == snap # NoSnap /\ snap.player = p /\ ~resolving

IgnoreCancel ==
    /\ toWorker # <<>> /\ Head(toWorker).type = "cancel" /\ ~main.ended
    /\ ~CanCancel(Head(toWorker).player) /\ Take
    /\ UNCHANGED <<worker, toMain, client, main, clock>>

\* Wrong variant: the replay keeps the cancelled responses.
RollbackKeepsReplay ==
    LET p == Head(toWorker).player IN
    /\ toWorker # <<>> /\ Head(toWorker).type = "cancel" /\ ~main.ended /\ CanCancel(p) /\ Take
    /\ engine' = snap.memory
    /\ snap' = NoSnap
    /\ toMain' = toMain \o <<Board(snap.memory.turn, snap.memory.turnPlayer), CancelDone(p)>>
    /\ UNCHANGED <<info, resolving, captured, client, main, clock>>

\* CANCEL_PROMPT_SEQUENCE: memory and replay are restored, then the board and WORKER_CANCEL_DONE
Rollback ==
    LET p == Head(toWorker).player IN
    /\ toWorker # <<>> /\ Head(toWorker).type = "cancel" /\ ~main.ended /\ CanCancel(p) /\ Take
    /\ engine' = snap.memory
    /\ captured' = SubSeq(captured, 1, snap.captured)
    /\ snap' = NoSnap
    /\ toMain' = toMain \o <<Board(snap.memory.turn, snap.memory.turnPlayer), CancelDone(p)>>
    /\ UNCHANGED <<info, resolving, client, main, clock>>

\* The snapshot's time to live has passed.
SnapshotExpires ==
    /\ snap # NoSnap /\ ~main.ended /\ snap' = NoSnap
    /\ UNCHANGED <<info, engine, resolving, captured, toWorker, toMain, client, main, clock>>

-----------------------------------------------------------------------------
(* The main thread and its worker (worker-message-router.ts).              *)

Arrives(type) == ~main.ended /\ toMain # <<>> /\ Head(toMain).type = type /\ toMain' = Tail(toMain)

\* broadcastMessage of a SELECT message
ForwardPrompt ==
    LET n == Head(toMain).prompt
        p == info[n].player
    IN
    /\ Arrives("prompt")
    /\ main' = [main EXCEPT !.awaiting = @ \cup {p}, !.last[p] = n,
                            !.target[p] = IF info[n].type = "menu" THEN NoPrompt ELSE @]
    /\ clock' = Armed(clock, p)
    /\ shown' = [shown EXCEPT ![p] = n]
    /\ UNCHANGED <<worker, toWorker, link, crossed>>

\* broadcastMessage of BOARD_STATE
ForwardBoard ==
    /\ Arrives("board")
    /\ clock' = TurnChanged(clock, Head(toMain).turnPlayer, Head(toMain).turn)
    /\ UNCHANGED <<worker, toWorker, client, main>>

\* Wrong variant: the prompt is sent again, without its timers.
ForwardRetryUnarmed ==
    LET p == Head(toMain).player
        strike == [main EXCEPT !.strikes[p] = @ + 1]
    IN
    /\ Arrives("retry")
    /\ IF strike.strikes[p] >= MaxStrikes
       THEN main' = EndDuel(strike) /\ clock' = Disarmed(clock) /\ UNCHANGED shown
       ELSE /\ main' = [strike EXCEPT !.awaiting = @ \cup {p}]
            /\ shown' = [shown EXCEPT ![p] = main.last[p]] /\ UNCHANGED clock
    /\ UNCHANGED <<worker, toWorker, link, crossed>>

\* WORKER_RETRY: a strike, and the prompt again or the end
ForwardRetry ==
    LET p == Head(toMain).player
        strike == [main EXCEPT !.strikes[p] = @ + 1]
    IN
    /\ Arrives("retry")
    /\ IF strike.strikes[p] >= MaxStrikes
       THEN /\ main' = EndDuel(strike) /\ clock' = Disarmed(clock)
            /\ UNCHANGED shown
       ELSE /\ main' = [strike EXCEPT !.awaiting = @ \cup {p}]
            /\ clock' = Armed(clock, p)
            /\ shown' = [shown EXCEPT ![p] = main.last[p]]
    /\ UNCHANGED <<worker, toWorker, link, crossed>>

\* Wrong variant: the prompt sent last is not replaced.
ApplyCancelRollbackKeepsLast ==
    LET p == Head(toMain).player
        n == main.target[p]
    IN
    /\ Arrives("cancelDone")
    /\ IF n = NoPrompt THEN UNCHANGED <<main, shown>>
       ELSE /\ main' = [main EXCEPT !.strikes[p] = 0, !.awaiting = @ \cup {p},
                                    !.target[p] = NoPrompt]
            /\ shown' = [shown EXCEPT ![p] = n]
    /\ UNCHANGED <<worker, toWorker, link, clock, crossed>>

\* WORKER_CANCEL_DONE (applyCancelRollbackBroadcast); no timer is armed
ApplyCancelRollback ==
    LET p == Head(toMain).player
        n == main.target[p]
    IN
    /\ Arrives("cancelDone")
    /\ IF n = NoPrompt THEN UNCHANGED <<main, shown>>
       ELSE /\ main' = [main EXCEPT !.strikes[p] = 0, !.last[p] = n, !.awaiting = @ \cup {p},
                                    !.target[p] = NoPrompt]
            /\ shown' = [shown EXCEPT ![p] = n]
    /\ UNCHANGED <<worker, toWorker, link, clock, crossed>>

-----------------------------------------------------------------------------
(* Timers.                                                                 *)

\* ANIMATIONS_DONE of the pending player, or the fallback of scheduleTimerStart
ClockStarts ==
    /\ clock.state = "pending" /\ clock' = [clock EXCEPT !.state = "running"]
    /\ UNCHANGED <<worker, toWorker, toMain, client, main>>

\* The pool of the active player, or the patience of the inactivity timer, is exhausted.
TimeOut(p) ==
    /\ \/ clock.state = "running" /\ clock.active = p
       \/ p \in clock.idle
    /\ main' = EndDuel([main EXCEPT !.awaiting = @ \ {p}]) /\ clock' = Disarmed(clock)
    /\ UNCHANGED <<worker, toWorker, toMain, client>>

ClientStep == \E p \in Players : ClientAnswers(p) \/ ClientCancels(p)

RouterStep ==
    \E p \in Players :
        \/ IgnoreAnswer(p) \/ InvalidAnswer(p) \/ AcceptAnswer(p)
        \/ \E limited \in BOOLEAN : ReceiveCancel(p, limited)

WorkerStep ==
    \/ WorkerRejects
    \/ \E p \in Players, type \in {"menu", "step"}, next, chain \in BOOLEAN :
           WorkerAccepts(p, type, next, chain)
    \/ IgnoreCancel \/ Rollback \/ SnapshotExpires

MainStep == ForwardPrompt \/ ForwardBoard \/ ForwardRetry \/ ApplyCancelRollback

PromptNext ==
    \/ ClientStep \/ RouterStep \/ WorkerStep \/ MainStep
    \/ ClockStarts \/ \E p \in Players : TimeOut(p)

PromptSpec == PromptInit /\ [][PromptNext]_promptVars

-----------------------------------------------------------------------------
(* Properties.                                                             *)

\* Nothing is under way inside the server.
Quiet == toWorker = <<>> /\ toMain = <<>> /\ ~main.ended

Awaited == info[engine.at].player
AtMenu == info[engine.at].type = "menu"

\* Whenever nothing is under way, the main thread awaits exactly the player the engine waits for,
\* and holds the engine's prompt as the one to send again: no rollback and no refusal leaves the
\* two threads with different prompts, unless an answer crossed a cancellation.
PromptsAgree == Quiet /\ ~crossed => main.awaiting = {Awaited} /\ main.last[Awaited] = engine.at

\* Even then the duel does not wait for ever: somebody's inactivity ends it.
DuelHasDeadline == Quiet => clock.idle # {}

\* The replay is at every moment the sequence of responses that led to the engine's memory: a
\* rollback takes back what it cancels and nothing else, late answers included (WorkerSnapshot).
CapturedIsPath == captured = engine.path

\* The clock is that of the player the engine waits for, except where handleTurnChange decided:
\* at the prompt that opened the turn, sent before the board that moves the clock to the turn
\* player, and at a menu rolled back to from a later turn, whose board does not move it back.
HasTheClock ==
    \/ clock.active = Awaited
    \/ engine.at = engine.first /\ clock.active = engine.turnPlayer
    \/ AtMenu /\ clock.turn > engine.turn

\* The player the duel waits for has an inactivity deadline (audit v4 #14), and the turn clock is
\* not stopped and is his, with the two exceptions of HasTheClock: the boards that follow a prompt
\* do not move the clock within a turn, and a rollback, which arms no timer, finds it his.
AwaitedIsTimed ==
    Quiet /\ ~crossed => Awaited \in clock.idle /\ clock.state # "stopped" /\ HasTheClock

\* A rollback goes to a menu of the player who asked for it, the one the main thread remembers
\* and will send again.
RollbackTarget ==
    snap # NoSnap /\ ~crossed =>
        /\ info[snap.memory.at] = [player |-> snap.player, type |-> "menu"]
        /\ Quiet => main.target[snap.player] = snap.memory.at

\* The prompt on the screen of an awaited player is the one an answer is compared with.
ShownIsLast ==
    \A p \in main.awaiting : shown[p] # NoPrompt => shown[p] = main.last[p]

-----------------------------------------------------------------------------
(* Statements of the repository that the code does not keep: TLC refutes   *)
(* each of them when it is added to Prompts.cfg, StormIsBounded where      *)
(* MaxRefusals is greater than MaxStrikes.                                 *)

\* "MSG_RETRY encountered (script/core version mismatch)" (replay-precompute.ts): the responses
\* of a replay contain none the engine refused.
ReplayHasNoRefusal == \A i \in DOMAIN captured : captured[i].ok

\* "storms are bounded by invalidResponseCount forfeit" (audit v4 #14): the engine never refuses
\* more than maxInvalidResponses answers in a row.
StormIsBounded ==
    \A i \in DOMAIN captured : i > MaxStrikes => \E j \in (i - MaxStrikes)..i : captured[j].ok

\* "PHASE TRANSITIONS (Battle Phase, End Turn) [...] are NOT cancellable" (duel-worker.ts)
TurnsNeverGoBack == [][engine'.turn >= engine.turn]_promptVars

\* "counts down only during the active player's decision windows" (FR20)
ClockRunsForTheAsked == clock.state = "running" /\ Quiet => clock.active = Awaited

\* "Roll the duel back to the most recent IDLECMD/BATTLECMD snapshot" (duel-worker.ts): a
\* rollback never goes to another prompt than a menu.
RollbackGoesToMenu == snap # NoSnap => info[snap.memory.at].type = "menu"

\* A cancelled answer is not counted as a retry (duel-worker.ts).
CancelIsNoStrike == \A i \in DOMAIN toMain : toMain[i].type = "retry" => ~toMain[i].late

=============================================================================

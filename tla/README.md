# Skytrix in TLA+

This directory specifies, model-checks and proves properties of the parts of Skytrix in which
browsers, servers, worker threads and timers meet: the duel sessions of the duel server, the
protocol of prompts and rollbacks, the pools of workers, the tokens and sockets, the room that
leads two players to a duel, and the queue that plays a duel's messages on the page. Paths are relative to the repository.

## The system

Skytrix has an Angular front end (`front`), a Spring back end (`back`: accounts, decks, cards,
rooms, stored replays) and a Node duel server (`duel-server`). A room of the back end asks the duel
server for a session (`POST /api/duels`) and sends each player a token over server-sent events; the
players then speak to the duel server over WebSockets. A duel runs in a `worker_threads` worker
around the OCGCore engine; so does the pre-computation of a replay, in a bounded pool, and a search
of the solver in another.

| component | state it keeps | operations | hard behaviour | module |
|---|---|---|---|---|
| Session lifecycle: `session-orchestrator.ts`, `session-factory.ts`, `duel-end-coordinator.ts`, `lifecycle-helpers.ts` | `phase`, `startedAt`, `endedAt`, `animationsReady`, `rematchRequested` | create, start, end, rematch, release | competing ends of one duel; what a rematch must forget; callbacks that outlive the session | `DuelSession` |
| Player connections: `pvp-connection-handler.ts` | `players[]`, `bothDisconnected`, `storedDuelResult` | connect, reconnect, take over, close | drops and returns of two players in every phase | `DuelSession`, `SessionAccess` |
| Session timers: `timer-management.ts`, `inactivity-timer.ts` | turn clock, grace, combined grace, preservation, inactivity, rematch expiry, start-gate deadline | arm, disarm, expire | a timer racing what should disarm it; indices captured before the swap of `players[]` | `DuelSession`, `PromptChannel` |
| Pre-duel dice: `first-player-coordinator.ts` | `firstPlayerState`, one timer | roll, autofill, tie, promote, choose | silent players; a session that moves on meanwhile | `DuelSession` |
| Worker link: `worker-lifecycle.ts`, `worker-message-router.ts`, `replay-persist.ts` | `worker`, `workerTerminated`, `pendingReplayResult` | spawn, prompt, win, error, exit, replay | messages and exit of a worker against end, rematch, release; an asynchronous POST | `DuelSession`, `PromptChannel` |
| Client messages: `client-message-router.ts` | `awaitingResponse`, strikes | answer, surrender, rematch, ready, cancel | legal messages in phases nobody had in mind | `DuelSession`, `PromptChannel` |
| Prompts and rollback: `duel-worker.ts`, `cancel-rollback-main.ts` | snapshot, recorded answers, last prompt, rollback target | prompt, refuse, cancel, roll back | an answer crossing a cancellation | `PromptChannel` |
| Session manager: `duel-session-manager.ts` | three maps of sessions and tokens | create, consume, rotate, swap, remove | maps that must follow the swap of the players | `SessionAccess` |
| Replay pool: `replay-handlers.ts` | worker count, queue, pending forks, watchdogs | open, queue, fork, hand over, close | a slot released twice or never | `ReplayPool`, `SlotPool` |
| Client connection: `front/.../duel-connection.ts` | tokens in memory and in storage, retry count, three timers | connect, retry, give up, reload | a timeout, a close and a retry of three different sockets | `Reconnection` |
| Rooms: `RoomService.java`, `RoomEventService.java`, `RoomCleanupScheduler.java`, room page | the row, the event streams, the page's state | join, kick, start, end, clean up, subscribe | unlocked transactions; events sent before anybody listens | `RoomProtocol` |
| Solver: `solver-handlers.ts`, `solver-orchestrator.ts`, `solver.service.ts`, solver page | mutex, cache and registration per user; the page's state and timers | start, verify, cancel, reconnect | solves that outlive their socket | `SolverChannel` |
| Animation queue: `front/.../duel-page/`: `queue-runner.ts`, `chain-resolution-manager.ts`, `duel-event-processor.ts`, `animation-orchestrator.service.ts`, the chain overlay | the queue, its loop's flags, the buffer of a chain, the overlay's resolutions | receive, play, buffer, replay, resync | an asynchronous loop, effects, timers and resets that start and stop each other | `AnimationQueue` |
| Server entry: `server.ts`, `fork-handlers.ts` | `activeDuels` | create, delete, first-connection timeouts | sessions nobody comes to | `DuelSession` |
| Message filter and transforms, game log, tape player, rate limits, sweeper, search of the solver, pages outside the duel | | | sequential, or outside the protocols | none |

Each server is single-threaded per callback (Node) or per locked row (Spring): a callback runs to
its end, and an `await`, a message, a commit or a timer ends it. That is the grain of the models.

## Modules

| module | what it is |
|---|---|
| `DuelSession`, `MCDuelSession`, `MCModes` | one session, every callback that touches it; its statements the code does not keep; its three modes side by side |
| `SessionLifecycle` | the abstract promise of a session: duels, ends, rematches, release, one thread per duel |
| `PromptChannel` | two clients, the main thread and the engine thread of one duel, joined by queues |
| `SessionAccess` | the tokens, seats and sockets of several sessions |
| `ReplayPool`, `SlotPool` | the replay connections and their pool of workers; the abstract semaphore with a queue |
| `Reconnection` | one player's connection object in the browser, its sockets, and the server's seat |
| `RoomProtocol` | one room: its row, its transactions, its event streams, its users' pages |
| `SolverChannel` | the solver of one user: page, sockets, handlers, pool |
| `AnimationQueue` | the animation queue of the duel page, its loop, the chain overlay, and the server's chain |
| `*_proofs` | theorems about each of the eight modules above, and the two refinements |

A history variable is called one where it is declared. An operator that `PROJECT.json` lists as the mutated
form of another ("Wrong variant") is in no behaviour of the specification; it documents the error a
property is there to catch.

### `DuelSession`

One action is one callback, with everything it calls: `CloseLive` is the close handler with
`pauseTurnTimer`, `clearInactivityTimer` and `startGracePeriod`; `EndDuel` is `handleDuelEnd`
with `clearAllDuelTimers`; `Attach` is the whole handshake including the start of the duel
when the player who connects is the last one awaited (`Proceed`).

`Mode` selects the three kinds of session: `pvp` (two sockets), `solo` (one socket that plays
both slots) and `fork` (solo, from a replay, its worker created before the player connects).
`MaxDuels` bounds the rematches.

| variable | code |
|---|---|
| `registered`, `tokens` | membership in `activeDuels`; `pendingTokens` of the session |
| `phase`, `started`, `ended` | `phase`, `startedAt # null`, `endedAt # null` |
| `connected`, `ready`, `awaiting`, `rematch` | `players[p].connected`, `animationsReady`, `awaitingResponse`, `rematchRequested` |
| `timers` | the single-slot timer fields that are not null (`connection` and `forkConnection` are the `setTimeout`s of `server.ts:565` and `fork-handlers.ts:105`; `dice` is the one coordinator timer) |
| `grace`, `idle` | the per-player timers, as pairs *(index its closure captured, slot whose player object holds it)*: the swap of `players[]` changes the second and not the first |
| `clock`, `active` | `timerContext`: null, stopped, pending on ANIMATIONS_DONE, running; `activePlayer` |
| `rolled`, `pick` | `firstPlayerState.rolls`, the winner of the dice and then `chosenFirstPlayer` |
| `worker` | the stage of the thread behind `session.worker`; `dead` is `workerTerminated` |
| `threads`, `served` | threads of this session still running, its share of `totalDuelsServed` |
| `asked`, `emitted` | EMIT_REPLAY_DATA posted; `replayEmitted` in the worker |
| `override`, `persisting` | the duel that set `pendingReplayResult`; replay POSTs in flight |
| `duel` | history: which duel of the session this is |

- **Durations are abstracted.** An armed timer may expire at any moment, so a property that
  holds here does not depend on 60 s being less than 5 min.
- **The dice** produce any outcome of a round; the cap of ten tied rounds only turns a tie into a
  winner, which is such an outcome.
- **Strikes.** An invalid answer below the limit changes only a counter; the last one is
  `TooManyInvalidResponses` and may happen at any prompt (`PromptChannel` counts them).
- **The engine** is external: while `thinking` it may prompt either player, change the turn,
  win, fail or exit. It reads EMIT_REPLAY_DATA only when its loop yields (`CanEmitReplay`).
- **Sockets.** A reconnection replaces the previous socket, whose later close event is then
  ignored, so only the close of the current socket is an action (`SessionAccess` models both).
- **Persisting** may succeed or fail; both end in the same `finally`.

`SessionLifecycle` is the session seen from outside: *before its duel*, *in it*, *ended* or *gone*;
it plays rounds; each round has at most one thread, which starts once and never comes back, and a
session that is gone has none. `Start` is allowed on an ended session because the code does it: a
surrender while the dice are on the table ends the session, and the coordinator's timers, which do
not test `endedAt`, still spawn the worker.

### `PromptChannel`

A prompt is a number, its type *menu* (SELECT_IDLECMD, SELECT_BATTLECMD: the rollback boundaries)
or *step*. `link`, `toWorker` and `toMain` are the three queues. `main` holds the prompt fields of
the session (`awaitingResponse`, `lastSentPrompt`, `cancelTargetPrompt`, `invalidResponseCount`),
`engine` the engine's memory with the path of responses that led to it, `captured` the recorded
responses, `snap` the worker's snapshot. `WorkerAccepts` and `WorkerRejects` are a PLAYER_RESPONSE
up to the engine's next wait; `Rollback` and `ApplyCancelRollback` are the two halves of a
cancellation, one on each thread; the main thread's `cancelTargetPrompt` and the worker's snapshot
are two records of one thing, dropped at different moments. The engine is any sequence of prompts;
an answer out of bounds is either outcome; `TurnChanged`, `Parked`, `Armed` and `Paused` are the
timer functions, with the pools abstracted. `crossed` is a history variable: a client answered
while its own cancellation was under way.

### `SessionAccess`

Several sessions share `activeDuels`, `pendingTokens` and `reconnectTokens`, and the sockets of all
users. A `PlayerSession` moves between the seats when the start of the duel swaps the players
(`SwapPlayers`, with the rewrite of both token maps); `Connect` consumes an initial token,
`Reconnect` a reconnect token, and both rotate. A socket that is lost is *dying* until its close
event is handled, which may come after its user's next socket was bound. Users are named by the
seat they were given first, so that a property can say whose seat is whose.

### `ReplayPool` and `SlotPool`

A job is one start of a worker, for a replay or for a fork. A start that was queued runs inside
the release that frees its slot, *before* the releasing handler continues; so the handlers are
compositions of functions on one record, `pool`, in the order of the calls. `armed` and `timer`
keep apart the watchdog that will fire and the one the connection knows. `SlotPool` promises that at
most `Slots` jobs run, that waiting ones are served in order, and that a freed slot goes to the
oldest waiting job in the same step; the refinement maps `running` to the jobs that hold a slot.

### `Reconnection`

`client` is the record of the fields of `DuelConnection`, `storage` the token in localStorage, `line`
the two ends of each socket with what the server has sent on it. The network may cut a socket
with what is in flight; the server may be slow, rate-limit (4029), reject (4001) or remove the session; the
page may be reloaded. The one assumption on time is at `RetryTimer`: it does not fire before the
close event of the socket it follows.

### `RoomProtocol`

Join, kick and the two transactions of a start lock the row and are one step each. `endRoom` and the
clean-up jobs read the row, call the duel server, and write back all its columns: `closers` holds
the row they read. What runs after a commit (`hooks`) runs when its thread gets there. A page has
a state, an event stream and, for the creator, the HTTP answer of its own start.

### `SolverChannel`

One user, whose page opens sockets one after the other; each socket has two ends, which learn of
its end at different times. `task` is where the coroutine of each SOLVER_START is between its
`await`s; it outlives the socket that carried the START, and the answer goes to the socket that is
registered when it ends. A verification takes no mutex. `Overlap` says whether `connect` may be
called while a socket is still connecting (see Findings). A faulty connection is one without a token
(no socket), one that fails or is cut, or one that is refused: because the server is full (the page
retries) or because the page is outdated (4426: it gives up, except for the timer of the handtraps).

### `AnimationQueue`

| variable | code |
|---|---|
| `server` | the duel server: its `ChainStateContainer`, what it has sent, whether the socket is up |
| `proc` | `DuelEventProcessor`: `animationQueue`, `activeChainLinks`, `chainPhase`, the pending chain entry, the generations of chains |
| `runner` | `QueueRunner`: `_isRunning`, `_isProcessing`, the current `AbortController` (`epoch`), the rescue counter, the armed await-signal; `loops` are the calls of the loop that have not returned, aborted ones included |
| `chain` | `ChainResolutionManager` with `_isReplayingBuffer`: the buffer of board events, the deferred SOLVING, `chainOverlayReady` |
| `draw` | `DrawSequenceManager`: draws in flight, and whether the queue waits for them |
| `overlay` | the chain overlay: the links it last saw, its resolutions and where their timers are, `_resolvingInFlight` |
| `dirty` | the Angular effects whose signals have changed since they last ran |
| `parked` | a STATE_SYNC waiting for its CHAIN_STATE |

JavaScript is one thread, and an action is the code between two awaits. A loop that resumes is a
microtask; it and the effects run, in any order, before the next timer or message (`Quiet`). The
one assumption on durations is in `StepEnds`: the pulse of a SOLVING and the flash of a CHAINING
(400 ms and more at normal speed, scaled alike) outlast the overlay's impact pause (300 ms) if that was running when they began; the settling of
an END (100 ms) may be shorter. The batch a replay puts into the queue is one group, a barrier and
a batch-end; the draws are one player's. Negated links, bursts of life-point changes, the buffer
before an activation, reduced motion, the switch of perspective, the locks of zones and the stream of
events to other components are left out: they add entries of the same kinds or change how one looks.

## Runs

| run | instance | distinct states | what it shows |
|---|---|---|---|
| `pvp` | two players, a duel and a rematch | 1,253,809 | the safety of a session, and `ImplementsLifecycle` |
| `modes` | pvp with one duel, solo with a rematch, fork; with fairness | 235,319 | abandoned sessions are released with their threads; a dice winner gets a duel |
| `fork` | a fork session | 153 | a live duel has a running worker |
| `prompts` | 4 prompts, 2 turns, 2 strikes, 2 refusals, 2 messages per client | 2,358,955 | the two threads agree, the player who is asked is timed, the replay is the engine's path |
| `access` | 2 sessions of either kind, 6 tokens, 4 sockets | 402,837 | tokens and seats follow their users |
| `pool` | 3 viewers, 4 jobs, 2 slots; with fairness | 29,105 | slots are accounted for, `ImplementsSlotPool`, every waiting viewer is served |
| `reconnect` | 2 sockets at a time, 2 retries, 3 handshakes, a reload, a rematch; with fairness | 341,612 | one live socket, the right token, no endless "reconnecting" |
| `rooms` | a creator, 2 joiners, 2 starts, 1 unlocked transaction; with fairness | 303,013 | one duel per room, the right tokens, a started duel is reached |
| `solver` | 2 sockets, 2 STARTs, 2 visits, a fault, a cancel; with fairness | 711,105 | one solve at a time, a cancel is final, the page never waits for ever |
| `queue` | 2 links, 2 board events of which one a draw, a resync at any moment; with fairness | 303,940 | one loop, every event once and in order, the queue always empties |
| `claim_*` | the smallest instance that shows it | | a statement of a document or comment the code refutes (see Findings) |

Properties, by run:

- `pvp`. `GoneIsQuiet`: a session that left the manager is inert; nothing that could still call
  back into it is left except two timers that find it ended. `EndedSessionHasDeadline`: whichever
  end came first, the rematch expiry is armed. `AbandonedSessionHasDeadline`: a live session
  without its players has a timer that ends it. `WorkerAccounting`: no thread is leaked when
  `session.worker` is overwritten, none counted twice. `DicePhaseHasTimer`, `GateNeverWedges`:
  neither the dice nor the start gate can stall.
- `modes`. `AbandonedIsReleased`, `DiceWinnerStartsDuel`: what those deadlines are for.
- `fork`. `LiveDuelHasWorker`. It holds in the first duel of every session (`FirstDuelHasWorker`), and
  a fork has no other; `claim_rematch_worker` shows what happens in the second.
- `prompts`. `PromptsAgree`: when nothing is under way inside the server, the main thread awaits
  exactly the player the engine waits for, and holds the engine's prompt as the one to send again.
  `AwaitedIsTimed`: that player has an inactivity deadline, and the turn clock is not stopped and is
  his, with two exceptions (`HasTheClock`) in which the code may leave it with his opponent: at the
  first prompt of a turn it is the turn player's, whoever is asked, and at a menu of an earlier turn
  that a rollback restored it is whosever it was (see Findings). `RollbackTarget`: worker and
  main thread would roll back to the same menu of the same player. These three exclude the duels in
  which an answer crossed a cancellation. `DuelHasDeadline`: even then somebody is timed.
  `CapturedIsPath`: the recorded replay is at every moment what led to the engine's memory.
- `access`. `TokensResolve`: an accepted token leads to a live session and to the seat of the user
  it was given to. `LastTokenWorks`: the manager knows the last token of each user who has been in
  a live session, and no other. `TokensAreSpentOnce`. `SeatFollowsSocket`: a seat is connected
  until the last socket of its own user has closed.
- `pool`. `SlotsAccounted`: the count is the number of jobs that hold a slot. `ImplementsSlotPool`.
  `QueueIsServed`: with watchdogs that fire, a queued job starts or its viewer leaves.
- `reconnect`. `OneLiveSocket`: late timeouts and closes never leave two live connections.
  `SeatedHasTheToken`: a player whose seat is bound to a socket and who has read what it carried
  holds the token the server would accept. `ReconnectingEnds`.
- `rooms`. `OneStartAtATime`, `OneDuelPerRoom`, `TokensGoToTheirPlayers`: through joins, kicks,
  endings and clean-ups between the two transactions of a start. `StartedDuelIsReached`: a page that
  waits for a duel that was started leaves its waiting state, although room-ready may have been sent
  before its stream was registered.
- `solver`. `OneSolveAtATime`: the mutex is held exactly while a START is on its way, whatever way
  it ends. `OpenIsRegistered`: the late close of a replaced socket does not take the newer one's
  registration. `CancelIsFinal`: a cancelled solve never becomes a result, in the cache, on its
  way, or on the page. `SpinnerEnds`.
- `queue`. `OneLoop`: effects, draws, the overlay, the rescue of a finished loop and a reset all start
  loops; at most one is not aborted, and it holds the mutex. `PlayedOnceInOrder`: an event received is
  played once and in order, whether at once, replayed for its link or drained before the end of the
  chain. `QueueSettles`: every pause has somebody who ends it. The last two excuse the races of a reset
  that break them (see Findings) in the behaviours where they happen, and only from then on.

A module's type invariant describes its state. All are proved; `QueueTypeOK` is in no
configuration, and passes when it is added to `Queue.cfg`.

**Bounds.** The two slots of a session are the code's own number. `MaxDuels = 2` covers what a
rematch can inherit, since `resetSessionForRematch` treats every rematch alike and a replay POST of
the first duel can then meet the worker of the second. Four prompts are a menu, two steps and the
next menu: a rollback, a refusal after it and a second boundary fit. Six tokens are two initial ones
and one rotation for each of two users, with a second session; four sockets are two of each of two users.
With two slots and three viewers the queue is used, and a viewer's fork competes with the others;
`pool` also passes with five jobs (172,664 states). `reconnect`
passes with three retries as well, on one reload and no rematch more. The solver's safety also passes with (sockets, starts, faults, visits, cancels) =
(3,2,1,2,1), (3,2,2,1,1) and (3,3,1,1,1), and its liveness with (2,2,2,1,1). In `queue` two links are
the least that have a banner, a link after a link and a chain that is still there when one link is solved; two
events are a group and an order. It also passes with three chainings (two chains; 1.98 million
states), three events (1.02 million) and two resyncs (1.27 million). The theorems remove
the bounds where there are some. Deadlock is not checked: a released session, a decided duel, a room
everybody left and a page whose bounds are used up do stop.

**Fairness.** Weak fairness is assumed of timers that the event loop is bound to fire and that
nothing re-arms while they are armed: in `DuelSession` the two connection checks, the solo orphan,
the combined grace, the rematch expiry and three dice timers; in `ReplayPool` the watchdogs; in
`Reconnection` the three timers of the client; in `RoomProtocol` the timeout of a silent stream. Weak
fairness is also assumed of what a browser or a server does with what it has: `Reconnection`,
delivery of what a socket carries, its end included; `RoomProtocol`, the events of a stream and the
two requests that open one; `SolverChannel`, delivery, the server's attach and close, the deck
request and the end of a solve, which the orchestrator's hard kill sees to; `AnimationQueue`, whatever
is due on the page (one fairness for all of it: the browser runs its tasks). `SolverChannel` assumes
strong fairness of the page's grace of 1.5 s: it is re-armed only by a new connection, and two of
those are at least 2 s apart. A verification has no hard kill; that it ends is an assumption. Nothing
is assumed of users, of the engine, of the replay POST, of the transactions of a room, or of timers a
client can postpone for ever (inactivity, the turn clock, the start-gate deadline).

## Proofs

TLAPS proves, for every value of the constants that satisfies the named assumptions of the modules:

| module | theorems | property |
|---|---|---|
| `DuelSession_proofs` | `TypeCorrect`, `ReleaseIsFinal`, `EndedSessionsExpire`, `AbandonedSessionsExpire`, `NoThreadIsLost`, `DiceNeverStall`, `GateOpensDuel` | the invariants of `pvp` |
| | `FirstDuelHasWorker`, `ForkHasWorker` | `LiveDuelHasWorker`, in the first duel of a session of any mode and in forks |
| | `SessionImplementsLifecycle` | the refinement of `SessionLifecycle` |
| `SessionAccess_proofs` | `AccessTypeCorrect`, `AcceptedTokensLeadHome`, `TheLastTokenWorks`, `OneHandshakePerToken`, `SeatsFollowTheirSockets` | every property of `access` |
| `PromptChannel_proofs` | `PromptTypeCorrect`, `ThreadsAgree`, `NoDuelWaitsForEver`, `ReplayFollowsTheEngine`, `TheAskedIsTimed`, `RollbacksAgree` | every property of `prompts` |
| | `ScreensShowTheLastPrompt` | `ShownIsLast`: the prompt on an awaited player's screen is the one his answer is compared with |
| `ReplayPool_proofs` | `PoolTypes`, `SlotsAreAccounted`, `PoolIsBounded` | `TypeOK`, the invariant of `pool`, `PoolBounded` |
| | `PoolImplementsSlotPool` | the refinement of `SlotPool` |
| `Reconnection_proofs` | `ReconTypes`, `OneSocketAtATime`, `TheSeatedCanComeBack` | `ReconTypeOK`, the invariants of `reconnect` |
| `RoomProtocol_proofs` | `RoomTypes`, `StartsOneAtATime`, `BridgedOnce`, `TokensLeadHome` | `RoomTypeOK`, the invariants of `rooms` |
| `SolverChannel_proofs` | `SolverTypeCorrect`, `TheMutexHolds`, `TheOpenSocketIsRegistered`, `CancelledSolvesGiveNoResult` | the invariants of `solver` |
| `AnimationQueue_proofs` | `TheQueueHasOneLoop` | `OneLoop` |
| | `NothingIsLeftByFinalize` | a loop that gave the mutex back and has not returned leaves an empty queue |
| | `QueueTypes` | `QueueTypeOK` |
| | `EventsArePlayedInOrder` | `PlayedOnceInOrder`, if `Stragglers = FALSE` |

The arguments:

- **`DuelSession`.** `Inv` conjoins the properties with three strengthenings. `ModeFits`: a solo
  session never rolls dice and its socket takes slot 0; without it the swap could move the only
  socket away from the slot `isFullyDisconnected` tests. `WorkerComesWithDuel`: before the duel there
  is no worker, so `startDuelWithOrder`, which overwrites `session.worker` without a test, loses no
  thread. `AbandonedBeforeStart`: the first-connection check counts as a deadline only while the
  gate has not opened. Each part has a lemma with one step per action; the refinement follows from
  `LifecycleStep`, which maps each step to an abstract action or a stutter. `FirstDuelLives`, invariant
  together with `Inv`, adds that the first duel, until it ends, has a worker at work that was not asked
  for its replay, and no replay POST behind it: it is the POST of an earlier duel that terminates the
  worker of a later one, so the finding of `claim_rematch_worker` is confined to rematches.
- **`SessionAccess`.** `AccessInv` says that the reconnect map is the inverse of the players' current
  tokens, that an initial token leads to a seat nobody has had yet, that a token known to the
  manager is not spent, and that sockets and tokens belong to the users of their seats. The swap
  keeps it because both maps are rewritten in the same callback as the seats.
- **`PromptChannel`.** `TypeInv` types every message over the prompts emitted so far, so that `info`
  can be asked about it. `PathInv` adds that what a rollback restores is a prefix of the record, equal
  to the snapshot's path. `DeadlineInv`: when no inactivity timer is armed, an answer is under way, or
  a prompt or a retry that will arm one. `AgreeInv` is the heart: until an answer crosses a
  cancellation the duel is in one of five phases (a player is asked, he has been heard, the next
  prompt is coming, a refusal is coming, a rollback is coming back), each with exactly one thing under
  way besides boards, and cancellations only of the player who is asked. What the main thread
  remembers as the target of a rollback is what the worker's snapshot holds in all five. `ClockInv`
  says whose the clock is: `first`, the prompt a turn opened with, tells the exception from the rule, a
  menu is always the turn player's (`MenuOwner`), the snapshot is not of a later turn than the engine
  (`SnapTurn`), and `ClockForm` says, for each thing that may be under way, what the boards among it
  will do to the clock when they arrive.
- **`ReplayPool`.** A handler is a composition of calls, so the argument is about states: the
  relation `Frees` says what any handler that gives slots back has done when it returns, and that a
  state so reached is good (`Good`) is proved once. The heart is `Unique`: a connection has at most one
  job that waits or holds a slot, which is why a start that runs inside a release cannot touch the
  pointers of the connection whose handler is still at work. `Pointed` and `Watched` tie the jobs to
  those pointers and watchdogs; `Counted` is the property. The theorems assume `AsViewed`: a viewer
  forks what is on display (the page offers it nowhere else), and fork workers do not crash. Without
  the second half the properties are false, and that is a finding.
- **`Reconnection`.** There is one socket because of when a new one is asked for (`AskedWhenClosed`):
  the retry timer is armed, and the button of the lost overlay usable, only while the last socket is
  given up. The token is held because of what is in flight (`SeatHolds`, `Owed`): the token issued last
  is on its way on the seat's socket or it is the client's, and (`Settled`) a socket that is given
  up, or that the server has not seen, carries nothing. The assumption on time at `RetryTimer` is in
  the model, hence in the theorems.
- **`RoomProtocol`.** `Locked`: a row that is WAITING or READY has no start on its way and none behind
  it. It survives the transactions without a lock because they only ever write ENDED or CLOSED, and a
  start needs READY. `Seat`: a start that is done keeps its player, so that a token given by the row
  (`RowLeadsHome`), by an event, a hook or an answer (`NewsLeadHome`) or read by a page (`Seated`) leads
  to a seat of its user at any later time.
- **`SolverChannel`.** `OpenIsRegistered` is inductive. `OneSolveAtATime` is restated without
  counting (`OneSolve`) and needs `Given`, that a number not yet given to a START is in no state,
  and `AskedOnce`, that no two messages carry one number. `CancelIsFinal` follows from `Answered`: a
  result in a queue, in the cache or on the page is of a solve that is done; done stays done.
- **`AnimationQueue`.** `finalize` gives the mutex back a microtask before the loop returns, so that
  `OneLoop` is not inductive: something could start a second loop in between. `QueueInv` adds
  `Window`: in that microtask the queue is empty and the runner stopped. It is kept because
  everything that starts a loop then, an effect of the queue included, finds nothing to play or a
  stopped runner, and everything else has to wait for a macrotask (`Quiet`).
  `EventsArePlayedInOrder` follows from `QueueOrderInv`, five parts of which each needs those before it.
  `TypeInv`: the types, and that at most one loop has events in hand. `BufferInv`: the entries that the page
  itself puts in the queue (group, barrier, end of batch) stand in front and only while the
  chain manager drains; the buffer is empty then. `OverlayInv`: the end of a batch in the queue is
  that of the overlay's current resolution, which waits for it. `LinkInv`: what decides whether an
  event is buffered is the chain as far as the page has played it, which no variable holds. So the
  invariant says that there is a chain `s` such that the queue, message by message, takes `s`
  to the chain of the server, and that buffer, batch, overlay and runner agree with `s` (`Coupled`):
  for example that a buffer is only held for a link of `s` that is solved or being solved, so that
  the SOLVING of the next link, the END of the chain and an event that is played at once find
  it empty. `OrderInv`: what is played, in hand, buffered and queued ascends by the
  server's numbers and is what was received. After one of the races of a reset that the property
  excuses, the last two say nothing. `Stragglers = FALSE` is a hypothesis of the theorem and not of
  the model: an event between the SOLVED of a link and the SOLVING of the next one breaks the order (see
  Findings). Both theorems hold for any number of links, chains, events, draws and resyncs.

The inductive invariants of `Reconnection` and `RoomProtocol` were checked with TLC on the instances of
`reconnect` and `rooms` before they were proved; so was `QueueOrderInv` on that of `queue`, with the
chain `s` carried along as a history variable instead of the quantifier. The property is stated
by the numbers of the events and not as an equality of concatenations, which would need a fold
over the queue and induction over its length: numbers that ascend along all the places, and are
those received, are the same sequence.

Only model-checked:

- every liveness property (`AbandonedIsReleased`, `DiceWinnerStartsDuel`, `QueueIsServed`,
  `ReconnectingEnds`, `StartedDuelIsReached`, `SpinnerEnds`, `QueueSettles`): fairness and ENABLED are out of the
  prover's reach;
- `PlayedOnceInOrder` with `Stragglers = TRUE`, or after the races it excuses, where it is false;
- `LiveDuelHasWorker` in a rematch, where it is false.

## Findings

Statements of the repository that the code does not keep. Two have runs of their own:

1. `claim_rematch_worker`: the replay POST of the first duel settles after the rematch has spawned
   its worker, and its `finally` terminates that worker (`worker-message-router.ts:228`); the
   listeners were removed first, so the rematch is stuck without an engine.
2. `claim_grace_swap`: the grace of a player who drops in the dice phase and whose slot is then swapped
   ends without effect: the callback looks at the other player (`timer-management.ts:499`). His
   inactivity or the turn clock, where one runs, may still end the duel.

The others are definitions at the end of their modules that TLC refutes when they are added to the
configuration named.

`Pvp.cfg`, module `MCDuelSession`:

- `ReplayResultIsOfThisDuel`: the forced result of an ended duel survives
  `resetSessionForRematch` and is recorded as the result of the next replay
  (`session-factory.ts:182`, `session-orchestrator.ts:245`).
- `PreservedResultHasOnlyItsTimer`: the result to be kept for 4 hours (`prd-pvp.md:258`) is stored
  on a session given the 5 minutes of the rematch expiry (`duel-end-coordinator.ts:156`). A player
  absent at the end gets DUEL_END only if he returns within them, and only when both had left.
- `ClockWaitsForTheAbsent`: the fallback of the parked turn clock starts it for an absent player
  (`timer-management.ts:244`, `epics-pvp.md:634`).
- `OnlyPromptedPlayersAreTimed`: an inactivity timer armed for the dice prompt is not cleared by the
  roll and runs against a player who is asked nothing (`first-player-coordinator.ts:278`, FR21 in
  `prd-pvp.md:237`).
- `EndClearsGrace`: the end of the duel does not clear the grace timers
  (`timer-management.ts:416`, `duel-end-coordinator.ts:122`).
- `NoReadyDeadlineAfterTheEnd`: a handshake re-arms the start-gate deadline on an ended session
  (`timer-management.ts:389`, comment at `:446`).

`Prompts.cfg`, module `PromptChannel`:

- `ReplayHasNoRefusal`: an answer the engine refuses stays in the recorded replay
  (`duel-worker.ts:616`, `replay-precompute.ts:596`).
- `StormIsBounded` (with `MaxRefusals = 3`): every answer that passes the bounds check resets the
  strikes before the engine judges it, so refusals are not bounded by the forfeit
  (`client-message-router.ts:169`).
- `RollbackGoesToMenu`: the snapshot is taken by the type the answer claims; after a crossed
  cancellation a rollback goes to a state that is no menu (`duel-worker.ts:1244`, `:1265`).
- `CancelIsNoStrike`: an answer that crossed a cancellation is refused and counted.
- `TurnsNeverGoBack`: a menu of the next turn is a rollback target for the turn's first step.
- `ClockRunsForTheAsked`: BOARD_STATE of a new turn moves the clock to the turn player, though the
  prompt is the opponent's (`timer-management.ts:279`). After a rollback to a menu of an earlier turn
  the clock stays with the later turn's player: the board's lower turn is ignored
  (`timer-management.ts:281`), and the rollback arms no timer.

`Pool.cfg`, module `ReplayPool`, with `Crashing = {"replay", "fork"}`:

- `PoolBounded` and `SlotsAccounted`: a fork worker that crashes is released by its exit handler and
  again by its watchdog (`replay-handlers.ts:566`, against the comment at `:146`).

`Rooms.cfg`, module `RoomProtocol`:

- `EndedIsFinal` (a PROPERTY): a room that is ended while its duel is being created comes back, because
  the rollback or the finalization of the start writes over ENDED (`RoomService.java:277`).

`Solver.cfg`, module `SolverChannel`:

- `StartEvicts`, `ShownIsTheLastAsked`: the old result is evicted only after the deck fetch; a
  reconnection in between brings it to the page that waits for the new one
  (`solver-handlers.ts:478`, `epics-solver.md:551`).
- `CancelReachesTheSolve`: a cancel during the deck fetch is lost (`epics-solver.md:528`).
- `VerifyingEnds`: `isVerifying` stays set when the answer of the verification is lost.
- `OutdatedStops` (a PROPERTY, with `MaxFaults = 2`): a page that the server refuses with 4426 is to
  "stop retrying so we don't loop forever" (`solver.service.ts:220`), but `onopen` has reset
  the retry count and set the timer of the handtraps, which that close leaves: every ten
  seconds the page connects again (`solver.service.ts:575`).
- `ConnectionSettles`, `SpinnerEnds`, with `Overlap = TRUE`: `connect` counts only an open socket; a
  socket still connecting is left with its handlers, and the two replace each other for ever, since
  4001 is retried (`solver.service.ts:184`). Two tabs do the same.

`Queue.cfg`, module `AnimationQueue`; the excuses are the conditions on `races` in the two properties:

- `QueueSettles` without "orphan resolution": a resync with CHAIN_STATE on a live page (a reconnection, a tab
  that becomes visible) while the overlay is in a resolution. The resolution is not aborted and
  `_resolvingInFlight` stays set, so the next solved link, for which the queue waits, is refused
  (`pvp-chain-overlay.component.ts:1038`); when the old resolution ends, `chainOverlayReady` does not
  change, and the queue waits for ever. A restored chain with fewer links than the overlay saw last
  starts a resolution nobody solved.
- `PlayedOnceInOrder` without "late flush": messages received while a STATE_SYNC waits for its
  CHAIN_STATE are wiped when it is applied (`duel-connection.ts:1354`).
- `PlayedOnceInOrder` without "late safety timer": the safety timer of a replay is not cleared by a reset;
  late, it ends the replay of another batch, whose events are buffered again
  (`animation-orchestrator.service.ts:949`). This one takes a chain of one link before the resync, one of
  two links after it and three events, two of them in the second batch (`MaxChainings = 3`, `MaxEvents = 3`,
  and `Draws = {}` to keep it small); the bounds of `queue` do not reach it.
- `PlayedOnceInOrder` with `Stragglers = TRUE`: a board event between the SOLVED of one link and the SOLVING of
  the next is buffered and then dropped by `handleSolving` (`chain-resolution-manager.ts:142`). Whether
  the engine sends one there is not decided by this code.
- `await-signal` never pauses a queue that is not empty: the `finally` of the loop that returned for it
  rescues the queue (`queue-runner.ts:522`), against `docs/duel/orchestrator.md:410`; that the
  next link is not played too early rests on the durations alone.
- `handleEntryAndAwait` does not look at the abort after its await: a loop of a former epoch still runs
  the completion of its entry.

Seen while modelling, and not stated as properties:

- `Reconnection`. A timed-out attempt is counted twice, by its timer and by its close, so the client
  gives up early (`duel-connection.ts:1053`, `:1147`; `epics-pvp.md:640`). DUEL_END removes the stored
  token and a rematch does not store it again, so a reload finds none (`:1704`, `:1845`;
  `prd-pvp.md:257`). The token is rotated before the new one is known to have arrived: a socket cut
  in between leaves the player without a valid token (`pvp-connection-handler.ts:406`). 4029 on a
  reconnection drops the only token; after the last attempt no retry is offered (`epics-pvp.md:229`).
- `RoomProtocol`. A rollback of a start tells neither the lobby nor the joiner; the clean-ups
  broadcast nothing; the clean-up of orphaned rooms does nothing when the duel server lists no
  duels; that of rooms stuck in CREATING_DUEL measures from the room's creation; a late answer to a
  kick puts the page back to *waiting*; `sendTo` with `complete = true` would never deliver
  (`RoomEventService.java:187`), and nobody uses it.
- `SolverChannel`. The page gives up, after its grace, a solve that is still running, and the next
  START is refused. The connection limit is tested before the user's own socket is replaced. After
  the idle disconnection an open page can only fail until it is opened again. A RESULT that arrives while
  the page loads goes only to the history. `onopen` resets the retry count, so the branch for
  handtraps that never load cannot be reached.
- `SessionAccess`, `DuelSession`. `rematchRequested` is not swapped with the players: a request sent
  after a surrender over the dice, before the coordinator's timer swaps the seats, counts for the
  opponent. The combined grace is not restarted by a later disconnection.

## Plan

1. `SlotPool` and `SessionLifecycle` themselves: what the two refinements promise, proved of the
   abstract specifications and carried to `ReplayPool` and `DuelSession`.
2. `TurnClock`: the time left in the pools and the increments, which `PromptChannel` abstracts.
3. Negated links and the buffer before an activation in `AnimationQueue`.
4. The composition of `RoomProtocol` with `SessionAccess`: the tokens a room hands out are the ones
   the manager knows.

## Not modelled

- **Search of the solver** (`duel-server/src/solver` but for the orchestrator) and the scripts that
  evaluate it: a heuristic over the external engine, without protocol; what it must compute is not
  stated anywhere but in its own code.
- **Message translation** (`ocg-*`, `message-filter.ts`, transforms): a table from engine messages to
  client messages, without state but the chain, which `AnimationQueue` has.
- **Game log, tape player, drawing of the board** (`front/.../duel-page`): sequential presentation.
- **Ended-session sweeper**: `EndedSessionHasDeadline` shows that it never has anything to collect.
- **Admission control** (rate limits): a counter and a clock per address; where it refuses, the models let it
  refuse or not.
- **Caches** (`replay-cache.ts`, `lru-map.ts`): a hit skips the worker and changes no state of the pool.
- **Decks, cards, users, lobby list, quick duels**: database requests of one step.
- **STATE_SYNC, chat-like broadcasts, heartbeat**: they change no modelled state, or only produce
  the close events the models have anyway.

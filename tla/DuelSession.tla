---------------------------- MODULE DuelSession ----------------------------
(***************************************************************************)
(* The life of one duel session in the main thread of the duel server      *)
(* (duel-server/src): from POST /api/duels to the removal of the session   *)
(* from the session manager, through the handshakes, the pre-duel dice,    *)
(* the duel itself, its end, the rematches and every timer in between.     *)
(*                                                                         *)
(* Node runs one callback at a time, so one action is one whole callback:  *)
(* a WebSocket event, a client message, a worker message, an expired timer *)
(* or the settling of the replay POST.  Everything between two callbacks   *)
(* interleaves: the actions of Next are exactly the callbacks.             *)
(*                                                                         *)
(* Abstracted: message contents, card data, hints, chain state, clock      *)
(* values.  A timer is armed or not; an armed timer may expire at any      *)
(* moment, so durations are not used to exclude an order of expiry.        *)
(***************************************************************************)
EXTENDS Integers, FiniteSets

CONSTANTS
    Mode,       \* "pvp", "solo" (one socket plays both slots) or "fork" (solo from a replay)
    MaxDuels    \* bound: how many duels (first one and rematches) one session plays

ASSUME ModeAssumption  == Mode \in {"pvp", "solo", "fork"}
ASSUME DuelsAssumption == MaxDuels \in Nat \ {0}

Slots    == {0, 1}       \* indices of session.players
Other(p) == 1 - p
Nobody   == 2            \* no slot: no pick yet, or a timer no player object refers to any more
SoloMode == Mode # "pvp"
ForkMode == Mode = "fork"

Phases == {"WAITING_PLAYERS", "ROLLING_DICE", "DICE_RESOLVED",
           "CHOOSE_FIRST_PLAYER", "FIRST_PLAYER_RESOLVED", "DUELING"}

\* The single-slot timers of a session; the per-player ones are in grace and idle.
TimerNames == {"connection", "forkConnection", "animationsReady", "dice", "soloOrphan",
               "rematchTimeout", "combinedGrace", "preservation"}

\* Stages of the worker behind session.worker.  "none": the field is null; "dead":
\* workerTerminated is set; the others are stages of a thread that still runs.
Alive        == {"booting", "forked", "thinking", "waiting", "over", "drained"}
WorkerStages == Alive \cup {"none", "dead"}

VARIABLES
    registered,     \* the session is in activeDuels
    tokens,         \* slots whose initial wsToken is still pending
    phase,          \* session.phase
    started,        \* startedAt # null
    ended,          \* endedAt # null
    connected,      \* players[p].connected
    ready,          \* animationsReady
    awaiting,       \* awaitingResponse
    timers,         \* the single-slot timers that are armed
    grace,          \* armed grace timers <<index its closure captured, slot holding it>>
    idle,           \* armed inactivity timers, same shape; the holder may be Nobody
    bothGone,       \* bothDisconnected
    stored,         \* storedDuelResult # null
    rolled,         \* slots whose dice are on the table (firstPlayerState.rolls)
    pick,           \* winner of the dice, then the chosen first player
    clock, active,  \* timerContext: its state and its activePlayer
    rematch,        \* rematchRequested
    worker,         \* stage of the current worker
    asked, emitted, \* EMIT_REPLAY_DATA posted to it; its one WORKER_REPLAY_DATA sent
    threads,        \* how many worker threads of this session still run
    served,         \* totalDuelsServed
    duel,           \* which duel of the session this is
    override,       \* the duel that last set pendingReplayResult, 0 for null
    persisting      \* duels whose replay POST is in flight

handle  == <<worker, asked, emitted, threads>>
dice    == <<rolled, pick>>
turn    == <<clock, active>>
replay  == <<override, persisting>>
vars    == <<registered, tokens, phase, started, ended, connected, ready, awaiting, timers,
             grace, idle, bothGone, stored, rolled, pick, clock, active, rematch, worker,
             asked, emitted, threads, served, duel, override, persisting>>

TypeOK ==
    /\ registered \in BOOLEAN /\ started \in BOOLEAN /\ ended \in BOOLEAN
    /\ tokens \in SUBSET Slots
    /\ phase \in Phases
    /\ connected \in [Slots -> BOOLEAN] /\ ready \in [Slots -> BOOLEAN]
    /\ awaiting \in [Slots -> BOOLEAN] /\ rematch \in [Slots -> BOOLEAN]
    /\ timers \in SUBSET TimerNames
    /\ grace \in SUBSET (Slots \X Slots)
    /\ idle \in SUBSET (Slots \X (Slots \cup {Nobody}))
    /\ bothGone \in BOOLEAN /\ stored \in BOOLEAN
    /\ rolled \in SUBSET Slots /\ pick \in Slots \cup {Nobody}
    /\ clock \in {"null", "stopped", "pending", "running"} /\ active \in Slots
    /\ worker \in WorkerStages /\ asked \in BOOLEAN /\ emitted \in BOOLEAN
    /\ threads \in Nat /\ served \in Nat
    /\ duel \in 1..MaxDuels /\ override \in 0..MaxDuels
    /\ persisting \in SUBSET (1..MaxDuels)

-----------------------------------------------------------------------------
(* Predicates and small functions shared by the handlers.                  *)

Both(b) == [p \in Slots |-> b]

ReadyToStart(c, r) == IF SoloMode THEN c[0] /\ r[0] ELSE \A p \in Slots : c[p] /\ r[p]
FullyDisconnected(c) == IF SoloMode THEN ~c[0] ELSE \A p \in Slots : ~c[p]

\* Per-player timers: those a player object holds, all but those, one (re)started, all moved
\* along with the player objects when session.players is swapped.
HeldBy(S, p)  == {t \in S : t[2] = p}
Without(S, p) == S \ HeldBy(S, p)
Restarted(S, P) == {t \in S : t[2] \notin P} \cup {<<p, p>> : p \in P}
Graced(S, p)  == IF HeldBy(S, p) = {} THEN S \cup {<<p, p>>} ELSE S
Swapped(S)    == {<<t[1], IF t[2] = Nobody THEN Nobody ELSE Other(t[2])>> : t \in S}

DuelTimers == {"soloOrphan", "animationsReady"}   \* what clearAllDuelTimers disarms by name

\* armAnimationsReadyDeadline, for sockets c and readiness r in phase ph
DeadlineArmed(t, ph, c, r) ==
    (t \ {"animationsReady"}) \cup
        IF ph = "WAITING_PLAYERS" /\ ~ReadyToStart(c, r) THEN {"animationsReady"} ELSE {}

PauseTurnTimer == clock' = IF clock = "running" THEN "stopped" ELSE clock

\* Wrong variants: every call counts a served duel; every call takes a thread down.
StopThreadCounted ==
    threads' = (IF worker \in Alive THEN threads - 1 ELSE threads) /\ served' = served + 1
StopThreadTwice == threads' = threads - 1 /\ UNCHANGED served

\* The part of safeTerminateWorker that counts, guarded by workerTerminated.
StopThread ==
    IF worker \in Alive THEN threads' = threads - 1 /\ served' = served + 1
                        ELSE UNCHANGED <<threads, served>>

SafeTerminateWorker ==
    StopThread /\ worker' = IF worker \in Alive THEN "dead" ELSE worker

\* requestReplayFromWorker
RequestReplay ==
    IF worker \in Alive THEN asked' = TRUE /\ override' = duel
    ELSE UNCHANGED <<asked, override>>

\* handleDuelEnd, with t and i the timers left by the caller
EndDuel(t, i) ==
    /\ ended' = TRUE
    /\ IF ended
       THEN timers' = t /\ idle' = i /\ UNCHANGED turn
       ELSE /\ timers' = (t \ DuelTimers) \cup {"rematchTimeout"}
            /\ idle' = HeldBy(i, Nobody)
            /\ clock' = "null" /\ active' = 0

CleanupDuelSession ==
    /\ registered' = FALSE /\ tokens' = {} /\ ended' = TRUE
    /\ connected' = Both(FALSE)
    /\ timers' = timers \cap {"connection"}
    /\ grace' = {} /\ idle' = HeldBy(idle, Nobody)
    /\ bothGone' = FALSE /\ stored' = FALSE
    /\ rolled' = {} /\ pick' = Nobody
    /\ clock' = "null" /\ active' = 0
    /\ SafeTerminateWorker
    /\ UNCHANGED <<phase, started, ready, awaiting, rematch, asked, emitted, duel,
                   override, persisting>>

-----------------------------------------------------------------------------
(* Starting a duel.                                                        *)

\* startDuelWithOrder; c, t, g, i are the sockets and timers left by the caller
StartDuelWithOrder(first, c, t, g, i) ==
    LET swap == first = 1 IN
    /\ phase' = "DUELING" /\ started' = TRUE
    /\ rolled' = {} /\ pick' = Nobody /\ timers' = t \ {"dice"}
    /\ connected' = IF swap THEN [p \in Slots |-> c[Other(p)]] ELSE c
    /\ grace' = IF swap THEN Swapped(g) ELSE g
    /\ idle' = IF swap THEN Swapped(i) ELSE i
    /\ awaiting' = Both(FALSE)
    /\ worker' = "booting" /\ asked' = FALSE /\ emitted' = FALSE
    /\ threads' = threads + 1

\* startFirstPlayerPhase (also the re-entry after a tie)
StartFirstPlayerPhase(t) ==
    /\ phase' = "ROLLING_DICE"
    /\ rolled' = {} /\ pick' = Nobody
    /\ awaiting' = Both(TRUE)
    /\ timers' = t \cup {"dice"}

\* What a handshake and onAnimationsReady do last: start, resume a fork, or nothing.
Proceed(c, r, t, g, i) ==
    \/ /\ ~ReadyToStart(c, r) \/ (phase # "WAITING_PLAYERS" /\ ~ForkMode)
       /\ connected' = c /\ timers' = t /\ grace' = g /\ idle' = i
       /\ UNCHANGED <<phase, started, rolled, pick, awaiting, handle>>
    \/ /\ ReadyToStart(c, r) /\ phase = "WAITING_PLAYERS" /\ SoloMode
       /\ StartDuelWithOrder(0, c, t, g, i)
    \/ /\ ReadyToStart(c, r) /\ phase = "WAITING_PLAYERS" /\ ~SoloMode
       /\ StartFirstPlayerPhase(t)
       /\ connected' = c /\ grace' = g /\ idle' = i
       /\ UNCHANGED <<started, handle>>
    \/ /\ ReadyToStart(c, r) /\ ForkMode
       /\ connected' = c /\ timers' = t \ {"forkConnection"} /\ grace' = g /\ idle' = i
       /\ worker' = IF worker = "forked" THEN "thinking" ELSE worker    \* FORK_RESUME
       /\ UNCHANGED <<phase, started, rolled, pick, awaiting, asked, emitted, threads>>

-----------------------------------------------------------------------------
(* Init: POST /api/duels, or createForkSoloSession for a fork.             *)

Init ==
    /\ registered = TRUE
    /\ tokens = IF SoloMode THEN {0} ELSE Slots
    /\ phase = IF ForkMode THEN "DUELING" ELSE "WAITING_PLAYERS"
    /\ started = ForkMode /\ ended = FALSE
    /\ connected = Both(FALSE) /\ ready = Both(FALSE)
    /\ awaiting = Both(FALSE) /\ rematch = Both(FALSE)
    /\ timers = IF ForkMode THEN {"forkConnection"} ELSE {"connection"}
    /\ grace = {} /\ idle = {}
    /\ bothGone = FALSE /\ stored = FALSE
    /\ rolled = {} /\ pick = Nobody
    /\ clock = "null" /\ active = 0
    /\ worker = IF ForkMode THEN "forked" ELSE "none"
    /\ asked = FALSE /\ emitted = FALSE
    /\ threads = (IF ForkMode THEN 1 ELSE 0) /\ served = 0
    /\ duel = 1 /\ override = 0 /\ persisting = {}

-----------------------------------------------------------------------------
(* WebSocket events.                                                       *)

\* handlePvpConnection once the token resolved to slot p, except for the reconnection that
\* collects a stored result while the other player is back.
Attach(p, reconnect) ==
    LET c      == [connected EXCEPT ![p] = TRUE]
        resume == reconnect /\ \E q \in Slots : awaiting[q]
        \* SOLO arms the first awaiting slot only
        armed  == {q \in Slots : awaiting[q] /\ (SoloMode /\ q = 1 => ~awaiting[0])}
        rejoin == reconnect /\ bothGone /\ ~stored      \* back within the combined grace
        t      == DeadlineArmed(timers \ {"soloOrphan"}, phase, c, ready)
        g      == IF reconnect THEN Without(grace, p) ELSE grace
    IN
    /\ clock' = IF resume /\ clock # "null" THEN "running" ELSE clock   \* commitPendingTimer
    /\ bothGone' = (bothGone /\ ~rejoin)
    /\ Proceed(c, ready,
               IF rejoin THEN t \ {"combinedGrace"} ELSE t,
               IF rejoin /\ ~c[Other(p)] THEN Graced(g, Other(p)) ELSE g,
               IF resume THEN Restarted(idle, armed) ELSE idle)
    /\ UNCHANGED <<registered, ended, ready, stored, active, rematch, served, duel, replay>>

Connect(p) ==
    /\ registered /\ p \in tokens
    /\ tokens' = tokens \ {p}
    /\ Attach(p, FALSE)

\* The reconnect token may be used while the server still holds the previous socket open:
\* that socket is stale from then on and its close event changes nothing.
\* Wrong variant: a reconnect token outlives its session.
CanReconnectAnyway(p) == p \notin tokens /\ (SoloMode => p = 0)
CanReconnect(p) == registered /\ p \notin tokens /\ (SoloMode => p = 0)

Reconnect(p) ==
    /\ CanReconnect(p) /\ ~(stored /\ connected[Other(p)])
    /\ UNCHANGED tokens
    /\ Attach(p, TRUE)

CollectStoredResult(p) ==
    /\ CanReconnect(p) /\ stored /\ connected[Other(p)]
    /\ CleanupDuelSession

\* ws.on('close') while the duel runs, with startGracePeriod for PvP
CloseLive(p) ==
    LET c == [connected EXCEPT ![p] = FALSE] IN
    /\ connected[p] /\ ~ended
    /\ connected' = c
    /\ PauseTurnTimer
    /\ idle' = Without(idle, p)
    /\ \/ /\ SoloMode
          /\ timers' = timers \cup {"soloOrphan"} /\ UNCHANGED <<grace, bothGone>>
       \/ /\ ~SoloMode /\ FullyDisconnected(c)
          /\ grace' = Without(grace, Other(p))
          /\ bothGone' = TRUE
          /\ timers' = timers \cup {"combinedGrace"}
       \/ /\ ~SoloMode /\ ~FullyDisconnected(c)
          /\ grace' = Graced(grace, p) /\ UNCHANGED <<timers, bothGone>>
    /\ UNCHANGED <<registered, tokens, phase, started, ended, ready, awaiting, stored, dice,
                   active, rematch, handle, served, duel, replay>>

\* ws.on('close') after the end of the duel
CloseEnded(p) ==
    LET c == [connected EXCEPT ![p] = FALSE] IN
    /\ connected[p] /\ ended
    /\ IF ~SoloMode /\ FullyDisconnected(c)
       THEN CleanupDuelSession
       ELSE /\ connected' = c
            /\ UNCHANGED <<registered, tokens, phase, started, ended, ready, awaiting, timers,
                           grace, idle, bothGone, stored, dice, turn, rematch, handle, served,
                           duel, replay>>

\* DELETE /api/duels/:duelId
DeleteDuel == registered /\ CleanupDuelSession

-----------------------------------------------------------------------------
(* Timers of the session.                                                  *)

\* The expiry of timer n, when its callback finds its condition false.
Spent(n) ==
    /\ timers' = timers \ {n}
    /\ UNCHANGED <<registered, tokens, phase, started, ended, connected, ready, awaiting, grace,
                   idle, bothGone, stored, dice, turn, rematch, handle, served, duel, replay>>

\* Wrong variant: the callback does nothing.
ConnectionTimeoutIgnored == "connection" \in timers /\ Spent("connection")

\* H17
ConnectionTimeout ==
    /\ "connection" \in timers
    /\ IF registered /\ FullyDisconnected(connected) /\ ~started
       THEN CleanupDuelSession ELSE Spent("connection")

\* Wrong variant: the callback does nothing.
ForkConnectionTimeoutIgnored == "forkConnection" \in timers /\ Spent("forkConnection")

ForkConnectionTimeout ==
    /\ "forkConnection" \in timers
    /\ IF FullyDisconnected(connected) THEN CleanupDuelSession ELSE Spent("forkConnection")

AnimationsReadyTimeout ==
    /\ "animationsReady" \in timers
    /\ IF registered /\ phase = "WAITING_PLAYERS" /\ ~ReadyToStart(connected, ready)
       THEN CleanupDuelSession ELSE Spent("animationsReady")

SoloOrphanTimeout ==
    /\ "soloOrphan" \in timers
    /\ IF ended \/ ~FullyDisconnected(connected)
       THEN Spent("soloOrphan")
       ELSE /\ RequestReplay
            /\ EndDuel(timers \ {"soloOrphan"}, idle)
            /\ UNCHANGED <<registered, tokens, phase, started, connected, ready, awaiting, grace,
                           bothGone, stored, dice, rematch, worker, emitted, threads, served,
                           duel, persisting>>

\* The single-player grace timer t = <<captured index, holder>>: the callback tests the
\* player that sits at the captured index when it fires.
GraceTimeout(t) ==
    /\ t \in grace
    /\ grace' = grace \ {t}
    /\ IF ~connected[t[1]] /\ ~ended
       THEN EndDuel(timers, idle) /\ RequestReplay
       ELSE UNCHANGED <<ended, timers, idle, turn, asked, override>>
    /\ UNCHANGED <<registered, tokens, phase, started, connected, ready, awaiting, bothGone,
                   stored, dice, rematch, worker, emitted, threads, served, duel, persisting>>

CombinedGraceTimeout ==
    /\ "combinedGrace" \in timers
    /\ IF FullyDisconnected(connected) /\ ~ended
       THEN /\ stored' = TRUE
            /\ EndDuel((timers \ {"combinedGrace"}) \cup {"preservation"}, idle)
            /\ RequestReplay
            /\ UNCHANGED <<registered, tokens, phase, started, connected, ready, awaiting, grace,
                           bothGone, dice, rematch, worker, emitted, threads, served, duel,
                           persisting>>
       ELSE Spent("combinedGrace")

PreservationTimeout == "preservation" \in timers /\ CleanupDuelSession

\* Wrong variant: the expiry is announced, the session stays.
RematchTimeoutIgnored == "rematchTimeout" \in timers /\ Spent("rematchTimeout")

RematchTimeout == "rematchTimeout" \in timers /\ CleanupDuelSession

\* The 250 ms tick that empties the active pool.
TurnTimeout ==
    /\ clock = "running"
    /\ awaiting' = [awaiting EXCEPT ![active] = FALSE]
    /\ EndDuel(timers, idle)
    /\ RequestReplay
    /\ UNCHANGED <<registered, tokens, phase, started, connected, ready, grace, bothGone, stored,
                   dice, rematch, worker, emitted, threads, served, duel, persisting>>

\* ANIMATIONS_DONE never came: the parked clock starts on its own.
PendingTimeout ==
    /\ clock = "pending" /\ clock' = "running"
    /\ UNCHANGED <<registered, tokens, phase, started, ended, connected, ready, awaiting, timers,
                   grace, idle, bothGone, stored, dice, active, rematch, handle, served, duel,
                   replay>>

\* An inactivity timer fires: the slot of its captured index loses whatever timer it held,
\* then a live duel either moves on to the next stage or is forfeited.
IdleTimeout(t) ==
    LET left == {IF u[2] = t[1] THEN <<u[1], Nobody>> ELSE u : u \in idle \ {t}} IN
    /\ t \in idle
    /\ \/ /\ idle' = IF ended THEN left ELSE left \cup {<<t[1], t[1]>>}
          /\ UNCHANGED <<ended, awaiting, timers, turn, asked, override>>
       \/ /\ ~ended
          /\ awaiting' = [awaiting EXCEPT ![t[1]] = FALSE]
          /\ EndDuel(timers, left)
          /\ RequestReplay
    /\ UNCHANGED <<registered, tokens, phase, started, connected, ready, grace, bothGone, stored,
                   dice, rematch, worker, emitted, threads, served, duel, persisting>>

-----------------------------------------------------------------------------
(* The pre-duel dice.  At most one coordinator timer is armed; phase and   *)
(* rolled tell what it will do.  None of its callbacks tests endedAt.      *)

\* Wrong variant: a tie arms no reroll.
ResolveDiceRoundOnce(t) ==
    /\ rolled' = Slots
    /\ \/ timers' = t /\ UNCHANGED <<phase, pick>>
       \/ /\ timers' = t \cup {"dice"} /\ phase' = "DICE_RESOLVED"
          /\ pick' \in Slots

\* resolveDiceRound once both rolls are there: a tie waits for the reroll, a winner for the
\* promotion.  The cap on consecutive ties only turns a tie into a random winner.
ResolveDiceRound(t) ==
    /\ rolled' = Slots /\ timers' = t \cup {"dice"}
    /\ \/ UNCHANGED <<phase, pick>>
       \/ \E winner \in Slots : phase' = "DICE_RESOLVED" /\ pick' = winner

AutoFillStalledRolls ==
    /\ "dice" \in timers /\ phase = "ROLLING_DICE" /\ rolled # Slots
    /\ awaiting' = [p \in Slots |-> awaiting[p] /\ p \in rolled]
    /\ ResolveDiceRound(timers \ {"dice"})
    /\ UNCHANGED <<registered, tokens, started, ended, connected, ready, grace, idle, bothGone,
                   stored, turn, rematch, handle, served, duel, replay>>

TieReroll ==
    /\ "dice" \in timers /\ phase = "ROLLING_DICE" /\ rolled = Slots
    /\ StartFirstPlayerPhase(timers)
    /\ UNCHANGED <<registered, tokens, started, ended, connected, ready, grace, idle, bothGone,
                   stored, turn, rematch, handle, served, duel, replay>>

PromoteToChooseFirstPlayer ==
    /\ "dice" \in timers /\ phase = "DICE_RESOLVED"
    /\ phase' = "CHOOSE_FIRST_PLAYER"
    /\ awaiting' = [p \in Slots |-> p = pick]
    /\ UNCHANGED <<registered, tokens, started, ended, connected, ready, timers, grace, idle,
                   bothGone, stored, dice, turn, rematch, handle, served, duel, replay>>

\* broadcastFinalAndBridge, for the chosen first player
BroadcastFinalAndBridge(first) ==
    /\ phase' = "FIRST_PLAYER_RESOLVED" /\ pick' = first
    /\ timers' = timers \cup {"dice"}
    /\ UNCHANGED <<registered, tokens, started, ended, connected, ready, grace, idle, bothGone,
                   stored, rolled, turn, rematch, handle, served, duel, replay>>

\* Wrong variant: the callback finds nothing to do.
FirstPlayerTimeoutIgnored ==
    "dice" \in timers /\ phase = "CHOOSE_FIRST_PLAYER" /\ Spent("dice")

\* The silent winner goes first; its awaitingResponse stays set.
FirstPlayerTimeout ==
    /\ "dice" \in timers /\ phase = "CHOOSE_FIRST_PLAYER"
    /\ BroadcastFinalAndBridge(pick) /\ UNCHANGED awaiting

BannerElapsed ==
    /\ "dice" \in timers /\ phase = "FIRST_PLAYER_RESOLVED"
    /\ StartDuelWithOrder(pick, connected, timers, grace, idle)
    /\ UNCHANGED <<registered, tokens, ended, ready, bothGone, stored, turn, rematch, served,
                   duel, replay>>

-----------------------------------------------------------------------------
(* Client messages.  In SOLO the one socket speaks for either slot.        *)

Sender(p) == connected[IF SoloMode THEN 0 ELSE p]

\* PLAYER_RESPONSE to DICE_ROLL and to SELECT_FIRST_PLAYER (handlePreDuelResponse)
RollDice(p) ==
    /\ Sender(p) /\ awaiting[p] /\ phase = "ROLLING_DICE" /\ p \notin rolled
    /\ awaiting' = [awaiting EXCEPT ![p] = FALSE]
    /\ IF rolled \cup {p} = Slots
       THEN ResolveDiceRound(timers \ {"dice"})
       ELSE rolled' = rolled \cup {p} /\ UNCHANGED <<timers, phase, pick>>
    /\ UNCHANGED <<registered, tokens, started, ended, connected, ready, grace, idle, bothGone,
                   stored, turn, rematch, handle, served, duel, replay>>

ChooseFirstPlayer(p) ==
    /\ Sender(p) /\ awaiting[p] /\ phase = "CHOOSE_FIRST_PLAYER"
    /\ awaiting' = [awaiting EXCEPT ![p] = FALSE]
    /\ \E first \in Slots : BroadcastFinalAndBridge(first)

\* A valid PLAYER_RESPONSE to a prompt of the duel (or to the first-player prompt that timed
\* out).  A parked clock is left parked.
PlayerResponse(p) ==
    /\ Sender(p) /\ awaiting[p] /\ phase \in {"DUELING", "FIRST_PLAYER_RESOLVED"}
    /\ awaiting' = [awaiting EXCEPT ![p] = FALSE]
    /\ PauseTurnTimer
    /\ idle' = Without(idle, p)
    /\ worker' = IF ~ended /\ worker = "waiting" THEN "thinking" ELSE worker
    /\ UNCHANGED <<registered, tokens, phase, started, ended, connected, ready, timers, grace,
                   bothGone, stored, dice, active, rematch, asked, emitted, threads, served,
                   duel, replay>>

\* handleDuelEnd then requestReplayFromWorker: the fifth invalid response, or SURRENDER,
\* which is accepted in every phase.
Forfeit ==
    /\ EndDuel(timers, idle)
    /\ RequestReplay
    /\ UNCHANGED <<registered, tokens, phase, started, connected, ready, awaiting, grace, bothGone,
                   stored, dice, rematch, emitted, threads, served, duel, persisting>>

TooManyInvalidResponses(p) ==
    /\ Sender(p) /\ awaiting[p] /\ phase \in {"DUELING", "FIRST_PLAYER_RESOLVED"}
    /\ Forfeit /\ UNCHANGED worker

Surrender(p) == Sender(p) /\ Forfeit /\ UNCHANGED worker

\* Wrong variant: the gate of the previous duel is still open.
ReadyForRematchKept == ready

\* animationsReady after resetSessionForRematch
ReadyForRematch == Both(FALSE)

\* startRematch with resetSessionForRematch
StartRematch ==
    /\ duel < MaxDuels /\ duel' = duel + 1
    /\ StopThread
    /\ worker' = "none" /\ asked' = FALSE /\ emitted' = FALSE
    /\ phase' = "WAITING_PLAYERS" /\ started' = TRUE /\ ended' = FALSE
    /\ awaiting' = Both(FALSE) /\ ready' = ReadyForRematch /\ rematch' = Both(FALSE)
    /\ bothGone' = FALSE /\ stored' = FALSE
    /\ rolled' = {} /\ pick' = Nobody
    /\ grace' = {} /\ idle' = HeldBy(idle, Nobody)
    /\ clock' = "null" /\ active' = 0
    /\ timers' = DeadlineArmed(timers \ (DuelTimers \cup {"rematchTimeout", "dice"}),
                               "WAITING_PLAYERS", connected, ReadyForRematch)
    /\ UNCHANGED <<registered, tokens, connected, replay>>

RematchRequest(p) ==
    /\ Sender(p) /\ ended /\ ~ForkMode
    /\ IF SoloMode \/ rematch[Other(p)]
       THEN StartRematch
       ELSE /\ rematch' = [rematch EXCEPT ![p] = TRUE]
            /\ UNCHANGED <<registered, tokens, phase, started, ended, connected, ready, awaiting,
                           timers, grace, idle, bothGone, stored, dice, turn, handle, served,
                           duel, replay>>

ActivityPing(p) ==
    /\ Sender(p) /\ awaiting[p]
    /\ idle' = Restarted(idle, {p})
    /\ UNCHANGED <<registered, tokens, phase, started, ended, connected, ready, awaiting, timers,
                   grace, bothGone, stored, dice, turn, rematch, handle, served, duel, replay>>

AnimationsDone(p) ==
    /\ Sender(p) /\ clock = "pending" /\ active = p
    /\ clock' = "running"
    /\ UNCHANGED <<registered, tokens, phase, started, ended, connected, ready, awaiting, timers,
                   grace, idle, bothGone, stored, dice, active, rematch, handle, served, duel,
                   replay>>

AnimationsReady(p) ==
    LET r == [ready EXCEPT ![p] = TRUE] IN
    /\ Sender(p) /\ ~ready[p]
    /\ ready' = r
    /\ Proceed(connected, r,
               IF ReadyToStart(connected, r)
               THEN timers \ {"forkConnection", "animationsReady"} ELSE timers,
               grace, idle)
    /\ UNCHANGED <<registered, tokens, ended, bothGone, stored, turn, rematch, served, duel,
                   replay>>

-----------------------------------------------------------------------------
(* Worker messages.  A thread whose listeners were removed is silent.      *)

\* WORKER_DUEL_CREATED; only PvP gets a turn clock.  endedAt is not tested.
DuelCreated ==
    /\ worker = "booting" /\ worker' = "thinking"
    /\ started' = TRUE
    /\ clock' = (IF SoloMode THEN "null" ELSE "stopped") /\ active' = 0
    /\ UNCHANGED <<registered, tokens, phase, ended, connected, ready, awaiting, timers, grace,
                   idle, bothGone, stored, dice, rematch, asked, emitted, threads, served, duel,
                   replay>>

\* A SELECT_* broadcast, or WORKER_RETRY below the strike limit: armResponseTimers
Prompt(p) ==
    /\ worker = "thinking" /\ worker' = "waiting"
    /\ awaiting' = [awaiting EXCEPT ![p] = TRUE]
    /\ IF clock = "null" THEN UNCHANGED turn ELSE clock' = "pending" /\ active' = p
    /\ idle' = Restarted(idle, {p})
    /\ UNCHANGED <<registered, tokens, phase, started, ended, connected, ready, timers, grace,
                   bothGone, stored, dice, rematch, asked, emitted, threads, served, duel,
                   replay>>

\* WORKER_RETRY at the strike limit
RetryLimit == worker = "thinking" /\ worker' = "waiting" /\ Forfeit

\* BOARD_STATE with a new turn count: a running clock goes on for the turn player, a parked
\* one is parked for the turn player.
TurnChange(p) ==
    /\ worker \in {"thinking", "waiting"} /\ clock # "null"
    /\ active' = p
    /\ UNCHANGED <<registered, tokens, phase, started, ended, connected, ready, awaiting, timers,
                   grace, idle, bothGone, stored, dice, clock, rematch, handle, served, duel,
                   replay>>

MsgWin ==
    /\ worker = "thinking" /\ worker' = "over"
    /\ EndDuel(timers, idle)
    /\ UNCHANGED <<registered, tokens, phase, started, connected, ready, awaiting, grace, bothGone,
                   stored, dice, rematch, asked, emitted, threads, served, duel, replay>>

\* emitReplayData runs once per worker: at the end of the duel, or on EMIT_REPLAY_DATA, which is
\* read only when the engine loop yields.
CanEmitReplay ==
    ~emitted /\ (worker = "over" \/ (asked /\ worker \in {"booting", "forked", "waiting"}))

\* WORKER_REPLAY_DATA; a worker that is still booting answers and goes on booting.
ReplayData ==
    /\ CanEmitReplay /\ emitted' = TRUE
    /\ IF ForkMode
       THEN SafeTerminateWorker /\ UNCHANGED replay
       ELSE /\ worker' = IF worker = "booting" THEN "booting" ELSE "drained"
            /\ override' = 0 /\ persisting' = persisting \cup {duel}
            /\ UNCHANGED <<threads, served>>
    /\ UNCHANGED <<registered, tokens, phase, started, ended, connected, ready, awaiting, timers,
                   grace, idle, bothGone, stored, dice, turn, rematch, asked, duel>>

WorkerError ==
    /\ worker \in {"booting", "thinking"}
    /\ EndDuel(timers, idle)
    /\ SafeTerminateWorker
    /\ UNCHANGED <<registered, tokens, phase, started, connected, ready, awaiting, grace, bothGone,
                   stored, dice, rematch, asked, emitted, duel, replay>>

\* The exit handler: workerTerminated set and counted, once.
ExitCounted ==
    /\ worker \in Alive
    /\ SafeTerminateWorker
    /\ UNCHANGED <<registered, tokens, phase, started, ended, connected, ready, awaiting, timers,
                   grace, idle, bothGone, stored, dice, turn, rematch, asked, emitted, duel,
                   replay>>

\* Wrong variant: the session outlives its worker whenever it exits.
WorkerExitKept == ExitCounted

\* The thread exits by itself: the session survives only if the duel has ended.
WorkerExit == (ended /\ ExitCounted) \/ (~ended /\ worker \in Alive /\ CleanupDuelSession)

\* persistReplay settled, however it went: its finally terminates the worker the session has
\* by then.
PersistSettled(d) ==
    /\ d \in persisting /\ persisting' = persisting \ {d}
    /\ SafeTerminateWorker
    /\ UNCHANGED <<registered, tokens, phase, started, ended, connected, ready, awaiting, timers,
                   grace, idle, bothGone, stored, dice, turn, rematch, asked, emitted, duel,
                   override>>

-----------------------------------------------------------------------------
Sockets ==
    \/ \E p \in Slots : Connect(p) \/ Reconnect(p) \/ CollectStoredResult(p)
                        \/ CloseLive(p) \/ CloseEnded(p)
    \/ DeleteDuel

Expiry ==
    \/ ConnectionTimeout \/ ForkConnectionTimeout \/ AnimationsReadyTimeout \/ SoloOrphanTimeout
    \/ CombinedGraceTimeout \/ PreservationTimeout \/ RematchTimeout
    \/ TurnTimeout \/ PendingTimeout
    \/ \E t \in grace : GraceTimeout(t)
    \/ \E t \in idle : IdleTimeout(t)

DiceTimer ==
    AutoFillStalledRolls \/ TieReroll \/ PromoteToChooseFirstPlayer \/ FirstPlayerTimeout
    \/ BannerElapsed

ClientMessage ==
    \E p \in Slots :
        \/ RollDice(p) \/ ChooseFirstPlayer(p) \/ PlayerResponse(p) \/ TooManyInvalidResponses(p)
        \/ Surrender(p) \/ RematchRequest(p) \/ ActivityPing(p) \/ AnimationsDone(p)
        \/ AnimationsReady(p)

WorkerMessage ==
    \/ DuelCreated \/ RetryLimit \/ MsgWin \/ ReplayData \/ WorkerError \/ WorkerExit
    \/ \E p \in Slots : Prompt(p) \/ TurnChange(p)
    \/ \E d \in persisting : PersistSettled(d)

Next == Sockets \/ Expiry \/ DiceTimer \/ ClientMessage \/ WorkerMessage

Spec == Init /\ [][Next]_vars

\* Node fires a timer that stays armed.  Only the timers that are never re-armed while armed are
\* assumed fair, so that a client that keeps postponing a deadline is not contradicted.
Fairness ==
    /\ WF_vars(ConnectionTimeout) /\ WF_vars(ForkConnectionTimeout)
    /\ WF_vars(SoloOrphanTimeout) /\ WF_vars(CombinedGraceTimeout) /\ WF_vars(RematchTimeout)
    /\ WF_vars(PromoteToChooseFirstPlayer) /\ WF_vars(FirstPlayerTimeout)
    /\ WF_vars(BannerElapsed)

FairSpec == Spec /\ Fairness

-----------------------------------------------------------------------------
(* Safety.                                                                 *)

\* A session that left the manager is inert: nothing that could still call back into it (a
\* socket, a timer other than the one-shot connection check, a running worker) is left, so no
\* late event can revive it (cleanupDuelSession).
GoneIsQuiet ==
    ~registered =>
        /\ ended /\ tokens = {}
        /\ connected = Both(FALSE)
        /\ timers \subseteq {"connection"} /\ grace = {} /\ clock = "null"
        /\ worker \notin Alive

\* An ended session still in the manager always has its rematch expiry armed, whichever of the
\* competing ends came first; the sweeper that looks for ended sessions left behind
\* (ended-session-sweeper.ts) never finds one.
EndedSessionHasDeadline ==
    registered /\ ended => "rematchTimeout" \in timers

\* A live session nobody is connected to has a timer armed that will end it: the leak every
\* audit note of the close handlers is about.
AbandonedSessionHasDeadline ==
    registered /\ ~ended /\ FullyDisconnected(connected) =>
        \/ timers \cap {"soloOrphan", "combinedGrace", "forkConnection"} # {}
        \/ "connection" \in timers /\ ~started

\* At most one thread per duel, none forgotten when the worker field is overwritten, and none
\* counted twice in totalDuelsServed (safeTerminateWorker against the exit handler).
WorkerAccounting ==
    /\ threads = IF worker \in Alive THEN 1 ELSE 0
    /\ threads + served <= duel

\* The dice flow cannot stall: in each of its phases the coordinator has a timer armed that
\* moves it on, and it has none in any other phase.
DicePhaseHasTimer ==
    registered => ("dice" \in timers <=> phase \notin {"WAITING_PLAYERS", "DUELING"})

\* No session waits behind an open gate: whichever of the handshake, ANIMATIONS_READY and the
\* rematch comes last, it starts the duel.
GateNeverWedges ==
    registered /\ phase = "WAITING_PLAYERS" => ~ReadyToStart(connected, ready)

\* While its duel is live, a session has a running worker: worker-lifecycle.ts:58-60 promises a
\* full cleanup when it is lost.  It holds in the first duel of a session; in a rematch the
\* finally of the previous replay POST may terminate the new worker.
LiveDuelHasWorker ==
    registered /\ ~ended /\ phase = "DUELING" => worker \in Alive

-----------------------------------------------------------------------------
(* The inductive invariant behind the safety properties.                   *)

\* A solo session never rolls dice, and its one socket takes slot 0; a fork never waits.
ModeFits ==
    /\ SoloMode => phase \in {"WAITING_PLAYERS", "DUELING"} /\ tokens \subseteq {0}
    /\ ForkMode => phase = "DUELING"

\* There is no worker before the duel starts, and while there is none, this duel has not been
\* served: startDuelWithOrder never overwrites a running worker.
WorkerComesWithDuel ==
    /\ phase # "DUELING" => worker = "none"
    /\ worker = "none" => served < duel

\* The connection check counts as a deadline only until somebody came: the gate that starts the
\* duel cannot have opened before.
AbandonedBeforeStart ==
    registered /\ ~ended /\ FullyDisconnected(connected) =>
        \/ timers \cap {"soloOrphan", "combinedGrace", "forkConnection"} # {}
        \/ "connection" \in timers /\ ~started /\ phase = "WAITING_PLAYERS"

\* What every step of the session preserves.
Inv ==
    /\ TypeOK /\ ModeFits /\ WorkerComesWithDuel
    /\ GoneIsQuiet /\ EndedSessionHasDeadline /\ AbandonedBeforeStart
    /\ WorkerAccounting /\ DicePhaseHasTimer /\ GateNeverWedges

-----------------------------------------------------------------------------
(* Liveness, under FairSpec.                                               *)

\* A session everybody has left for good is released, with its worker thread.
AbandonedIsReleased ==
    <>[]FullyDisconnected(connected) => <>(~registered /\ threads = 0)

\* Once the dice have a winner the worker gets spawned, or the session is released or rematched,
\* even if both players stay silent.
DiceWinnerStartsDuel ==
    phase = "DICE_RESOLVED" ~> phase = "DUELING" \/ ~registered \/ phase = "WAITING_PLAYERS"

-----------------------------------------------------------------------------
(* The session implements SessionLifecycle.                                *)

Status ==
    CASE ~registered                                   -> "gone"
      [] registered /\ ended                           -> "ended"
      [] registered /\ ~ended /\ phase = "DUELING"     -> "duel"
      [] registered /\ ~ended /\ phase # "DUELING"     -> "preDuel"

Thread ==
    IF worker = "none" THEN "unborn" ELSE IF worker \in Alive THEN "running" ELSE "done"

Lifecycle == INSTANCE SessionLifecycle WITH status <- Status, round <- duel, thread <- Thread

\* The whole session is a refinement of the lifecycle its users rely on.
ImplementsLifecycle == Lifecycle!LSpec

=============================================================================

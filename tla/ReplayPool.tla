----------------------------- MODULE ReplayPool -----------------------------
(***************************************************************************)
(* The replay connections of the duel server and their bounded pool of     *)
(* worker threads (duel-server/src/replay-handlers.ts).  A connection gets *)
(* a worker that pre-computes its replay; it may then ask for a fork, whose *)
(* worker either fails, is handed over to a new solo session, or is parked *)
(* while the player decides what to do about a divergence.  Starts beyond  *)
(* the limit of the pool wait in a queue.                                  *)
(*                                                                         *)
(* One action is one callback of the main thread.  A start that is taken   *)
(* from the queue runs inside the release that frees its slot, before the  *)
(* releasing handler continues; the handlers are therefore written as      *)
(* compositions of functions on the state of the module.                   *)
(*                                                                         *)
(* Abstracted: payloads, the fetch of the replay before the connection is  *)
(* registered, and the cache of computed replays.                          *)
(***************************************************************************)
EXTENDS Integers, Sequences, FiniteSets

CONSTANTS
    Conns,      \* the WebSocket connections
    MaxJobs,    \* bound: worker starts requested, replays and forks together
    MaxWorkers, \* maxReplayWorkers
    Fork,       \* when clients send REPLAY_FORK: "never", "shown" (part of the replay is on
                \* the screen, as the viewer does) or "any"
    Crashing    \* the kinds of worker that may exit by themselves

ASSUME JobsAssumption == MaxJobs \in Nat \ {0}
ASSUME WorkersAssumption == MaxWorkers \in Nat \ {0}
ASSUME ForkAssumption == Fork \in {"never", "shown", "any"}
ASSUME CrashingAssumption == Crashing \subseteq {"replay", "fork"}

Jobs == 1..MaxJobs      \* one job is one start closure, and the worker it spawns
NoJob == 0
NoConn == "no connection"
Kinds == {"replay", "fork"}

States == {"none", "loading", "ready", "fork_pending", "fork_warning", "transitioning", "closed"}
\* A worker is dead when its slot was released with it, lost when it crashed and nobody did.
Stages == {"unused", "queued", "running", "parked", "session", "dead", "lost"}

VARIABLES
    pool,       \* the module's state, a record; see TypeOK
    listening,  \* connections whose socket events still reach the module
    down        \* cleanupAllReplayState has run

vars == <<pool, listening, down>>

TypeOK ==
    /\ pool \in [count   : 0..MaxWorkers,               \* replayWorkerCount
                 queue   : Seq(Jobs),                   \* replayQueue
                 owner   : [Jobs -> Conns \cup {NoConn}],   \* who requested each job
                 kind    : [Jobs -> Kinds],
                 stage   : [Jobs -> Stages],
                 state   : [Conns -> States],           \* conn.state
                 worker  : [Conns -> Jobs \cup {NoJob}],    \* conn.worker
                 pending : [Conns -> Jobs \cup {NoJob}],    \* pendingForkWorkers
                 timer   : [Conns -> Jobs \cup {NoJob}],    \* conn.watchdogTimer
                 armed   : SUBSET Jobs,                 \* workers whose watchdog will fire
                 active  : SUBSET Conns]                \* activeReplayConnections
    /\ listening \subseteq Conns /\ down \in BOOLEAN

-----------------------------------------------------------------------------
(* The pool: slots, queue, teardown.  Each operator maps a state to the    *)
(* state after the call.                                                   *)

ClearWatchdog(s, c) == [s EXCEPT !.armed = @ \ {s.timer[c]}, !.timer[c] = NoJob]

ArmWatchdog(s, c, j) ==
    [s EXCEPT !.armed = (@ \ {s.timer[c]}) \cup {j}, !.timer[c] = j]

\* createReplayWorker and createForkWorker: both overwrite conn.worker and the watchdog.
Spawn(s, j) ==
    ArmWatchdog([s EXCEPT !.stage[j] = "running", !.worker[s.owner[j]] = j], s.owner[j], j)

\* tryStartReplayWorker
TryStart(s, j) ==
    IF s.count < MaxWorkers
    THEN Spawn([s EXCEPT !.count = @ + 1], j)
    ELSE [s EXCEPT !.queue = Append(@, j), !.stage[j] = "queued"]

\* Wrong variant: the freed slot is not offered to the queue.
WorkerDoneNoQueue(s) == [s EXCEPT !.count = @ - 1]

\* onReplayWorkerDone
WorkerDone(s) ==
    IF s.queue = <<>> THEN [s EXCEPT !.count = @ - 1]
    ELSE Spawn([s EXCEPT !.queue = Tail(@)], Head(s.queue))

Kill(s, j) == [s EXCEPT !.stage[j] = "dead"]

\* releaseWorker
Release(s, j) == WorkerDone(Kill(s, j))

\* The handlers that release a worker and then null their pointer.
ReleaseAndForget(s, c, j) == [Release(s, j) EXCEPT !.worker[c] = NoJob]

\* Terminates the parked fork of c, if any.
ReleasePending(s, c) ==
    IF s.pending[c] = NoJob THEN s
    ELSE [Release(s, s.pending[c]) EXCEPT !.pending[c] = NoJob]

\* cleanupReplayConnection
Cleanup(s, c) ==
    LET s1 == ClearWatchdog([s EXCEPT !.state[c] = "closed"], c)
        s2 == IF s1.worker[c] = NoJob THEN s1 ELSE ReleaseAndForget(s1, c, s1.worker[c])
    IN  [ReleasePending(s2, c) EXCEPT !.active = @ \ {c}]

\* Wrong variant: the slot stays with the worker that left the pool.
TransitionKeepsSlot(s, c, j) ==
    Cleanup([s EXCEPT !.stage[j] = "session", !.worker[c] = NoJob], c)

\* transitionForkToSolo: the worker goes on in its session, only the slot comes back.
Transition(s, c, j) ==
    Cleanup(WorkerDone([s EXCEPT !.stage[j] = "session", !.worker[c] = NoJob]), c)

-----------------------------------------------------------------------------
Init ==
    /\ pool = [count |-> 0, queue |-> <<>>, stage |-> [j \in Jobs |-> "unused"],
               owner |-> [j \in Jobs |-> NoConn], kind |-> [j \in Jobs |-> "replay"],
               state |-> [c \in Conns |-> "none"],
               worker |-> [c \in Conns |-> NoJob], pending |-> [c \in Conns |-> NoJob],
               timer |-> [c \in Conns |-> NoJob], armed |-> {}, active |-> {}]
    /\ listening = {} /\ down = FALSE

\* Requests are numbered in their order.
IsNextJob(j) == pool.stage[j] = "unused" /\ \A i \in 1..(j - 1) : pool.stage[i] # "unused"

Requested(s, j, c, k) == [s EXCEPT !.owner[j] = c, !.kind[j] = k]

-----------------------------------------------------------------------------
(* Client events.                                                          *)

\* handleReplayConnection, once the replay is fetched and the socket still open
Connect(c, j) ==
    /\ ~down /\ pool.state[c] = "none"
    /\ IsNextJob(j)
    /\ pool' = TryStart(Requested([pool EXCEPT !.state[c] = "loading", !.active = @ \cup {c}],
                                  j, c, "replay"), j)
    /\ listening' = listening \cup {c} /\ UNCHANGED down

\* Whether the client of c may ask for a fork now: the page offers one at an entry of the stream
\* it has received, so its replay worker streams or is done.
MayFork(c) ==
    \/ Fork = "any"
    \/ Fork = "shown" /\ \A j \in Jobs : pool.owner[j] = c => pool.stage[j] # "queued"

\* handleReplayFork: the worker of the connection is replaced in place, keeping its slot
ReplayFork(c, j) ==
    LET had == pool.worker[c]
        s0  == Requested(pool, j, c, "fork")
        s1  == IF had = NoJob THEN s0 ELSE [Kill(s0, had) EXCEPT !.worker[c] = NoJob]
        s2  == [ReleasePending(s1, c) EXCEPT !.state[c] = "fork_pending"]
    IN
    /\ MayFork(c) /\ c \in listening /\ pool.state[c] \in {"loading", "ready"}
    /\ IsNextJob(j)
    /\ pool' = IF had = NoJob THEN TryStart(s2, j) ELSE Spawn(s2, j)
    /\ UNCHANGED <<listening, down>>

ForkContinue(c) ==
    /\ c \in listening /\ pool.state[c] = "fork_warning" /\ pool.pending[c] # NoJob
    /\ pool' = Transition([pool EXCEPT !.pending[c] = NoJob, !.state[c] = "transitioning"],
                          c, pool.pending[c])
    /\ listening' = listening \ {c} /\ UNCHANGED down

ForkCancel(c) ==
    /\ c \in listening /\ pool.state[c] = "fork_warning" /\ pool.pending[c] # NoJob
    /\ pool' = [ReleasePending(pool, c) EXCEPT !.state[c] = "ready"]
    /\ UNCHANGED <<listening, down>>

\* ws.on('close'), or ws.on('error') with the close still to come
SocketEvent(c, more) ==
    /\ c \in listening
    /\ pool' = Cleanup(pool, c)
    /\ listening' = IF more THEN listening ELSE listening \ {c}
    /\ UNCHANGED down

-----------------------------------------------------------------------------
(* Messages of the workers.  Listeners are attached while a worker runs.   *)

Running(j, k) == pool.stage[j] = "running" /\ pool.kind[j] = k

StreamChunk(j) ==
    /\ Running(j, "replay")
    /\ pool' = ArmWatchdog(pool, pool.owner[j], j)
    /\ UNCHANGED <<listening, down>>

ReplayComplete(j) ==
    LET c == pool.owner[j] IN
    /\ Running(j, "replay")
    /\ pool' = ReleaseAndForget(ClearWatchdog([pool EXCEPT !.state[c] = "ready"], c), c, j)
    /\ UNCHANGED <<listening, down>>

ReplayError(j) ==
    /\ Running(j, "replay")
    /\ pool' = ReleaseAndForget(ClearWatchdog(pool, pool.owner[j]), pool.owner[j], j)
    /\ UNCHANGED <<listening, down>>

\* WORKER_FORK_READY with a matching sanity check
ForkReady(j) ==
    LET c == pool.owner[j] IN
    /\ Running(j, "fork")
    /\ pool' = Transition([ClearWatchdog(pool, c) EXCEPT !.state[c] = "transitioning"], c, j)
    /\ listening' = listening \ {c} /\ UNCHANGED down

\* WORKER_FORK_READY with a divergence: the worker is parked
ForkDiverged(j) ==
    LET c == pool.owner[j] IN
    /\ Running(j, "fork")
    /\ pool' = [ClearWatchdog(pool, c) EXCEPT
                   !.state[c] = "fork_warning", !.pending[c] = j, !.worker[c] = NoJob,
                   !.stage[j] = "parked"]
    /\ UNCHANGED <<listening, down>>

ForkError(j) ==
    LET c == pool.owner[j] IN
    /\ Running(j, "fork")
    /\ pool' = [ReleaseAndForget(ClearWatchdog(pool, c), c, j) EXCEPT !.state[c] = "ready"]
    /\ UNCHANGED <<listening, down>>

\* The exit handler of a worker that died by itself.
Exit(j) ==
    LET c == pool.owner[j] IN
    /\ pool.stage[j] \in {"running", "parked"} /\ pool.kind[j] \in Crashing
    /\ pool' = IF pool.worker[c] = j
               THEN Release([pool EXCEPT !.worker[c] = NoJob], j)
               ELSE IF pool.kind[j] = "fork" /\ pool.pending[c] = j
               THEN Release([pool EXCEPT !.pending[c] = NoJob, !.state[c] = "ready"], j)
               ELSE [pool EXCEPT !.stage[j] = "lost"]
    /\ UNCHANGED <<listening, down>>

-----------------------------------------------------------------------------
(* Watchdogs and shutdown.                                                 *)

ReplayWatchdog(j) ==
    /\ j \in pool.armed /\ pool.kind[j] = "replay"
    /\ pool' = [Cleanup(pool, pool.owner[j]) EXCEPT !.armed = @ \ {j}]
    /\ UNCHANGED <<listening, down>>

\* The callback releases the worker it closed over and nulls the field without clearing it.
ForkWatchdog(j) ==
    LET c == pool.owner[j] IN
    /\ j \in pool.armed /\ pool.kind[j] = "fork"
    /\ pool' = [ReleaseAndForget([pool EXCEPT !.armed = @ \ {j}], c, j)
                   EXCEPT !.timer[c] = NoJob, !.state[c] = "ready"]
    /\ UNCHANGED <<listening, down>>

\* cleanupAllReplayState, which empties the queue before it releases anything
Shutdown ==
    LET held == ({pool.worker[c] : c \in pool.active} \cup {pool.pending[c] : c \in Conns})
                    \ {NoJob}
    IN
    /\ ~down /\ down' = TRUE
    /\ pool' = [pool EXCEPT
                   !.queue = <<>>, !.count = @ - Cardinality(held),
                   !.stage = [j \in Jobs |-> IF j \in held THEN "dead"
                                             ELSE IF @[j] = "queued" THEN "lost" ELSE @[j]],
                   !.state = [c \in Conns |-> IF c \in pool.active THEN "closed" ELSE @[c]],
                   !.worker = [c \in Conns |-> IF c \in pool.active THEN NoJob ELSE @[c]],
                   !.pending = [c \in Conns |-> NoJob],
                   !.armed = @ \ {pool.timer[c] : c \in pool.active},
                   !.timer = [c \in Conns |-> IF c \in pool.active THEN NoJob ELSE @[c]],
                   !.active = {}]
    /\ UNCHANGED listening

Client ==
    \E c \in Conns :
        \/ \E j \in Jobs : Connect(c, j) \/ ReplayFork(c, j)
        \/ ForkContinue(c) \/ ForkCancel(c)
        \/ \E more \in BOOLEAN : SocketEvent(c, more)

Worker(j) ==
    \/ StreamChunk(j) \/ ReplayComplete(j) \/ ReplayError(j)
    \/ ForkReady(j) \/ ForkDiverged(j) \/ ForkError(j) \/ Exit(j)

Next ==
    \/ Client \/ Shutdown
    \/ \E j \in Jobs : Worker(j) \/ ReplayWatchdog(j) \/ ForkWatchdog(j)

Spec == Init /\ [][Next]_vars

\* An armed watchdog fires unless it is cleared; nothing is assumed of the workers.
Fairness == \A j \in Jobs : WF_vars(ReplayWatchdog(j)) /\ WF_vars(ForkWatchdog(j))

FairSpec == Spec /\ Fairness

-----------------------------------------------------------------------------
(* Properties.                                                             *)

Holders == {j \in Jobs : pool.stage[j] \in {"running", "parked"}}

\* The pool cap (MAX_REPLAY_WORKERS): never more live replay and fork workers than slots.  The code
\* does not keep it: TLC refutes it, and SlotsAccounted, when Pool.cfg lets fork workers crash
\* (Crashing = {"replay", "fork"}), for the exit handler and the watchdog both release the slot.
PoolBounded == Cardinality(Holders) <= MaxWorkers

\* replayWorkerCount is exactly the number of workers that hold a slot: none is released twice
\* and none is kept by a worker that is gone (the audit note above releaseWorker).
SlotsAccounted == pool.count = Cardinality(Holders)

\* The pool is a first-come first-served counting semaphore.
Slotted == INSTANCE SlotPool WITH Slots <- MaxWorkers, running <- Holders, waiting <- pool.queue
ImplementsSlotPool == Slotted!PSpec

\* Every start that waits gets a slot, even if no worker ever reports, for the watchdogs free the
\* slots; only forks parked at a player's question may hold them all.
AllParked ==
    Cardinality(Holders) = MaxWorkers /\ \A j \in Holders : pool.stage[j] = "parked"
QueueIsServed ==
    \A j \in Jobs : pool.stage[j] = "queued" ~> pool.stage[j] # "queued" \/ AllParked

=============================================================================

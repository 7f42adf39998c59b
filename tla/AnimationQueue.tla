--------------------------- MODULE AnimationQueue ---------------------------
(***************************************************************************)
(* The animation queue of the duel page: the messages of a duel are queued *)
(* as they arrive (DuelEventProcessor) and an asynchronous loop plays them *)
(* one at a time (QueueRunner). While a chain resolves, board events are   *)
(* buffered (ChainResolutionManager); when a link is solved the overlay    *)
(* holds, has the buffer replayed through the queue and gives the queue    *)
(* its turn back. A resync of the server resets all of it at any moment.   *)
(*                                                                         *)
(* JavaScript is one thread, but every await is a place where the others   *)
(* run. An action is the code between two awaits. Microtasks (a loop that  *)
(* resumes) and Angular effects (dirty) run, in any order, before the next *)
(* macrotask: a timer or a message of the socket, guarded by Quiet.        *)
(***************************************************************************)
EXTENDS Integers, Sequences, SequencesExt, FiniteSets

CONSTANTS
    MaxLinks,     \* bound: links of a chain
    MaxChainings, \* bound: links of a behaviour, over all its chains
    MaxEvents,    \* bound: board events of a behaviour
    MaxSyncs,     \* bound: resyncs of a behaviour
    Draws,        \* the events that are MSG_DRAW
    Stragglers,   \* whether the engine may emit board events between two links
    RescueCeiling \* RESCUE_NO_PROGRESS_CEILING

ASSUME QueueAssumption ==
    /\ {MaxLinks, MaxChainings, MaxEvents, MaxSyncs, RescueCeiling} \subseteq Nat
    /\ Draws \subseteq 1 .. MaxEvents
    /\ Stragglers \in BOOLEAN

VARIABLES
    server,   \* the duel server: its chain, what it has sent, and whether the socket is up
    proc,     \* DuelEventProcessor: the queue and the chain as received
    runner,   \* QueueRunner: lifecycle flags, and the loops that have not returned
    chain,    \* ChainResolutionManager, with the orchestrator's _isReplayingBuffer
    draw,     \* DrawSequenceManager: draws in flight
    overlay,  \* the chain overlay: its link resolutions
    dirty,    \* the effects whose signals have changed since they last ran
    parked,   \* a STATE_SYNC waits for its CHAIN_STATE (the stateSyncFlush timer)
    log,      \* history since the last reset: board events received, and played
    races     \* history: which of the known races of a reset have happened

vars == <<server, proc, runner, chain, draw, overlay, dirty, parked, log, races>>

NoLink == -1
Phases == {"idle", "building", "resolving"}
\* Where a loop is: about to take a turn, in one of its awaits, or returned with its finally due.
Places == {"tick", "hold", "flash", "settle", "travel", "group", "landing", "draws", "pre", "show",
           "exit"}

Entry(kind, of) == [kind |-> kind, of |-> of]
Kinds == {"chaining", "solving", "solved", "end", "event",
          "group", "barrier", "batch-end", "await-signal", "announcement"}

ServerInit ==
    [phase |-> "idle", links |-> 0, unsolved |-> 0, solving |-> NoLink,
     chainings |-> 0, events |-> 0, syncs |-> 0, up |-> TRUE]
ChainInit ==
    [solved |-> 0, waiting |-> FALSE, draining |-> FALSE, buffer |-> <<>>, deferred |-> NoLink,
     announcing |-> FALSE, ready |-> TRUE, replaying |-> FALSE]
Received(ls, ph) ==
    [queue |-> <<>>, links |-> ls, phase |-> ph, pending |-> {}, gen |-> 0, ends |-> 0]
Fresh == [got |-> <<>>, played |-> <<>>]

Init ==
    /\ server = ServerInit
    /\ proc = Received({}, "idle")
    /\ runner = [running |-> FALSE, processing |-> FALSE, epoch |-> 0, loops |-> {},
                 rescues |-> 0, lastLen |-> -1, armed |-> FALSE]
    /\ chain = ChainInit
    /\ draw = [busy |-> FALSE, sequences |-> 0]
    /\ overlay = [prev |-> {}, resolutions |-> {}, inFlight |-> FALSE, current |-> 0]
    /\ dirty = {}
    /\ parked = FALSE
    /\ log = Fresh
    /\ races = {}

-----------------------------------------------------------------------------
(* Scheduling. *)

Micro(l) == l.pc \in {"tick", "exit"}

\* No microtask and no effect is due: the browser takes its next macrotask.
Quiet ==
    /\ dirty = {}
    /\ \A l \in runner.loops : ~Micro(l)
    /\ ~(runner.armed /\ chain.ready)

\* The effects that a step wakes: a signal notifies when its value changes. A queue that empties
\* and an overlay that is no longer ready wake nobody who would do anything.
Wakes ==
    {e \in {"queue", "links", "ready"} :
        CASE e = "queue" -> proc'.queue # proc.queue /\ proc'.queue # <<>>
          [] e = "links" -> <<proc'.links, proc'.phase>> # <<proc.links, proc.phase>>
          [] e = "ready" -> chain'.ready /\ ~chain.ready}

\* A step of the page that leaves the server alone.
Local == dirty' = dirty \cup Wakes /\ UNCHANGED <<server, parked, races>>

\* A running loop of the current AbortController; the others have been aborted.
Live(l) == l.ep = runner.epoch

-----------------------------------------------------------------------------
(* QueueRunner: the start of a loop. *)

\* The smallest positive number that is not in use.
Unused(ids) == CHOOSE n \in 1 .. Cardinality(ids) + 1 : n \notin ids

\* processAnimationQueue past its guards: the loop starts.
Started(r) ==
    IF r.processing THEN r
    ELSE [r EXCEPT !.running = TRUE, !.processing = TRUE,
                   !.loops = @ \cup {[id |-> Unused({l.id : l \in @}), ep |-> r.epoch,
                                     pc |-> "tick", rest |-> <<>>]}]

\* The bug of 2026-05: a runner that is running is left alone, though its loop has returned.
NotifyEnqueueIdle(r) == IF r.running THEN r ELSE Started(r)

NotifyEnqueue(r) == Started(r)
ProcessQueue(r) == IF r.running THEN Started(r) ELSE r

Moved(l, m) == [runner EXCEPT !.loops = (@ \ {l}) \cup {m}]
At(l, pc) == Moved(l, [l EXCEPT !.pc = pc])

-----------------------------------------------------------------------------
(* One turn of the loop: decideNextStep, then the step up to its await. *)

HeadIs(kind) == proc.queue # <<>> /\ Head(proc.queue).kind = kind

\* The bug of 2026-06: the buffer is drained only when the queue is empty.
DrainsWhenEmpty == proc.phase = "resolving" /\ chain.buffer # <<>> /\ proc.queue = <<>>

\* The buffer is drained before the END that would drop it, or when nothing is left to play.
Drains ==
    /\ proc.phase = "resolving" /\ chain.buffer # <<>>
    /\ proc.queue = <<>> \/ HeadIs("end")

DecideNextStep ==
    CASE chain.waiting \/ draw.busy -> "pause-external"
      [] OTHER ->
            IF chain.deferred # NoLink
            THEN IF HeadIs("announcement") THEN "dequeue" ELSE "consume-deferred"
            ELSE IF Drains THEN "pre-replay-buffer"
            ELSE IF proc.queue # <<>> THEN "dequeue" ELSE "finalize"

Turn(l, action) ==
    /\ l.pc = "tick" /\ Live(l) /\ runner.running
    /\ DecideNextStep = action

\* The top of the loop: stopped, or aborted by a reset.
Bail(l) ==
    /\ l.pc = "tick"
    /\ ~Live(l) \/ ~runner.running
    /\ runner' = At(l, "exit")
    /\ UNCHANGED <<proc, chain, draw, overlay, log>> /\ Local

PauseExternal(l) ==
    /\ Turn(l, "pause-external")
    /\ runner' = At(l, "exit")
    /\ UNCHANGED <<proc, chain, draw, overlay, log>> /\ Local

\* Nothing left: _isProcessing is given back before _isRunning.
Finalize(l) ==
    /\ Turn(l, "finalize")
    /\ runner' = [At(l, "exit") EXCEPT !.processing = FALSE, !.running = FALSE]
    /\ UNCHANGED <<proc, chain, draw, overlay, log>> /\ Local

\* The buffer becomes a batch at the head of the queue: a group, a barrier and its end.
Batch(id) ==
    <<Entry("group", chain.buffer), Entry("barrier", <<>>), Entry("batch-end", <<id>>)>>

\* replayBuffer(true), from inside the loop.
PreReplayBuffer(l) ==
    /\ Turn(l, "pre-replay-buffer")
    /\ proc' = [proc EXCEPT !.queue = Batch(0) \o @]
    /\ chain' = [chain EXCEPT !.buffer = <<>>, !.draining = TRUE, !.replaying = TRUE,
                              !.waiting = FALSE]
    /\ UNCHANGED <<runner, draw, overlay, log>> /\ Local

\* MSG_CHAIN_SOLVING of link x, with q left in the queue. The first one of a chain of several
\* links is put off behind the banner.
HandleSolving(l, x, q) ==
    /\ IF chain.solved = 0 /\ x > 0 /\ ~chain.announcing
       THEN /\ chain' = [chain EXCEPT !.deferred = x]
            /\ proc' = [proc EXCEPT !.queue = <<Entry("announcement", <<>>)>> \o q]
            /\ UNCHANGED runner
       ELSE /\ chain' = [chain EXCEPT !.announcing = FALSE, !.buffer = <<>>, !.deferred = NoLink]
            /\ proc' = [proc EXCEPT !.queue = q, !.phase = "resolving"]
            /\ runner' = At(l, IF chain.solved = 0 /\ x = 0 THEN "tick" ELSE "hold")
    /\ UNCHANGED <<draw, overlay, log>> /\ Local

ConsumeDeferred(l) ==
    /\ Turn(l, "consume-deferred")
    /\ HandleSolving(l, chain.deferred, proc.queue)

Dequeue(l, kind) == Turn(l, "dequeue") /\ Head(proc.queue).kind = kind
Rest == [proc EXCEPT !.queue = Tail(@)]
Subject == Head(proc.queue).of[1]

\* The activation flash: the travel of a card on the board, a plain hold elsewhere.
DispatchChaining(l) ==
    /\ Dequeue(l, "chaining")
    /\ proc' = Rest
    /\ \E pc \in {"flash", "hold"} : runner' = At(l, pc)
    /\ UNCHANGED <<chain, draw, overlay, log>> /\ Local

DispatchSolving(l) == Dequeue(l, "solving") /\ HandleSolving(l, Subject, Tail(proc.queue))

\* MSG_CHAIN_SOLVED: the queue waits for the overlay, unless no link was dropped.
DispatchSolved(l) ==
    /\ Dequeue(l, "solved")
    /\ LET left == {k \in proc.links : ~(k.idx = Subject /\ k.gen = proc.ends)}
           dropped == left # proc.links
       IN /\ proc' = [Rest EXCEPT !.links = left]
          /\ chain' = [chain EXCEPT !.solved = @ + 1, !.waiting = dropped]
          /\ runner' = At(l, IF dropped THEN "exit" ELSE "tick")
    /\ UNCHANGED <<draw, overlay, log>> /\ Local

\* MSG_CHAIN_END: the links of the generation it closes go, and the manager is reset.
DispatchEnd(l) ==
    /\ Dequeue(l, "end")
    /\ LET left == {k \in proc.links : k.gen > proc.ends}
       IN proc' = [Rest EXCEPT !.ends = @ + 1, !.links = left,
                               !.phase = IF left # {} THEN "building" ELSE "idle"]
    /\ chain' = [ChainInit EXCEPT !.replaying = chain.replaying]
    /\ runner' = At(l, "settle")
    /\ UNCHANGED <<draw, overlay, log>> /\ Local

ShouldBuffer == ~chain.replaying /\ proc.phase = "resolving" /\ ~chain.draining

\* processEvent of a board event: buffered, or played; a draw is then in flight.
ProcessEvent(e) ==
    IF ShouldBuffer
    THEN /\ chain' = [chain EXCEPT !.buffer = Append(@, e)]
         /\ UNCHANGED <<draw, log>>
    ELSE /\ log' = [log EXCEPT !.played = Append(@, e)]
         /\ draw' = IF e \in Draws THEN [busy |-> TRUE, sequences |-> draw.sequences + 1] ELSE draw
         /\ UNCHANGED chain

DispatchEvent(l) ==
    /\ Dequeue(l, "event")
    /\ proc' = Rest
    /\ ProcessEvent(Subject)
    /\ runner' = At(l, IF ShouldBuffer THEN "tick" ELSE IF Subject \in Draws THEN "exit" ELSE "travel")
    /\ UNCHANGED overlay /\ Local

\* The events of a group start one after the other, then the group waits for its travels.
GroupStep(l, events) ==
    /\ ProcessEvent(Head(events))
    /\ runner' = Moved(l, [l EXCEPT !.pc = IF Len(events) > 1 THEN "group" ELSE "landing",
                                    !.rest = Tail(events)])

DispatchGroup(l) ==
    /\ Dequeue(l, "group")
    /\ proc' = Rest
    /\ GroupStep(l, Head(proc.queue).of)
    /\ UNCHANGED overlay /\ Local

\* awaitDrawsComplete.
DispatchBarrier(l) ==
    /\ Dequeue(l, "barrier")
    /\ proc' = Rest
    /\ runner' = At(l, IF draw.busy THEN "draws" ELSE "tick")
    /\ UNCHANGED <<chain, draw, overlay, log>> /\ Local

\* The resolution whose promise resolves goes on to its impact pause, or ends if aborted.
Replayed(r) ==
    IF r.aborted
    THEN [overlay EXCEPT !.resolutions = @ \ {r}, !.inFlight = FALSE]
    ELSE [overlay EXCEPT !.resolutions = (@ \ {r}) \cup {[r EXCEPT !.at = "impact"]}]

Cleanup == [chain EXCEPT !.draining = FALSE, !.replaying = FALSE]

DispatchBatchEnd(l) ==
    /\ Dequeue(l, "batch-end")
    /\ proc' = Rest
    /\ chain' = Cleanup
    /\ LET waiting == {r \in overlay.resolutions : r.id = Subject}
       IN overlay' = IF waiting = {} THEN overlay
                     ELSE Replayed(CHOOSE r \in waiting : TRUE)
    /\ UNCHANGED <<runner, draw, log>> /\ Local

\* installAwaitSignal: the loop returns, and an effect waits for chainOverlayReady.
DispatchAwaitSignal(l) ==
    /\ Dequeue(l, "await-signal")
    /\ proc' = Rest
    /\ runner' = IF chain.ready THEN runner ELSE [At(l, "exit") EXCEPT !.armed = TRUE]
    /\ UNCHANGED <<chain, draw, overlay, log>> /\ Local

\* The banner of a chain of several links starts with a silent pause.
DispatchAnnouncement(l) ==
    /\ Dequeue(l, "announcement")
    /\ proc' = Rest
    /\ runner' = At(l, "pre")
    /\ UNCHANGED <<chain, draw, overlay, log>> /\ Local

Dispatch(l) ==
    \/ DispatchChaining(l) \/ DispatchSolving(l) \/ DispatchSolved(l) \/ DispatchEnd(l)
    \/ DispatchEvent(l) \/ DispatchGroup(l) \/ DispatchBarrier(l) \/ DispatchBatchEnd(l)
    \/ DispatchAwaitSignal(l) \/ DispatchAnnouncement(l)

-----------------------------------------------------------------------------
(* The end of an await, and of a loop. *)

\* The pulse of a SOLVING and the flash of a CHAINING outlast the impact pause (300 ms) that was
\* running when they began; the settling of an END (100 ms) does not.
StepEnds(l) ==
    /\ Quiet
    /\ \/ l.pc \in {"travel", "landing", "show", "settle"}
       \/ /\ l.pc \in {"hold", "flash"}
          /\ \A r \in overlay.resolutions : r.at # "impact"
    /\ runner' = At(l, "tick")
    /\ UNCHANGED <<proc, chain, draw, overlay, log>> /\ Local

GroupStagger(l) ==
    /\ Quiet
    /\ l.pc = "group"
    /\ GroupStep(l, l.rest)
    /\ UNCHANGED <<proc, overlay>> /\ Local

BannerShows(l) ==
    /\ Quiet
    /\ l.pc = "pre"
    /\ chain' = [chain EXCEPT !.announcing = TRUE]
    /\ runner' = At(l, "show")
    /\ UNCHANGED <<proc, draw, overlay, log>> /\ Local

\* A draw sequence ends: the barrier that waits for it goes on, or the queue is resumed.
DrawsDone ==
    /\ Quiet
    /\ draw.sequences > 0
    /\ draw' = [busy |-> FALSE, sequences |-> draw.sequences - 1]
    /\ LET waiters == {l \in runner.loops : l.pc = "draws"}
       IN runner' = IF waiters = {} THEN NotifyEnqueue(runner)
                    ELSE [runner EXCEPT !.loops = (@ \ waiters)
                            \cup {[l EXCEPT !.pc = "tick"] : l \in waiters}]
    /\ UNCHANGED <<proc, chain, overlay, log>> /\ Local

Without(r, l) == [r EXCEPT !.loops = @ \ {l}]

\* The finally of processAnimationQueue: a queue that is not empty is rescued, unless somebody
\* owns the resume or the rescues make no progress.
Returned(l) ==
    LET len == Len(proc.queue)
        count == IF len >= runner.lastLen /\ runner.lastLen # -1 THEN runner.rescues + 1 ELSE 0
        freed == [Without(runner, l) EXCEPT !.processing = FALSE]
    IN IF len = 0 \/ (count > RescueCeiling /\ ~chain.waiting /\ ~draw.busy)
       THEN [freed EXCEPT !.rescues = 0, !.lastLen = -1]
       ELSE IF chain.waiting \/ draw.busy THEN freed
       ELSE NotifyEnqueue([freed EXCEPT !.rescues = count, !.lastLen = len])

\* A finally that does not look whether a reset has put a fresh loop in its place.
FinallyNeverInert(l) ==
    /\ l.pc = "exit"
    /\ runner' = Returned(l)
    /\ UNCHANGED <<proc, chain, draw, overlay, log>> /\ Local

Finally(l) ==
    /\ l.pc = "exit"
    /\ runner' = IF Live(l) THEN Returned(l) ELSE Without(runner, l)
    /\ UNCHANGED <<proc, chain, draw, overlay, log>> /\ Local

-----------------------------------------------------------------------------
(* Effects. *)

Ran(e) == dirty' = (dirty \ {e}) \cup Wakes /\ UNCHANGED <<server, parked, races>>

\* The page watches the queue.
QueueEffect ==
    /\ "queue" \in dirty
    /\ runner' = IF proc.queue # <<>> THEN NotifyEnqueue(runner) ELSE runner
    /\ UNCHANGED <<proc, chain, draw, overlay, log>> /\ Ran("queue")

\* initResumeEffect: chainOverlayReady has come.
ResumeEffect ==
    /\ "ready" \in dirty
    /\ LET resumes == chain.ready /\ chain.waiting
       IN /\ chain' = IF resumes THEN [chain EXCEPT !.waiting = FALSE] ELSE chain
          /\ runner' = IF resumes /\ runner.running THEN NotifyEnqueue(runner) ELSE runner
    /\ UNCHANGED <<proc, draw, overlay, log>> /\ Ran("ready")

\* The effect installed by an await-signal.
AwaitEffect ==
    /\ runner.armed /\ chain.ready
    /\ runner' = ProcessQueue([runner EXCEPT !.armed = FALSE])
    /\ UNCHANGED <<proc, chain, draw, overlay, log>> /\ Local

\* onChainEnd: the current resolution is aborted; only one that waits for a replay lives on.
ChainEnded(ov) ==
    LET hit == {r \in ov.resolutions : r.id = ov.current}
        kept == {[r EXCEPT !.aborted = TRUE] : r \in {q \in hit : q.at = "replay"}}
    IN [ov EXCEPT !.resolutions = (@ \ hit) \cup kept, !.inFlight = FALSE, !.current = 0]

\* onChainLinkResolved, unless blocked by a resolution in flight: it begins with a hold.
NewResolution(ov) ==
    LET id == Unused({r.id : r \in ov.resolutions})
    IN [ov EXCEPT !.resolutions = @ \cup {[id |-> id, at |-> "hold", aborted |-> FALSE]},
                  !.inFlight = TRUE, !.current = id]

\* Effect A of the overlay, on the links and the phase: it compares the numbers of links.
LinksEffect ==
    /\ "links" \in dirty
    /\ LET seen == [overlay EXCEPT !.prev = proc.links]
           fewer == Cardinality(proc.links) < Cardinality(overlay.prev)
           resolves == proc.phase = "resolving" /\ fewer /\ ~overlay.inFlight
       IN /\ overlay' = IF proc.phase = "idle" /\ proc.links = {} THEN ChainEnded(seen)
                        ELSE IF resolves THEN NewResolution(seen) ELSE seen
          /\ chain' = IF resolves THEN [chain EXCEPT !.ready = FALSE] ELSE chain
    /\ UNCHANGED <<proc, runner, draw, log>> /\ Ran("links")

-----------------------------------------------------------------------------
(* The overlay's resolution of a link. *)

\* Its end: the queue gets its turn back.
Finished(r) ==
    /\ overlay' = [overlay EXCEPT !.resolutions = @ \ {r}, !.inFlight = FALSE,
                                  !.current = IF @ = r.id THEN 0 ELSE @]
    /\ chain' = [chain EXCEPT !.ready = TRUE]

\* The hold and the fade are over: replayBuffer(), if there is something to replay.
HoldEnds(r) ==
    /\ Quiet /\ r.at = "hold"
    /\ IF chain.buffer = <<>>
       THEN Finished(r) /\ UNCHANGED <<proc, runner>>
       ELSE /\ proc' = [proc EXCEPT
                    !.queue = Batch(r.id) \o <<Entry("await-signal", <<>>)>> \o @]
            /\ chain' = [chain EXCEPT !.buffer = <<>>, !.draining = TRUE, !.waiting = FALSE]
            /\ overlay' = [overlay EXCEPT
                    !.resolutions = (@ \ {r}) \cup {[r EXCEPT !.at = "replay"]}]
            /\ runner' = NotifyEnqueue(runner)
    /\ UNCHANGED <<draw, log>> /\ Local

ImpactEnds(r) ==
    /\ Quiet /\ r.at = "impact"
    /\ Finished(r)
    /\ UNCHANGED <<proc, runner, draw, log>> /\ Local

\* The safety timer of replayBuffer, which no reset clears, fires for a batch whose end has been
\* dropped by a reset: its cleanup falls on whatever the page is doing by then.
SafetyFires(r) ==
    /\ Quiet /\ r.at = "replay"
    /\ \A j \in DOMAIN proc.queue : proc.queue[j] # Entry("batch-end", <<r.id>>)
    /\ chain' = Cleanup
    /\ overlay' = Replayed(r)
    /\ races' = races \cup {"late safety timer"}
    /\ UNCHANGED <<server, proc, runner, draw, parked, log>>
    /\ dirty' = dirty \cup Wakes

-----------------------------------------------------------------------------
(* The server sends a message: processMessage, when the socket is up. *)

Committed == [proc EXCEPT !.links = @ \cup proc.pending, !.pending = {}]

Receive(p, got) ==
    /\ Quiet
    /\ proc' = IF server.up THEN p ELSE proc
    /\ log' = IF server.up THEN [log EXCEPT !.got = @ \o got] ELSE log
    /\ UNCHANGED <<runner, chain, draw, overlay, parked, races>>
    /\ dirty' = dirty \cup Wakes

SendChaining ==
    /\ server.phase # "resolving" /\ server.links < MaxLinks
    /\ server.chainings < MaxChainings
    /\ server' = [server EXCEPT !.phase = "building", !.links = @ + 1, !.unsolved = @ + 1,
                                !.chainings = @ + 1]
    /\ Receive([Committed EXCEPT
                    !.phase = IF @ = "idle" THEN "building" ELSE @,
                    !.pending = {[idx |-> server.links, gen |-> proc.gen]},
                    !.queue = Append(@, Entry("chaining", <<server.links>>))], <<>>)

\* SELECT_*, ANNOUNCE_*, SORT_* or WAITING_RESPONSE.
SendPrompt ==
    /\ proc.pending # {} /\ server.up
    /\ UNCHANGED server
    /\ Receive(Committed, <<>>)

SendSolving ==
    /\ server.unsolved > 0 /\ server.solving = NoLink
    /\ server' = [server EXCEPT !.phase = "resolving", !.solving = server.unsolved - 1]
    /\ Receive([Committed EXCEPT !.queue = Append(@, Entry("solving", <<server.unsolved - 1>>))],
               <<>>)

SendSolved ==
    /\ server.solving # NoLink
    /\ server' = [server EXCEPT !.solving = NoLink, !.unsolved = @ - 1]
    /\ Receive([proc EXCEPT !.queue = Append(@, Entry("solved", <<server.solving>>))], <<>>)

SendEnd ==
    /\ server.phase = "resolving" /\ server.unsolved = 0
    /\ server' = [server EXCEPT !.phase = "idle", !.links = 0]
    /\ Receive([Committed EXCEPT !.gen = @ + 1, !.queue = Append(@, Entry("end", <<>>))], <<>>)

SendEvent ==
    /\ server.events < MaxEvents
    /\ \/ Stragglers \/ server.phase # "resolving"
       \/ server.solving # NoLink \/ server.unsolved = 0
    /\ server' = [server EXCEPT !.events = @ + 1]
    /\ Receive([proc EXCEPT !.queue = Append(@, Entry("event", <<server.events + 1>>))],
               <<server.events + 1>>)

-----------------------------------------------------------------------------
(* Resync: a reconnection, or a tab that becomes visible again. *)

\* requestStop: the timer of a hold is cleared, so its loop never resumes; the other awaits end
\* at once, except the travel of a card.
Interrupted(loops) ==
    LET aborted(l) == IF l.pc \in {"group", "draws", "pre", "show"}
                      THEN [l EXCEPT !.pc = "tick", !.rest = <<>>] ELSE l
    IN {aborted(l) : l \in {k \in loops : k.pc \notin {"hold", "settle"}}}

\* _applyStateSync, onStateSync, and restoreChainState with the links ls of the server.
ResetPage(ls, ph) ==
    /\ proc' = Received(ls, ph)
    /\ runner' = [running |-> FALSE, processing |-> FALSE, epoch |-> runner.epoch + 1,
                  loops |-> Interrupted(runner.loops), rescues |-> 0, lastLen |-> -1,
                  armed |-> FALSE]
    /\ chain' = ChainInit
    /\ draw' = [draw EXCEPT !.busy = FALSE]
    /\ log' = Fresh
    /\ races' = (races \cap {"late safety timer"})
                \cup (IF ph # "idle" /\ (overlay.inFlight \/ Cardinality(ls) < Cardinality(overlay.prev))
                      THEN {"orphan resolution"} ELSE {})
                \cup (IF ph # server.phase THEN {"late flush"} ELSE {})
    /\ dirty' = dirty \cup Wakes \cup {"links"}
    /\ UNCHANGED overlay

Disconnect ==
    /\ Quiet /\ server.up /\ server.syncs < MaxSyncs
    /\ server' = [server EXCEPT !.up = FALSE]
    /\ UNCHANGED <<proc, runner, chain, draw, overlay, dirty, parked, log, races>>

\* sendStateSnapshot: STATE_SYNC alone is parked, CHAIN_STATE applies it with the server's links,
\* of which a solved one is still one.
Resync ==
    /\ Quiet /\ server.syncs < MaxSyncs
    /\ server' = [server EXCEPT !.syncs = @ + 1, !.up = TRUE]
    /\ IF server.links > 0
       THEN /\ ResetPage({[idx |-> n, gen |-> 0] : n \in 0 .. server.links - 1}, server.phase)
            /\ parked' = FALSE
       ELSE /\ parked' = TRUE
            /\ IF parked THEN ResetPage({}, "idle")
               ELSE UNCHANGED <<proc, runner, chain, draw, overlay, dirty, log, races>>

FlushStateSync ==
    /\ Quiet /\ parked
    /\ parked' = FALSE
    /\ ResetPage({}, "idle")
    /\ UNCHANGED server

-----------------------------------------------------------------------------
(* Specification. *)

LoopStep(l) ==
    \/ Bail(l) \/ PauseExternal(l) \/ Finalize(l) \/ PreReplayBuffer(l) \/ ConsumeDeferred(l)
    \/ Dispatch(l) \/ StepEnds(l) \/ GroupStagger(l) \/ BannerShows(l) \/ Finally(l)

OverlayStep == \E r \in overlay.resolutions : HoldEnds(r) \/ ImpactEnds(r) \/ SafetyFires(r)

PageStep ==
    \/ \E l \in runner.loops : LoopStep(l)
    \/ QueueEffect \/ ResumeEffect \/ AwaitEffect \/ LinksEffect
    \/ OverlayStep \/ DrawsDone \/ FlushStateSync

ServerStep ==
    \/ SendChaining \/ SendPrompt \/ SendSolving \/ SendSolved \/ SendEnd \/ SendEvent
    \/ Disconnect \/ Resync

Next == PageStep \/ ServerStep

Spec == Init /\ [][Next]_vars

\* The browser runs what is due, and its timers fire. The server owes nothing.
FairSpec == Spec /\ WF_vars(PageStep)

-----------------------------------------------------------------------------
(* Properties. *)

\* The entries of the queue: a link, an event or a resolution, the events of a group, or nothing.
Entries ==
    {e \in [kind : Kinds, of : Seq(Nat)] :
        /\ e.kind \in {"chaining", "solving", "solved", "event", "batch-end"} => Len(e.of) = 1
        /\ e.kind = "group" => e.of # <<>>}
Keys == [idx : Nat, gen : Nat]
Stages == {"hold", "replay", "impact"}

ServerType ==
    [phase : Phases, links : Nat, unsolved : Nat, solving : Nat \cup {NoLink}, chainings : Nat,
     events : Nat, syncs : Nat, up : BOOLEAN]
ProcType ==
    [queue : Seq(Entries), links : SUBSET Keys, phase : Phases, pending : SUBSET Keys, gen : Nat,
     ends : Nat]
ChainType ==
    [solved : Nat, waiting : BOOLEAN, draining : BOOLEAN, buffer : Seq(Nat),
     deferred : Nat \cup {NoLink}, announcing : BOOLEAN, ready : BOOLEAN, replaying : BOOLEAN]
OverlayType ==
    [prev : SUBSET Keys, inFlight : BOOLEAN, current : Nat,
     resolutions : SUBSET [id : Nat \ {0}, at : Stages, aborted : BOOLEAN]]

\* The state of the server, the page and the overlay, typed.
QueueTypeOK ==
    /\ server \in ServerType /\ proc \in ProcType /\ chain \in ChainType /\ overlay \in OverlayType
    /\ runner.running \in BOOLEAN /\ runner.processing \in BOOLEAN /\ runner.armed \in BOOLEAN
    /\ \A l \in runner.loops : l.pc \in Places /\ l.ep \in 0 .. runner.epoch /\ l.rest \in Seq(Nat)
    /\ draw \in [busy : BOOLEAN, sequences : Nat]
    /\ IsFiniteSet(proc.links \cup proc.pending) /\ IsFiniteSet(overlay.resolutions)
    /\ dirty \subseteq {"queue", "links", "ready"} /\ parked \in BOOLEAN
    /\ log \in [got : Seq(Nat), played : Seq(Nat)]

\* However the timers, the effects, the messages and a resync interleave with its awaits, the
\* queue is played by one loop at a time: of the loops that no reset has aborted there is at most
\* one, the returned one whose finally is due included, and while it plays the mutex is taken.
\* (the assertion of _processAnimationQueueInner, and the reason it gives)
OneLoop ==
    \A k, l \in runner.loops :
        Live(k) /\ Live(l) => k = l /\ (l.pc # "exit" => runner.processing)

\* The board events of an entry of the queue, and those of the group being played.
EventsIn(e) == IF e.kind \in {"event", "group"} THEN e.of ELSE <<>>
InHand ==
    LET groups == {l \in runner.loops : l.rest # <<>>}
    IN IF groups = {} THEN <<>> ELSE (CHOOSE l \in groups : TRUE).rest

\* Where the events are, in the order in which they are to be played.
Pieces ==
    <<log.played, InHand, chain.buffer>> \o [j \in DOMAIN proc.queue |-> EventsIn(proc.queue[j])]

\* Every board event received since the last reset is played once and in the order it came,
\* whether it was played at once, buffered and replayed for a link, or drained by the loop: what
\* was played and what still waits is what was received, by the numbers the server gave them.
\* Two races of a reset are known to break it, and are excused: a safety timer of a replay that
\* outlives it, and a message that arrives between a parked STATE_SYNC and its flush.
PlayedOnceInOrder ==
    ~parked /\ races \cap {"late safety timer", "late flush"} = {} =>
        /\ \A m, n \in DOMAIN Pieces : \A i \in DOMAIN Pieces[m], k \in DOMAIN Pieces[n] :
              m < n \/ (m = n /\ i < k) => Pieces[m][i] < Pieces[n][k]
        /\ UNION {Range(Pieces[n]) : n \in DOMAIN Pieces} = Range(log.got)

Settled == ~runner.running /\ runner.loops = {} /\ proc.queue = <<>> /\ chain.buffer = <<>>

\* Once the messages stop, the queue empties and its loop ends: no link waits for ever for the
\* overlay, no pause is left without somebody who resumes it. Excused is the reset that leaves
\* the overlay in a resolution of a chain that is gone.
QueueSettles == <>[](Settled \/ "orphan resolution" \in races)
=============================================================================

----------------------- MODULE AnimationQueue_proofs ------------------------
(***************************************************************************)
(* Proofs that the animation queue is played by one loop at a time, and    *)
(* every board event once and in order, for any chains, board events,      *)
(* draws and resyncs, and any ceiling on rescues.                          *)
(*                                                                         *)
(* OneLoop is not inductive: between the two statements that give back     *)
(* _isProcessing and _isRunning and the finally of its loop, a loop that   *)
(* has finalized is live and the mutex is free. No other loop can start    *)
(* there, because the runner is stopped and the queue is empty (Window),   *)
(* and stays so: whatever adds to the queue is a macrotask, or the loop    *)
(* that holds the mutex. Loops of earlier epochs are aborted for good.     *)
(*                                                                         *)
(* PlayedOnceInOrder needs that no event is still buffered when something  *)
(* empties the buffer or overtakes it: the SOLVING of the next link, the   *)
(* END, the replay of another link, an event that is played at once. Each  *)
(* follows from the link that is solved where the page has got to in the   *)
(* queue, which the page itself does not know. LinkInv therefore says that *)
(* the queue takes some chain, the one the page plays, to the chain of the *)
(* server, each message on the way being one that the server may send of   *)
(* the chain before it, and how the buffer, the overlay and the runner     *)
(* agree with that chain (Coupled). BufferInv and OverlayInv tell of the   *)
(* batch of a replay and of the resolution that waits for it. A step is    *)
(* first reduced to what the invariants can tell of it (the definitions    *)
(* named Did), so that each invariant has a lemma per kind of step.        *)
(***************************************************************************)
EXTENDS AnimationQueue, FiniteSetTheorems, SequenceTheorems, TLAPS

\* The records of a loop and of the runner have their fields.
IsLoop(l) == l = [id |-> l.id, ep |-> l.ep, pc |-> l.pc, rest |-> l.rest]
IsRunner(r) ==
    /\ r = [running |-> r.running, processing |-> r.processing, epoch |-> r.epoch,
            loops |-> r.loops, rescues |-> r.rescues, lastLen |-> r.lastLen, armed |-> r.armed]
    /\ r.epoch \in Nat /\ r.processing \in BOOLEAN /\ r.running \in BOOLEAN
    /\ \A l \in r.loops : IsLoop(l) /\ l.ep \in 0 .. r.epoch

\* The loops of a runner that no reset has aborted.
LiveOf(r) == {l \in r.loops : l.ep = r.epoch}

\* One loop is live at most, and it has the mutex unless it is returning.
Exclusive(r) == \A k, l \in LiveOf(r) : k = l /\ (l.pc # "exit" => r.processing)

\* A live loop that has given the mutex back leaves nothing that would start another.
Window(r, q) == LiveOf(r) # {} /\ ~r.processing => ~r.running /\ q = <<>>

Sound(r, q) == IsRunner(r) /\ Exclusive(r) /\ Window(r, q)

QueueInv == Sound(runner, proc.queue)

-----------------------------------------------------------------------------
(* The runner. *)

\* A runner without a live loop, or whose mutex is taken, may be started.
LEMMA StartedIsSound ==
    ASSUME NEW r, NEW q, NEW p, Sound(r, q), r.processing \/ LiveOf(r) = {}
    PROVE  Sound(Started(r), p) /\ Started(r).processing
  <1>1. CASE r.processing
    BY <1>1 DEF Started, Sound, Window
  <1>2. CASE ~r.processing
    <2> DEFINE n == [id |-> Unused({l.id : l \in r.loops}), ep |-> r.epoch, pc |-> "tick",
                     rest |-> <<>>]
               s == Started(r)
    <2>1. s = [r EXCEPT !.running = TRUE, !.processing = TRUE, !.loops = r.loops \cup {n}]
      BY <1>2 DEF Started
    <2> HIDE DEF s
    <2>2. n.ep = r.epoch /\ IsLoop(n)
      BY DEF IsLoop
    <2> HIDE DEF n
    <2>3. /\ s = [running |-> TRUE, processing |-> TRUE, epoch |-> r.epoch,
                  loops |-> r.loops \cup {n}, rescues |-> r.rescues, lastLen |-> r.lastLen,
                  armed |-> r.armed]
      BY <2>1 DEF Sound, IsRunner
    <2>4. IsRunner(s)
      BY <2>3, <2>2 DEF Sound, IsRunner
    <2>5. LiveOf(s) = {n}
      BY <2>3, <2>2, <1>2 DEF LiveOf
    <2>6. Exclusive(s) /\ Window(s, p) /\ s.processing
      BY <2>3, <2>5 DEF Exclusive, Window
    <2>7. QED BY <2>4, <2>6 DEF Sound, s
  <1>3. QED BY <1>1, <1>2

\* A loop that moves on keeps its epoch; the others are left alone.
LEMMA MovedIsSound ==
    ASSUME NEW q, NEW p, NEW l \in runner.loops, NEW m, NEW b,
           Sound(runner, q), IsLoop(m), m.ep = l.ep,
           Live(l) => runner.processing,
           p = q \/ runner.processing
    PROVE  /\ Sound(Moved(l, m), p)
           /\ Sound([Moved(l, m) EXCEPT !.armed = b], p)
  <1> DEFINE s == Moved(l, m)
             t == [s EXCEPT !.armed = b]
  <1>1. s = [runner EXCEPT !.loops = (runner.loops \ {l}) \cup {m}]
    BY DEF Moved
  <1> HIDE DEF s
  <1>2. s = [running |-> runner.running, processing |-> runner.processing,
             epoch |-> runner.epoch, loops |-> (runner.loops \ {l}) \cup {m},
             rescues |-> runner.rescues, lastLen |-> runner.lastLen, armed |-> runner.armed]
    BY <1>1 DEF Sound, IsRunner
  <1>3. t = [s EXCEPT !.armed = b]
    OBVIOUS
  <1> HIDE DEF t
  <1>4. t = [running |-> runner.running, processing |-> runner.processing,
             epoch |-> runner.epoch, loops |-> (runner.loops \ {l}) \cup {m},
             rescues |-> runner.rescues, lastLen |-> runner.lastLen, armed |-> b]
    BY <1>2, <1>3
  <1>5. IsRunner(s) /\ IsRunner(t)
    BY <1>2, <1>4 DEF Sound, IsRunner
  <1>6. LiveOf(s) \subseteq (LiveOf(runner) \ {l}) \cup (IF Live(l) THEN {m} ELSE {})
    BY <1>2 DEF LiveOf, Live
  <1>7. LiveOf(t) = LiveOf(s)
    BY <1>2, <1>4 DEF LiveOf
  <1>8. Exclusive(s) /\ Exclusive(t)
    <2>1. CASE Live(l)
      <3>1. LiveOf(s) \subseteq {m}
        BY <2>1, <1>6 DEF Sound, Exclusive, LiveOf, Live
      <3>2. QED BY <3>1, <2>1, <1>2, <1>4, <1>7 DEF Exclusive
    <2>2. CASE ~Live(l)
      BY <2>2, <1>2, <1>4, <1>6, <1>7 DEF Sound, Exclusive
    <2>3. QED BY <2>1, <2>2
  <1>9. Window(s, p) /\ Window(t, p)
    <2>1. LiveOf(s) # {} /\ ~runner.processing => LiveOf(runner) # {}
      BY <1>6
    <2>2. QED BY <2>1, <1>2, <1>4, <1>7 DEF Sound, Window
  <1>10. QED BY <1>5, <1>8, <1>9 DEF Sound, s, t

\* In particular a loop that changes its place.
LEMMA AtIsSound ==
    ASSUME NEW q, NEW p, NEW l \in runner.loops, NEW pc, NEW b,
           Sound(runner, q), Live(l) => runner.processing, p = q \/ runner.processing
    PROVE  /\ Sound(At(l, pc), p)
           /\ Sound([At(l, pc) EXCEPT !.armed = b], p)
  <1>1. IsLoop([l EXCEPT !.pc = pc]) /\ [l EXCEPT !.pc = pc].ep = l.ep
    BY DEF Sound, IsRunner, IsLoop
  <1>2. QED BY <1>1, MovedIsSound DEF At

\* The loop that plays has the mutex, and then the queue may be anything.
LEMMA PlayingHasTheMutex ==
    ASSUME NEW q, NEW l \in runner.loops, Sound(runner, q), l.pc # "exit", Live(l)
    PROVE  runner.processing /\ \A p : Sound(runner, p)
  BY DEF Sound, Exclusive, Window, LiveOf, Live

\* In a macrotask no loop is returning, so that a free mutex means that no loop is live.
LEMMA QuietIsFree ==
    ASSUME NEW q, Sound(runner, q), Quiet
    PROVE  /\ runner.processing \/ LiveOf(runner) = {}
           /\ \A p : Sound(runner, p)
  BY DEF Sound, Exclusive, Window, LiveOf, Quiet, Micro

-----------------------------------------------------------------------------
(* The steps. *)

\* A group goes on in its own loop.
LEMMA GroupMoves ==
    ASSUME NEW l, NEW events, IsLoop(l), GroupStep(l, events)
    PROVE  \E m : runner' = Moved(l, m) /\ IsLoop(m) /\ m.ep = l.ep
  <1> DEFINE pc == IF Len(events) > 1 THEN "group" ELSE "landing"
             m == [l EXCEPT !.pc = pc, !.rest = Tail(events)]
  <1>1. runner' = Moved(l, m)
    BY DEF GroupStep
  <1> HIDE DEF pc
  <1>2. m = [id |-> l.id, ep |-> l.ep, pc |-> pc, rest |-> Tail(events)]
    <2> DEFINE k == [l EXCEPT !.pc = pc]
    <2>1. k = [id |-> l.id, ep |-> l.ep, pc |-> pc, rest |-> l.rest]
      BY DEF IsLoop
    <2>2. m = [k EXCEPT !.rest = Tail(events)]
      BY Zenon
    <2> HIDE DEF k, m
    <2>3. QED BY <2>1, <2>2
  <1> HIDE DEF m
  <1>3. IsLoop(m) /\ m.ep = l.ep
    BY <1>2 DEF IsLoop
  <1>4. QED BY <1>1, <1>3

\* A turn of the loop moves it, or leaves it where it is.
LEMMA TurnsAreSound ==
    ASSUME QueueInv, NEW l \in runner.loops,
           \/ PreReplayBuffer(l) \/ ConsumeDeferred(l) \/ Dispatch(l) \/ PauseExternal(l)
    PROVE  QueueInv'
  <1> DEFINE Ok(r) == \A p : Sound(r, p)
  <1>1. Live(l) /\ l.pc = "tick"
    BY DEF PreReplayBuffer, ConsumeDeferred, PauseExternal, Dispatch, DispatchChaining,
           DispatchSolving, DispatchSolved, DispatchEnd, DispatchEvent, DispatchGroup,
           DispatchBarrier, DispatchBatchEnd, DispatchAwaitSignal, DispatchAnnouncement,
           Dequeue, Turn
  <1>2. runner.processing /\ Ok(runner)
    BY <1>1, PlayingHasTheMutex DEF QueueInv
  <1>3. \A pc, b : Ok(At(l, pc)) /\ Ok([At(l, pc) EXCEPT !.armed = b])
    BY <1>2, AtIsSound DEF QueueInv
  <1>4. ASSUME NEW events, GroupStep(l, events) PROVE Ok(runner')
    <2>1. IsLoop(l)
      BY DEF QueueInv, Sound, IsRunner
    <2>2. PICK m : runner' = Moved(l, m) /\ IsLoop(m) /\ m.ep = l.ep
      BY <1>4, <2>1, GroupMoves
    <2>3. Ok(Moved(l, m))
      BY <1>2, <2>2, MovedIsSound DEF QueueInv
    <2>4. QED BY <2>2, <2>3
  <1> HIDE DEF Ok
  <1>5. \A x, q : HandleSolving(l, x, q) => Ok(runner')
    <2>1. \A x, q : HandleSolving(l, x, q) => runner' = runner \/ \E pc : runner' = At(l, pc)
      BY DEF HandleSolving
    <2>2. QED BY <2>1, <1>2, <1>3
  <1>6. Ok(runner')
    <2>1. CASE PreReplayBuffer(l)
      BY <2>1, <1>2 DEF PreReplayBuffer
    <2>2. CASE ConsumeDeferred(l)
      BY <2>2, <1>5 DEF ConsumeDeferred
    <2>3. CASE PauseExternal(l)
      BY <2>3, <1>3 DEF PauseExternal
    <2>4. CASE DispatchChaining(l)
      BY <2>4, <1>3 DEF DispatchChaining
    <2>5. CASE DispatchSolving(l)
      BY <2>5, <1>5 DEF DispatchSolving
    <2>6. CASE DispatchSolved(l)
      BY <2>6, <1>3 DEF DispatchSolved
    <2>7. CASE DispatchEnd(l)
      BY <2>7, <1>3 DEF DispatchEnd
    <2>8. CASE DispatchEvent(l)
      BY <2>8, <1>3 DEF DispatchEvent
    <2>9. CASE DispatchGroup(l)
      BY <2>9, <1>4 DEF DispatchGroup
    <2>10. CASE DispatchBarrier(l)
      BY <2>10, <1>3 DEF DispatchBarrier
    <2>11. CASE DispatchBatchEnd(l)
      BY <2>11, <1>2 DEF DispatchBatchEnd
    <2>12. CASE DispatchAwaitSignal(l)
      BY <2>12, <1>2, <1>3 DEF DispatchAwaitSignal
    <2>13. CASE DispatchAnnouncement(l)
      BY <2>13, <1>3 DEF DispatchAnnouncement
    <2>14. QED
      BY <2>1, <2>2, <2>3, <2>4, <2>5, <2>6, <2>7, <2>8, <2>9, <2>10, <2>11, <2>12, <2>13
         DEF Dispatch
  <1>7. QED BY <1>6 DEF Ok, QueueInv

\* A loop that finalizes gives back the mutex over an empty queue.
LEMMA FinalizeIsSound ==
    ASSUME QueueInv, NEW l \in runner.loops, Finalize(l)
    PROVE  QueueInv'
  <1> DEFINE s == At(l, "exit")
  <1>1. Live(l) /\ l.pc = "tick" /\ proc.queue = <<>> /\ proc' = proc
    BY DEF Finalize, Turn, DecideNextStep
  <1>2. Sound(s, proc.queue)
    BY <1>1, PlayingHasTheMutex, AtIsSound DEF QueueInv
  <1>3. runner' = [s EXCEPT !.processing = FALSE, !.running = FALSE]
    BY DEF Finalize
  <1>4. \A k \in LiveOf(s) : k.pc = "exit"
    BY <1>1 DEF QueueInv, Sound, Exclusive, LiveOf, Live, At, Moved, IsRunner, IsLoop
  <1> HIDE DEF s
  <1>5. /\ runner'.loops = s.loops /\ runner'.epoch = s.epoch
        /\ ~runner'.processing /\ ~runner'.running /\ IsRunner(runner')
    BY <1>2, <1>3 DEF Sound, IsRunner
  <1>6. LiveOf(runner') = LiveOf(s)
    BY <1>5 DEF LiveOf
  <1>7. QED BY <1>1, <1>2, <1>4, <1>5, <1>6 DEF QueueInv, Sound, Exclusive, Window

\* The finally removes its loop; that of an aborted one does nothing else.
LEMMA FinallyIsSound ==
    ASSUME QueueInv, NEW l \in runner.loops, Finally(l)
    PROVE  QueueInv'
  <1>1. proc' = proc
    BY DEF Finally
  <1>2. CASE ~Live(l)
    <2>1. runner' = [runner EXCEPT !.loops = runner.loops \ {l}]
      BY <1>2 DEF Finally, Without
    <2>2. /\ IsRunner(runner') /\ runner'.processing = runner.processing
          /\ runner'.running = runner.running /\ LiveOf(runner') \subseteq LiveOf(runner)
      BY <2>1 DEF QueueInv, Sound, IsRunner, LiveOf
    <2>3. QED BY <2>2, <1>1 DEF QueueInv, Sound, Exclusive, Window
  <1>3. CASE Live(l)
    <2> DEFINE freed == [Without(runner, l) EXCEPT !.processing = FALSE]
               Free(r) == IsRunner(r) /\ LiveOf(r) = {}
    <2>1. freed = [runner EXCEPT !.loops = runner.loops \ {l}, !.processing = FALSE]
      BY DEF Without
    <2>2. LiveOf(runner) = {l}
      BY <1>3 DEF QueueInv, Sound, Exclusive, LiveOf, Live
    <2> HIDE DEF freed
    <2>3. Free(freed)
      BY <2>1, <2>2 DEF QueueInv, Sound, IsRunner, LiveOf
    <2>4. \A n, m : Free([freed EXCEPT !.rescues = n, !.lastLen = m])
      <3> TAKE n, m
      <3> DEFINE f == [freed EXCEPT !.rescues = n, !.lastLen = m]
      <3>1. f = [running |-> freed.running, processing |-> freed.processing,
                 epoch |-> freed.epoch, loops |-> freed.loops, rescues |-> n, lastLen |-> m,
                 armed |-> freed.armed]
        <4> DEFINE g == [freed EXCEPT !.rescues = n]
        <4>1. g = [running |-> freed.running, processing |-> freed.processing,
                   epoch |-> freed.epoch, loops |-> freed.loops, rescues |-> n,
                   lastLen |-> freed.lastLen, armed |-> freed.armed]
          BY <2>3 DEF IsRunner
        <4>2. f = [g EXCEPT !.lastLen = m]
          BY Zenon
        <4> HIDE DEF f, g
        <4>3. QED BY <4>1, <4>2
      <3> HIDE DEF f
      <3>2. IsRunner(f)
        BY <3>1, <2>3 DEF IsRunner
      <3>3. LiveOf(f) = {}
        BY <3>1, <2>3 DEF LiveOf
      <3>4. QED BY <3>2, <3>3 DEF f
    <2>5. \A r : Free(r) => Sound(r, proc.queue) /\ Sound(Started(r), proc.queue)
      <3> TAKE r
      <3> SUFFICES ASSUME Free(r) PROVE Sound(r, proc.queue) /\ Sound(Started(r), proc.queue)
        OBVIOUS
      <3>1. Sound(r, proc.queue)
        BY DEF Sound, Exclusive, Window
      <3>2. QED BY <3>1, StartedIsSound
    <2>6. \/ runner' = freed
          \/ \E n, m : \/ runner' = [freed EXCEPT !.rescues = n, !.lastLen = m]
                       \/ runner' = Started([freed EXCEPT !.rescues = n, !.lastLen = m])
      BY <1>3 DEF Finally, Returned, NotifyEnqueue, freed
    <2> HIDE DEF Free
    <2>7. Sound(runner', proc.queue)
      BY <2>3, <2>4, <2>5, <2>6
    <2>8. QED BY <1>1, <2>7 DEF QueueInv
  <1>4. QED BY <1>2, <1>3

\* The other steps of a loop change its place and nothing that is shared.
LEMMA LoopStepsAreSound ==
    ASSUME QueueInv, NEW l \in runner.loops, LoopStep(l)
    PROVE  QueueInv'
  <1>1. CASE \/ PreReplayBuffer(l) \/ ConsumeDeferred(l) \/ Dispatch(l) \/ PauseExternal(l)
    BY <1>1, TurnsAreSound
  <1>2. CASE Finalize(l)
    BY <1>2, FinalizeIsSound
  <1>3. CASE Finally(l)
    BY <1>3, FinallyIsSound
  <1>4. ASSUME l.pc # "exit" PROVE Live(l) => runner.processing
    BY <1>4 DEF QueueInv, Sound, Exclusive, LiveOf, Live
  <1>5. ASSUME l.pc # "exit", NEW pc PROVE Sound(At(l, pc), proc.queue)
    BY <1>4, <1>5, AtIsSound DEF QueueInv
  <1>6. CASE Bail(l)
    BY <1>5, <1>6 DEF Bail, QueueInv
  <1>7. CASE StepEnds(l)
    BY <1>5, <1>7 DEF StepEnds, QueueInv
  <1>8. CASE BannerShows(l)
    BY <1>5, <1>8 DEF BannerShows, QueueInv
  <1>9. CASE GroupStagger(l)
    <2>1. \E m : runner' = Moved(l, m) /\ IsLoop(m) /\ m.ep = l.ep
      BY <1>9, GroupMoves DEF GroupStagger, GroupStep, QueueInv, Sound, IsRunner
    <2>2. l.pc # "exit" /\ proc' = proc
      BY <1>9 DEF GroupStagger
    <2>3. QED BY <2>1, <2>2, <1>4, MovedIsSound DEF QueueInv
  <1>10. QED
    BY <1>1, <1>2, <1>3, <1>6, <1>7, <1>8, <1>9 DEF LoopStep

\* The end of a draw moves the loops that wait for it, or starts one.
LEMMA DrawsDoneIsSound ==
    ASSUME QueueInv, DrawsDone
    PROVE  QueueInv'
  <1> DEFINE waiters == {l \in runner.loops : l.pc = "draws"}
             ticking == {[l EXCEPT !.pc = "tick"] : l \in waiters}
             s == [runner EXCEPT !.loops = (runner.loops \ waiters) \cup ticking]
  <1>1. proc' = proc /\ Quiet
    BY DEF DrawsDone
  <1>2. runner' = NotifyEnqueue(runner) \/ runner' = s
    BY DEF DrawsDone
  <1>3. CASE runner' = NotifyEnqueue(runner)
    BY <1>1, <1>3, QuietIsFree, StartedIsSound DEF NotifyEnqueue, QueueInv
  <1>4. CASE runner' = s
    <2>1. \A m \in ticking : IsLoop(m) /\ \E l \in waiters : m = [l EXCEPT !.pc = "tick"] /\ m.ep = l.ep
      <3>1. \A l \in waiters : [l EXCEPT !.pc = "tick"]
                               = [id |-> l.id, ep |-> l.ep, pc |-> "tick", rest |-> l.rest]
        BY DEF QueueInv, Sound, IsRunner, IsLoop
      <3>2. QED BY <3>1 DEF IsLoop
    <2>2. /\ s.loops = (runner.loops \ waiters) \cup ticking /\ s.epoch = runner.epoch
          /\ s.processing = runner.processing /\ s.running = runner.running
      BY DEF QueueInv, Sound, IsRunner
    <2>3. IsRunner(s)
      <3> HIDE DEF ticking, waiters
      <3>1. s = [running |-> runner.running, processing |-> runner.processing,
                 epoch |-> runner.epoch, loops |-> (runner.loops \ waiters) \cup ticking,
                 rescues |-> runner.rescues, lastLen |-> runner.lastLen, armed |-> runner.armed]
        <4>1. IsRunner(runner)
          BY DEF QueueInv, Sound
        <4> DEFINE loops == (runner.loops \ waiters) \cup ticking
        <4> HIDE DEF loops
        <4>2. [runner EXCEPT !.loops = loops]
              = [running |-> runner.running, processing |-> runner.processing,
                 epoch |-> runner.epoch, loops |-> loops, rescues |-> runner.rescues,
                 lastLen |-> runner.lastLen, armed |-> runner.armed]
          BY <4>1 DEF IsRunner
        <4>3. QED BY <4>2 DEF loops
      <3> HIDE DEF s
      <3>2. \A l \in s.loops : IsLoop(l) /\ l.ep \in 0 .. runner.epoch
        BY <2>1, <2>2 DEF QueueInv, Sound, IsRunner, waiters
      <3>3. QED BY <3>1, <3>2 DEF QueueInv, Sound, IsRunner
    <2> HIDE DEF s
    <2>4. Exclusive(s)
      <3> SUFFICES ASSUME NEW k \in LiveOf(s), NEW l \in LiveOf(s)
                   PROVE  k = l /\ (l.pc # "exit" => s.processing)
        BY DEF Exclusive
      <3> DEFINE From(m, n) == /\ n \in LiveOf(runner)
                               /\ \/ n \notin waiters /\ m = n
                                  \/ n \in waiters /\ m = [n EXCEPT !.pc = "tick"]
      <3>1. \A m \in LiveOf(s) : \E n : From(m, n)
        BY <2>1, <2>2 DEF LiveOf
      <3>2. PICK n : From(k, n)
        BY <3>1
      <3>3. PICK o : From(l, o)
        BY <3>1
      <3>4. n = o /\ (o.pc # "exit" => runner.processing)
        BY <3>2, <3>3 DEF QueueInv, Sound, Exclusive
      <3>5. k = l
        BY <3>2, <3>3, <3>4
      <3>6. l.pc # "exit" => runner.processing
        BY <3>3, <3>4
      <3>7. QED BY <3>5, <3>6, <2>2
    <2>5. Window(s, proc.queue)
      BY <2>1, <2>2 DEF QueueInv, Sound, Window, LiveOf
    <2>6. QED BY <1>1, <1>4, <2>3, <2>4, <2>5 DEF QueueInv, Sound
  <1>5. QED BY <1>2, <1>3, <1>4

\* An effect starts a loop only when the runner is running or the queue is not empty.
LEMMA EffectsAreSound ==
    ASSUME QueueInv, QueueEffect \/ ResumeEffect \/ AwaitEffect \/ LinksEffect
    PROVE  QueueInv'
  <1>1. proc' = proc
    BY DEF QueueEffect, ResumeEffect, AwaitEffect, LinksEffect
  <1>2. proc.queue # <<>> \/ runner.running => runner.processing \/ LiveOf(runner) = {}
    BY DEF QueueInv, Sound, Window
  <1>3. CASE QueueEffect
    BY <1>1, <1>2, <1>3, StartedIsSound DEF QueueEffect, NotifyEnqueue, QueueInv
  <1>4. CASE ResumeEffect
    BY <1>1, <1>2, <1>4, StartedIsSound DEF ResumeEffect, NotifyEnqueue, QueueInv
  <1>5. CASE AwaitEffect
    <2> DEFINE r == [runner EXCEPT !.armed = FALSE]
    <2>1. runner' = ProcessQueue(r)
      BY <1>5 DEF AwaitEffect
    <2>2. r = [running |-> runner.running, processing |-> runner.processing,
               epoch |-> runner.epoch, loops |-> runner.loops, rescues |-> runner.rescues,
               lastLen |-> runner.lastLen, armed |-> FALSE]
      <3>1. IsRunner(runner)
        BY DEF QueueInv, Sound
      <3>2. ASSUME NEW b
            PROVE  [runner EXCEPT !.armed = b]
                   = [running |-> runner.running, processing |-> runner.processing,
                      epoch |-> runner.epoch, loops |-> runner.loops,
                      rescues |-> runner.rescues, lastLen |-> runner.lastLen, armed |-> b]
        BY <3>1 DEF IsRunner
      <3>3. QED BY <3>2, Zenon
    <2> HIDE DEF r
    <2>3. IsRunner(r) /\ LiveOf(r) = LiveOf(runner)
      BY <2>2 DEF QueueInv, Sound, IsRunner, LiveOf
    <2>4. Sound(r, proc.queue)
      BY <2>2, <2>3 DEF QueueInv, Sound, Exclusive, Window
    <2>5. r.running => r.processing \/ LiveOf(r) = {}
      BY <1>2, <2>2, <2>3
    <2>6. QED BY <1>1, <2>1, <2>4, <2>5, StartedIsSound DEF ProcessQueue, QueueInv
  <1>6. CASE LinksEffect
    BY <1>1, <1>6 DEF LinksEffect, QueueInv
  <1>7. QED BY <1>3, <1>4, <1>5, <1>6

\* A macrotask may put anything into the queue, and start a loop that plays it.
LEMMA MacrotasksAreSound ==
    ASSUME QueueInv, Quiet, runner' = runner \/ runner' = NotifyEnqueue(runner)
    PROVE  QueueInv'
  BY QuietIsFree, StartedIsSound DEF NotifyEnqueue, QueueInv

\* A reset aborts the loops there are.
LEMMA ResetIsSound ==
    ASSUME QueueInv, NEW ls, NEW ph, ResetPage(ls, ph)
    PROVE  QueueInv'
  <1> DEFINE loops == Interrupted(runner.loops)
  <1>1. \A m \in loops : IsLoop(m) /\ m.ep \in 0 .. runner.epoch
    <2> SUFFICES ASSUME NEW m \in loops PROVE IsLoop(m) /\ m.ep \in 0 .. runner.epoch
      OBVIOUS
    <2>1. PICK l \in runner.loops : m = l \/ m = [l EXCEPT !.pc = "tick", !.rest = <<>>]
      BY DEF Interrupted
    <2>2. IsLoop(l) /\ l.ep \in 0 .. runner.epoch
      BY DEF QueueInv, Sound, IsRunner
    <2>3. CASE m = [l EXCEPT !.pc = "tick", !.rest = <<>>]
      <3> DEFINE k == [l EXCEPT !.pc = "tick"]
      <3>1. k = [id |-> l.id, ep |-> l.ep, pc |-> "tick", rest |-> l.rest]
        BY <2>2 DEF IsLoop
      <3>2. m = [k EXCEPT !.rest = <<>>]
        BY <2>3, Zenon
      <3> HIDE DEF k
      <3>3. m = [id |-> l.id, ep |-> l.ep, pc |-> "tick", rest |-> <<>>]
        BY <3>1, <3>2
      <3>4. QED BY <3>3, <2>2 DEF IsLoop
    <2>4. QED BY <2>1, <2>2, <2>3
  <1> HIDE DEF loops
  <1>2. runner' = [running |-> FALSE, processing |-> FALSE, epoch |-> runner.epoch + 1,
                   loops |-> loops, rescues |-> 0, lastLen |-> -1, armed |-> FALSE]
    BY DEF ResetPage, loops
  <1>3. IsRunner(runner')
    BY <1>1, <1>2 DEF QueueInv, Sound, IsRunner
  <1>4. LiveOf(runner') = {}
    BY <1>1, <1>2 DEF QueueInv, Sound, IsRunner, LiveOf
  <1>5. QED BY <1>3, <1>4 DEF QueueInv, Sound, Exclusive, Window

\* The invariant is kept by every step.
LEMMA QueueInvInductive == QueueInv /\ [Next]_vars => QueueInv'
  <1> SUFFICES ASSUME QueueInv, [Next]_vars PROVE QueueInv'
    OBVIOUS
  <1>1. ASSUME NEW l \in runner.loops, LoopStep(l) PROVE QueueInv'
    BY <1>1, LoopStepsAreSound
  <1>2. CASE QueueEffect \/ ResumeEffect \/ AwaitEffect \/ LinksEffect
    BY <1>2, EffectsAreSound
  <1>3. CASE OverlayStep
    <2>1. Quiet /\ (runner' = runner \/ runner' = NotifyEnqueue(runner))
      BY <1>3 DEF OverlayStep, HoldEnds, ImpactEnds, SafetyFires
    <2>2. QED BY <2>1, MacrotasksAreSound
  <1>4. CASE DrawsDone
    BY <1>4, DrawsDoneIsSound
  <1>5. CASE FlushStateSync
    BY <1>5, ResetIsSound DEF FlushStateSync
  <1>6. CASE SendChaining \/ SendPrompt \/ SendSolving \/ SendSolved \/ SendEnd \/ SendEvent
    <2>1. Quiet /\ runner' = runner
      BY <1>6 DEF SendChaining, SendPrompt, SendSolving, SendSolved, SendEnd, SendEvent, Receive
    <2>2. QED BY <2>1, MacrotasksAreSound
  <1>7. CASE Disconnect
    BY <1>7 DEF Disconnect, QueueInv
  <1>8. CASE Resync
    <2>1. CASE UNCHANGED <<proc, runner>>
      BY <2>1 DEF QueueInv
    <2>2. CASE \E ls, ph : ResetPage(ls, ph)
      BY <2>2, ResetIsSound
    <2>3. QED BY <1>8, <2>1, <2>2 DEF Resync
  <1>9. CASE UNCHANGED vars
    BY <1>9 DEF vars, QueueInv
  <1>10. QED
    BY <1>1, <1>2, <1>3, <1>4, <1>5, <1>6, <1>7, <1>8, <1>9 DEF Next, PageStep, ServerStep

\* It holds at the start, when there is no loop.
LEMMA QueueInvInitially == Init => QueueInv
  <1> SUFFICES ASSUME Init PROVE QueueInv
    OBVIOUS
  <1>1. /\ runner = [running |-> FALSE, processing |-> FALSE, epoch |-> 0, loops |-> {},
                     rescues |-> 0, lastLen |-> -1, armed |-> FALSE]
        /\ IsRunner(runner)
    BY DEF Init, IsRunner
  <1>2. LiveOf(runner) = {}
    BY <1>1 DEF LiveOf
  <1>3. QED BY <1>1, <1>2 DEF QueueInv, Sound, Exclusive, Window

-----------------------------------------------------------------------------
\* OneLoop: the queue is played by one loop at a time, the assertion of
\* _processAnimationQueueInner, whatever resets the page and whenever.
THEOREM TheQueueHasOneLoop == Spec => []OneLoop
  <1>1. QueueInv => OneLoop
    BY DEF QueueInv, Sound, Exclusive, LiveOf, OneLoop, Live
  <1>2. QED BY <1>1, QueueInvInitially, QueueInvInductive, PTL DEF Spec

\* The loop that finalizes stops the runner with the mutex, and nothing is queued behind it: no
\* message is left without a loop that plays it or an event that starts one (the finalize window
\* of queue-runner.ts).
THEOREM NothingIsLeftByFinalize == Spec => []Window(runner, proc.queue)
  <1>1. QueueInv => Window(runner, proc.queue)
    BY DEF QueueInv, Sound
  <1>2. QED BY <1>1, QueueInvInitially, QueueInvInductive, PTL DEF Spec

-----------------------------------------------------------------------------
(* The loops: where the live one is, and the events it has in hand. *)

\* Of the loops of a runner, those that hold events of a group are in the stagger of it, in the
\* present epoch, and those that are live and not returning run.
Hands(r) ==
    \A l \in r.loops :
        /\ l.rest # <<>> <=> l.pc = "group"
        /\ l.pc = "group" => l.ep = r.epoch
        /\ l.ep = r.epoch /\ l.pc # "exit" => r.running

LoopTypes(r) == \A l \in r.loops : l.pc \in Places /\ l.ep \in 0 .. r.epoch /\ l.rest \in Seq(Nat)

RunnerOK(r) ==
    IsRunner(r) /\ Exclusive(r) /\ LoopTypes(r) /\ Hands(r) /\ r.armed \in BOOLEAN

\* Where the live loop is, and what is left of its group.
PcsOf(r) == {l.pc : l \in LiveOf(r)}
Groups(r) == {l \in r.loops : l.rest # <<>>}
HandIn(groups) == IF groups = {} THEN <<>> ELSE (CHOOSE l \in groups : TRUE).rest
HandOf(r) == HandIn(Groups(r))

\* A chain of x.links links, of which x.unsolved are not solved and the last is being solved, or
\* none.
WellFormed(x) ==
    /\ x.phase # "resolving" => x.unsolved = x.links /\ x.solving = NoLink
    /\ x.phase = "idle" => x.links = 0
    /\ x.solving # NoLink => x.unsolved > 0 /\ x.solving = x.unsolved - 1
    /\ x.unsolved <= x.links

TypeInv == QueueInv /\ QueueTypeOK /\ Hands(runner) /\ WellFormed(server)

LEMMA TypedRunner == TypeInv => RunnerOK(runner)
  BY DEF TypeInv, RunnerOK, QueueInv, Sound, QueueTypeOK, LoopTypes

LEMMA HandIs ==
    ASSUME NEW r, RunnerOK(r)
    PROVE  /\ \A l \in r.loops : l.rest # <<>> => HandOf(r) = l.rest
           /\ HandOf(r) # <<>> <=> PcsOf(r) = {"group"}
           /\ HandOf(r) \in Seq(Nat)
           /\ \A l \in LiveOf(r) : PcsOf(r) = {l.pc} /\ HandOf(r) = l.rest
           /\ PcsOf(r) = {} <=> LiveOf(r) = {}
  <1>1. \A k, l \in LiveOf(r) : k = l
    BY DEF RunnerOK, Exclusive
  <1>2. \A l \in r.loops : l.rest # <<>> => l \in LiveOf(r) /\ l.pc = "group"
    BY DEF RunnerOK, Hands, LiveOf
  <1>3. \A l \in LiveOf(r) : PcsOf(r) = {l.pc}
    BY <1>1 DEF PcsOf
  <1>4. ASSUME NEW l \in r.loops, l.rest # <<>> PROVE HandOf(r) = l.rest
    <2>1. Groups(r) = {l}
      BY <1>1, <1>2, <1>4 DEF Groups
    <2>2. QED BY <2>1 DEF HandOf, HandIn
  <1>5. (\A l \in r.loops : l.rest = <<>>) => HandOf(r) = <<>>
    BY DEF HandOf, HandIn, Groups
  <1>6. HandOf(r) \in Seq(Nat)
    <2>1. \A l \in r.loops : l.rest \in Seq(Nat)
      BY DEF RunnerOK, LoopTypes
    <2>2. <<>> \in Seq(Nat)
      OBVIOUS
    <2>3. CASE \A l \in r.loops : l.rest = <<>>
      BY <2>2, <2>3, <1>5
    <2>4. CASE \E l \in r.loops : l.rest # <<>>
      BY <2>1, <2>4, <1>4
    <2>5. QED BY <2>3, <2>4
  <1>7. HandOf(r) # <<>> => PcsOf(r) = {"group"}
    BY <1>2, <1>3, <1>4, <1>5
  <1>8. PcsOf(r) = {"group"} => HandOf(r) # <<>>
    BY <1>4 DEF PcsOf, RunnerOK, Hands, LiveOf
  <1>9. \A l \in LiveOf(r) : HandOf(r) = l.rest
    <2> SUFFICES ASSUME NEW l \in LiveOf(r), l.rest = <<>> PROVE HandOf(r) = <<>>
      BY <1>4 DEF LiveOf
    <2>1. \A k \in r.loops : k.rest = <<>>
      BY <1>1, <1>2
    <2>2. QED BY <2>1, <1>5
  <1>10. QED BY <1>3, <1>4, <1>6, <1>7, <1>8, <1>9 DEF PcsOf

\* One loop of a runner moves.
LoopMove(r, s, l, m) ==
    /\ l \in r.loops
    /\ RunnerOK(r) /\ IsRunner(s) /\ Exclusive(s) /\ s.epoch = r.epoch /\ s.armed \in BOOLEAN
    /\ s.loops = (r.loops \ {l}) \cup {m}
    /\ m.ep = l.ep /\ m.pc \in Places /\ m.rest \in Seq(Nat)
    /\ m.rest # <<>> <=> m.pc = "group"
    /\ l.ep # r.epoch => m.pc # "group" /\ s.running = r.running
    /\ l.ep = r.epoch /\ m.pc # "exit" => s.running

LEMMA LoopMoves ==
    ASSUME NEW r, NEW s, NEW l, NEW m, LoopMove(r, s, l, m)
    PROVE  /\ RunnerOK(s)
           /\ l.ep # r.epoch => PcsOf(s) = PcsOf(r) /\ HandOf(s) = HandOf(r)
           /\ l.ep = r.epoch => /\ PcsOf(r) = {l.pc} /\ HandOf(r) = l.rest
                                /\ PcsOf(s) = {m.pc} /\ HandOf(s) = m.rest
  <1>1. \A k \in r.loops : l.ep = r.epoch /\ k.ep = r.epoch => k = l
    BY DEF LoopMove, RunnerOK, Exclusive, LiveOf
  <1>2. Hands(s)
    BY <1>1 DEF LoopMove, RunnerOK, Hands
  <1>3. LoopTypes(s)
    BY DEF LoopMove, RunnerOK, LoopTypes, IsRunner
  <1>4. RunnerOK(s)
    BY <1>2, <1>3 DEF LoopMove, RunnerOK
  <1>5. CASE l.ep = r.epoch
    <2>1. l \in LiveOf(r) /\ m \in LiveOf(s)
      BY <1>5 DEF LoopMove, LiveOf
    <2>2. QED BY <2>1, <1>4, <1>5, HandIs DEF LoopMove
  <1>6. CASE l.ep # r.epoch
    <2>1. LiveOf(s) = LiveOf(r)
      BY <1>6 DEF LoopMove, LiveOf
    <2>2. l.rest = <<>> /\ m.rest = <<>>
      BY <1>6 DEF LoopMove, RunnerOK, Hands
    <2>3. Groups(s) = Groups(r)
      BY <2>2 DEF LoopMove, Groups
    <2>4. QED BY <1>4, <1>6, <2>1, <2>3 DEF PcsOf, HandOf
  <1>7. QED BY <1>5, <1>6

\* A loop starts where there was none.
Starts(r, s) ==
    /\ RunnerOK(s)
    /\ HandOf(s) = HandOf(r) /\ s.armed = r.armed /\ s.epoch = r.epoch
    /\ PcsOf(s) = PcsOf(r) \/ (PcsOf(r) = {} /\ PcsOf(s) = {"tick"})

LEMMA StartedStarts ==
    ASSUME NEW r, NEW q, RunnerOK(r), Window(r, q), r.processing \/ LiveOf(r) = {}
    PROVE  Starts(r, Started(r))
  <1>1. CASE r.processing
    BY <1>1 DEF Started, Starts
  <1>2. CASE ~r.processing
    <2> DEFINE n == [id |-> Unused({l.id : l \in r.loops}), ep |-> r.epoch, pc |-> "tick",
                     rest |-> <<>>]
               s == Started(r)
    <2>1. s = [r EXCEPT !.running = TRUE, !.processing = TRUE, !.loops = r.loops \cup {n}]
      BY <1>2 DEF Started
    <2>2. IsRunner(s) /\ Exclusive(s)
      <3>1. Sound(r, q)
        BY DEF RunnerOK, Sound
      <3>2. QED BY <3>1, StartedIsSound DEF Sound
    <2> HIDE DEF s
    <2>3. n.ep = r.epoch /\ n.pc = "tick" /\ n.rest = <<>>
      OBVIOUS
    <2> HIDE DEF n
    <2>4. s = [running |-> TRUE, processing |-> TRUE, epoch |-> r.epoch,
               loops |-> r.loops \cup {n}, rescues |-> r.rescues, lastLen |-> r.lastLen,
               armed |-> r.armed]
      BY <2>1 DEF RunnerOK, IsRunner
    <2>5. LiveOf(s) = {n} /\ LiveOf(r) = {}
      BY <2>4, <2>3, <1>2 DEF LiveOf
    <2>6. PcsOf(s) = {"tick"} /\ PcsOf(r) = {}
      BY <2>3, <2>5 DEF PcsOf
    <2>7. Hands(s)
      BY <2>3, <2>4 DEF RunnerOK, Hands
    <2>8. LoopTypes(s)
      <3>1. <<>> \in Seq(Nat) /\ "tick" \in Places /\ r.epoch \in 0 .. r.epoch
        BY DEF RunnerOK, IsRunner, Places
      <3>2. QED BY <2>3, <2>4, <3>1 DEF RunnerOK, LoopTypes
    <2>9. Groups(s) = Groups(r)
      BY <2>3, <2>4 DEF Groups
    <2>10. HandOf(s) = HandOf(r)
      BY <2>9 DEF HandOf
    <2>11. RunnerOK(s) /\ s.armed = r.armed /\ s.epoch = r.epoch
      BY <2>2, <2>4, <2>7, <2>8 DEF RunnerOK
    <2>12. Starts(r, s)
      BY <2>6, <2>10, <2>11 DEF Starts
    <2>13. QED BY <2>12 DEF s
  <1>3. QED BY <1>1, <1>2 DEF RunnerOK, IsRunner

LEMMA StartsRefl == \A r : RunnerOK(r) => Starts(r, r)
  BY DEF Starts

-----------------------------------------------------------------------------
(* The queue: messages of the server behind the entries it has made itself. *)

\* The entries that the queue makes itself; the others are messages of the server.
Own(e) == e.kind \in {"group", "barrier", "batch-end", "await-signal", "announcement"}
NoOwn(q) == \A j \in DOMAIN q : ~Own(q[j])
\* The batches that have not ended, by the resolution that waits for each, and whether one is
\* followed by a signal to await.
Ends(q) == {q[j].of[1] : j \in {k \in DOMAIN q : q[k].kind = "batch-end"}}
Awaits(q) == \E j \in DOMAIN q : q[j].kind = "await-signal"

\* What the queue has made itself comes first; there is at most one batch, and a group is in it.
Shape(q, draining) ==
    /\ \A i, j \in DOMAIN q : i < j /\ Own(q[j]) => Own(q[i])
    /\ \A i, j \in DOMAIN q : q[i].kind = "batch-end" /\ q[j].kind = "batch-end" => i = j
    /\ \A i \in DOMAIN q : q[i].kind = "group" =>
          \E j \in DOMAIN q : i < j /\ q[j].kind = "batch-end"
    /\ draining <=> \E j \in DOMAIN q : q[j].kind = "batch-end"

LEMMA ConsIs ==
    ASSUME NEW S, NEW e \in S, NEW q \in Seq(S)
    PROVE  /\ <<e>> \o q \in Seq(S)
           /\ Len(<<e>> \o q) = Len(q) + 1
           /\ (<<e>> \o q)[1] = e
           /\ \A j \in 1 .. Len(q) : (<<e>> \o q)[j + 1] = q[j]
           /\ DOMAIN q = 1 .. Len(q) /\ DOMAIN (<<e>> \o q) = 1 .. Len(q) + 1
  OBVIOUS

LEMMA TailIs ==
    ASSUME NEW S, NEW q \in Seq(S), q # <<>>
    PROVE  /\ Tail(q) \in Seq(S)
           /\ Len(Tail(q)) = Len(q) - 1 /\ Len(q) \in Nat /\ Len(q) > 0
           /\ Head(q) = q[1] /\ Head(q) \in S
           /\ \A j \in 1 .. Len(q) - 1 : Tail(q)[j] = q[j + 1]
           /\ DOMAIN q = 1 .. Len(q) /\ DOMAIN Tail(q) = 1 .. Len(q) - 1
  OBVIOUS

LEMMA AppendIs ==
    ASSUME NEW S, NEW e \in S, NEW q \in Seq(S)
    PROVE  /\ Append(q, e) \in Seq(S)
           /\ Len(Append(q, e)) = Len(q) + 1 /\ Len(q) \in Nat
           /\ Append(q, e)[Len(q) + 1] = e
           /\ \A j \in 1 .. Len(q) : Append(q, e)[j] = q[j]
           /\ DOMAIN q = 1 .. Len(q) /\ DOMAIN Append(q, e) = 1 .. Len(q) + 1
  OBVIOUS

LEMMA EmptyShape == Shape(<<>>, FALSE) /\ NoOwn(<<>>) /\ Ends(<<>>) = {} /\ ~Awaits(<<>>)
  BY DEF Shape, NoOwn, Ends, Awaits

LEMMA ShapeFacts ==
    ASSUME NEW q, NEW d \in BOOLEAN, Shape(q, d)
    PROVE  /\ d <=> Ends(q) # {}
           /\ NoOwn(q) => Ends(q) = {} /\ ~Awaits(q)
  BY DEF Shape, NoOwn, Ends, Awaits, Own

\* The head of the queue is taken.
LEMMA ShapeTail ==
    ASSUME NEW S, NEW q \in Seq(S), NEW d \in BOOLEAN, Shape(q, d), q # <<>>
    PROVE  /\ Shape(Tail(q), d /\ Head(q).kind # "batch-end")
           /\ ~Own(Head(q)) => NoOwn(q)
           /\ NoOwn(q) => NoOwn(Tail(q))
           /\ Head(q).kind # "batch-end" => Ends(Tail(q)) = Ends(q)
           /\ Head(q).kind = "batch-end" => Ends(q) = {Head(q).of[1]} /\ Ends(Tail(q)) = {}
           /\ Awaits(Tail(q)) => Awaits(q)
           /\ Head(q).kind = "await-signal" => Awaits(q)
           /\ Head(q).kind = "group" => d
           /\ NoOwn(q) => ~Own(Head(q))
  <1> DEFINE t == Tail(q)
             n == Len(q)
  <1>1. /\ n \in Nat /\ n > 0 /\ Head(q) = q[1]
        /\ \A j \in 1 .. n - 1 : t[j] = q[j + 1]
        /\ DOMAIN q = 1 .. n /\ DOMAIN t = 1 .. n - 1
    BY TailIs
  <1> HIDE DEF t, n
  <1>2. \A j \in DOMAIN t : j + 1 \in DOMAIN q /\ t[j] = q[j + 1]
    BY <1>1
  <1>3. \A j \in DOMAIN q : j = 1 \/ (j - 1 \in DOMAIN t /\ t[j - 1] = q[j])
    BY <1>1
  <1>4. 1 \in DOMAIN q
    BY <1>1
  <1>5. \A i, j \in DOMAIN t : i < j /\ Own(t[j]) => Own(t[i])
    BY <1>1, <1>2 DEF Shape
  <1>6. \A i, j \in DOMAIN t : t[i].kind = "batch-end" /\ t[j].kind = "batch-end" => i = j
    <2> SUFFICES ASSUME NEW i \in DOMAIN t, NEW j \in DOMAIN t, t[i].kind = "batch-end",
                        t[j].kind = "batch-end"
                 PROVE  i = j
      OBVIOUS
    <2>1. i + 1 = j + 1
      BY <1>2 DEF Shape
    <2>2. QED BY <2>1, <1>1
  <1>7. \A i \in DOMAIN t : t[i].kind = "group" =>
           \E j \in DOMAIN t : i < j /\ t[j].kind = "batch-end"
    <2> SUFFICES ASSUME NEW i \in DOMAIN t, t[i].kind = "group"
                 PROVE  \E j \in DOMAIN t : i < j /\ t[j].kind = "batch-end"
      OBVIOUS
    <2>1. PICK j \in DOMAIN q : i + 1 < j /\ q[j].kind = "batch-end"
      BY <1>2 DEF Shape
    <2>2. j - 1 \in DOMAIN t /\ t[j - 1] = q[j] /\ i < j - 1
      BY <2>1, <1>1, <1>3
    <2>3. QED BY <2>1, <2>2
  <1>8. (d /\ q[1].kind # "batch-end") <=> \E j \in DOMAIN t : t[j].kind = "batch-end"
    <2>1. ASSUME NEW j \in DOMAIN t, t[j].kind = "batch-end" PROVE d /\ q[1].kind # "batch-end"
      <3>1. j + 1 \in DOMAIN q /\ q[j + 1].kind = "batch-end" /\ j + 1 # 1
        BY <2>1, <1>1, <1>2
      <3>2. QED BY <3>1, <1>4 DEF Shape
    <2>2. ASSUME d, q[1].kind # "batch-end" PROVE \E j \in DOMAIN t : t[j].kind = "batch-end"
      BY <2>2, <1>3 DEF Shape
    <2>3. QED BY <2>1, <2>2
  <1>9. ~Own(q[1]) => NoOwn(q)
    BY <1>1 DEF Shape, NoOwn
  <1>10. NoOwn(q) => NoOwn(t) /\ ~Own(q[1])
    BY <1>2, <1>4 DEF NoOwn
  <1>11. Ends(t) \subseteq Ends(q)
    BY <1>2 DEF Ends
  <1>12. q[1].kind # "batch-end" => Ends(q) \subseteq Ends(t)
    BY <1>3 DEF Ends
  <1>13. ASSUME q[1].kind = "batch-end" PROVE Ends(q) = {q[1].of[1]} /\ Ends(t) = {}
    <2>1. {k \in DOMAIN q : q[k].kind = "batch-end"} = {1}
      BY <1>13, <1>4 DEF Shape
    <2>2. {k \in DOMAIN t : t[k].kind = "batch-end"} = {}
      BY <1>8, <1>13
    <2>3. QED BY <2>1, <2>2 DEF Ends
  <1>14. /\ Awaits(t) => Awaits(q)
         /\ q[1].kind = "await-signal" => Awaits(q)
    BY <1>2, <1>4 DEF Awaits
  <1>15. q[1].kind = "group" => d
    BY <1>4 DEF Shape
  <1>16. Shape(t, d /\ q[1].kind # "batch-end")
    BY <1>5, <1>6, <1>7, <1>8 DEF Shape
  <1>17. Head(q) = q[1]
    BY <1>1
  <1>18. QED
    BY <1>9, <1>10, <1>11, <1>12, <1>13, <1>14, <1>15, <1>16, <1>17 DEF t

\* An entry of its own is put before the queue.
LEMMA ShapeCons ==
    ASSUME NEW S, NEW e \in S, NEW q \in Seq(S), NEW d \in BOOLEAN, Shape(q, d), Own(e),
           e.kind = "batch-end" => ~d,
           e.kind = "group" => d
    PROVE  /\ Shape(<<e>> \o q, d \/ e.kind = "batch-end")
           /\ Ends(<<e>> \o q) = Ends(q) \cup (IF e.kind = "batch-end" THEN {e.of[1]} ELSE {})
           /\ Awaits(<<e>> \o q) <=> Awaits(q) \/ e.kind = "await-signal"
  <1> DEFINE c == <<e>> \o q
             n == Len(q)
  <1>1. /\ n \in Nat /\ c[1] = e
        /\ \A j \in 1 .. n : c[j + 1] = q[j]
        /\ DOMAIN q = 1 .. n /\ DOMAIN c = 1 .. n + 1
    BY ConsIs
  <1> HIDE DEF c, n
  <1>2. \A j \in DOMAIN q : j + 1 \in DOMAIN c /\ c[j + 1] = q[j]
    BY <1>1
  <1>3. \A j \in DOMAIN c : j = 1 \/ (j - 1 \in DOMAIN q /\ q[j - 1] = c[j])
    BY <1>1
  <1>4. 1 \in DOMAIN c
    BY <1>1
  <1>5. \A i, j \in DOMAIN c : i < j /\ Own(c[j]) => Own(c[i])
    <2> SUFFICES ASSUME NEW i \in DOMAIN c, NEW j \in DOMAIN c, i < j, Own(c[j]) PROVE Own(c[i])
      OBVIOUS
    <2>1. CASE i = 1
      BY <2>1, <1>1
    <2>2. CASE i # 1
      <3>1. i - 1 < j - 1 /\ j # 1
        BY <2>2, <1>1
      <3>2. QED BY <3>1, <2>2, <1>3 DEF Shape
    <2>3. QED BY <2>1, <2>2
  <1>6. \A i, j \in DOMAIN c : c[i].kind = "batch-end" /\ c[j].kind = "batch-end" => i = j
    <2> SUFFICES ASSUME NEW i \in DOMAIN c, NEW j \in DOMAIN c, c[i].kind = "batch-end",
                        c[j].kind = "batch-end"
                 PROVE  i = j
      OBVIOUS
    <2>1. CASE i = 1 \/ j = 1
      BY <2>1, <1>1, <1>3 DEF Shape
    <2>2. CASE i # 1 /\ j # 1
      <3>1. i - 1 = j - 1
        BY <2>2, <1>3 DEF Shape
      <3>2. QED BY <3>1, <1>1
    <2>3. QED BY <2>1, <2>2
  <1>7. \A i \in DOMAIN c : c[i].kind = "group" =>
           \E j \in DOMAIN c : i < j /\ c[j].kind = "batch-end"
    <2> SUFFICES ASSUME NEW i \in DOMAIN c, c[i].kind = "group"
                 PROVE  \E j \in DOMAIN c : i < j /\ c[j].kind = "batch-end"
      OBVIOUS
    <2>1. PICK j \in DOMAIN q : q[j].kind = "batch-end" /\ (i = 1 \/ i - 1 < j)
      <3>1. CASE i = 1
        BY <3>1, <1>1 DEF Shape
      <3>2. CASE i # 1
        BY <3>2, <1>3 DEF Shape
      <3>3. QED BY <3>1, <3>2
    <2>2. j + 1 \in DOMAIN c /\ c[j + 1] = q[j] /\ i < j + 1
      BY <2>1, <1>1, <1>2
    <2>3. QED BY <2>1, <2>2
  <1>8. (d \/ e.kind = "batch-end") <=> \E j \in DOMAIN c : c[j].kind = "batch-end"
    <2>1. d => \E j \in DOMAIN c : c[j].kind = "batch-end"
      <3> SUFFICES ASSUME d PROVE \E j \in DOMAIN c : c[j].kind = "batch-end"
        OBVIOUS
      <3>1. PICK j \in DOMAIN q : q[j].kind = "batch-end"
        BY DEF Shape
      <3>2. QED BY <3>1, <1>2
    <2>2. e.kind = "batch-end" => \E j \in DOMAIN c : c[j].kind = "batch-end"
      BY <1>1, <1>4
    <2>3. ASSUME NEW j \in DOMAIN c, c[j].kind = "batch-end" PROVE d \/ e.kind = "batch-end"
      BY <2>3, <1>1, <1>3 DEF Shape
    <2>4. QED BY <2>1, <2>2, <2>3
  <1>9. Ends(q) \subseteq Ends(c) /\ Ends(c) \subseteq Ends(q) \cup (IF e.kind = "batch-end" THEN {e.of[1]} ELSE {})
    BY <1>1, <1>2, <1>3 DEF Ends
  <1>10. e.kind = "batch-end" => e.of[1] \in Ends(c)
    BY <1>1, <1>4 DEF Ends
  <1>11. Awaits(c) <=> Awaits(q) \/ e.kind = "await-signal"
    BY <1>1, <1>2, <1>3, <1>4 DEF Awaits
  <1>12. Shape(c, d \/ e.kind = "batch-end")
    BY <1>5, <1>6, <1>7, <1>8 DEF Shape
  <1>13. QED BY <1>9, <1>10, <1>11, <1>12 DEF c

\* A message is put behind the queue.
LEMMA ShapeAppend ==
    ASSUME NEW S, NEW e \in S, NEW q \in Seq(S), NEW d \in BOOLEAN, Shape(q, d), ~Own(e)
    PROVE  /\ Shape(Append(q, e), d)
           /\ NoOwn(q) => NoOwn(Append(q, e))
           /\ Ends(Append(q, e)) = Ends(q)
           /\ Awaits(Append(q, e)) <=> Awaits(q)
  <1> DEFINE c == Append(q, e)
             n == Len(q)
  <1>1. /\ n \in Nat /\ c[n + 1] = e
        /\ \A j \in 1 .. n : c[j] = q[j]
        /\ DOMAIN q = 1 .. n /\ DOMAIN c = 1 .. n + 1
    BY AppendIs
  <1> HIDE DEF c, n
  <1>2. \A j \in DOMAIN q : j \in DOMAIN c /\ c[j] = q[j]
    BY <1>1
  <1>3. \A j \in DOMAIN c : (j \in DOMAIN q /\ c[j] = q[j]) \/ (j = n + 1 /\ ~Own(c[j]))
    BY <1>1
  <1>4. \A j \in DOMAIN c : c[j].kind \in {"batch-end", "group", "await-signal"} => j \in DOMAIN q /\ c[j] = q[j]
    BY <1>3 DEF Own
  <1>5. \A i, j \in DOMAIN c : i < j /\ Own(c[j]) => Own(c[i])
    <2> SUFFICES ASSUME NEW i \in DOMAIN c, NEW j \in DOMAIN c, i < j, Own(c[j]) PROVE Own(c[i])
      OBVIOUS
    <2>1. j \in DOMAIN q /\ i \in DOMAIN q /\ c[j] = q[j] /\ c[i] = q[i]
      BY <1>1, <1>3
    <2>2. QED BY <2>1 DEF Shape
  <1>6. \A i, j \in DOMAIN c : c[i].kind = "batch-end" /\ c[j].kind = "batch-end" => i = j
    BY <1>4 DEF Shape
  <1>7. \A i \in DOMAIN c : c[i].kind = "group" =>
           \E j \in DOMAIN c : i < j /\ c[j].kind = "batch-end"
    BY <1>2, <1>4 DEF Shape
  <1>8. d <=> \E j \in DOMAIN c : c[j].kind = "batch-end"
    BY <1>2, <1>4 DEF Shape
  <1>9. NoOwn(q) => NoOwn(c)
    BY <1>3 DEF NoOwn
  <1>10. Ends(c) = Ends(q)
    BY <1>2, <1>4 DEF Ends
  <1>11. Awaits(c) <=> Awaits(q)
    BY <1>2, <1>4 DEF Awaits
  <1>12. Shape(c, d)
    BY <1>5, <1>6, <1>7, <1>8 DEF Shape
  <1>13. QED BY <1>9, <1>10, <1>11, <1>12 DEF c

-----------------------------------------------------------------------------
(* The turns of the loop, of which the types, the queue and the chain are told. *)

\* The live loop goes to pc, with no group in hand.
GoesTo(pc) ==
    /\ RunnerOK(runner') /\ PcsOf(runner') = {pc} /\ HandOf(runner') = <<>>
    /\ runner'.armed = runner.armed

\* It was at pc.
IsAt(pc) == PcsOf(runner) = {pc} /\ HandOf(runner) = <<>>

LEMMA AtMoves ==
    ASSUME TypeInv, QueueInv', NEW l \in runner.loops, NEW pc \in Places \ {"group"},
           NEW r, r = At(l, pc), l.pc \notin {"group", "exit"}
    PROVE  /\ runner' = r => RunnerOK(runner') /\ runner'.armed = runner.armed
           /\ runner' = r /\ ~Live(l) =>
                 PcsOf(runner') = PcsOf(runner) /\ HandOf(runner') = HandOf(runner)
           /\ Live(l) => IsAt(l.pc)
           /\ runner' = r /\ Live(l) => GoesTo(pc)
           /\ runner' = [r EXCEPT !.armed = TRUE] /\ Live(l) =>
                 /\ RunnerOK(runner') /\ PcsOf(runner') = {pc} /\ HandOf(runner') = <<>>
                 /\ runner'.armed
           /\ runner' = [r EXCEPT !.processing = FALSE, !.running = FALSE] /\ Live(l) /\ pc = "exit"
                 => GoesTo(pc)
  <1> DEFINE m == [l EXCEPT !.pc = pc]
  <1>1. RunnerOK(runner)
    BY TypedRunner
  <1>2. l.pc \in Places /\ l.rest = <<>> /\ IsLoop(l) /\ (Live(l) => runner.running)
    BY <1>1 DEF RunnerOK, Hands, LoopTypes, IsRunner, Live
  <1>3. m.ep = l.ep /\ m.pc = pc /\ m.rest = <<>>
    BY <1>2 DEF IsLoop
  <1> HIDE DEF m
  <1>4. /\ r.loops = (runner.loops \ {l}) \cup {m} /\ r.epoch = runner.epoch
        /\ r.armed = runner.armed /\ r.running = runner.running
    BY <1>1 DEF RunnerOK, IsRunner, At, Moved, m
  <1>5. r = [running |-> r.running, processing |-> r.processing, epoch |-> r.epoch,
             loops |-> r.loops, rescues |-> r.rescues, lastLen |-> r.lastLen, armed |-> r.armed]
    BY <1>1 DEF RunnerOK, IsRunner, At, Moved
  <1> HIDE DEF At
  <1>6. IsRunner(runner') /\ Exclusive(runner')
    BY DEF QueueInv, Sound
  <1>7. <<>> \in Seq(Nat)
    OBVIOUS
  <1>8. ASSUME NEW s, IsRunner(s), Exclusive(s), s.epoch = r.epoch, s.loops = r.loops,
               s.armed \in BOOLEAN, s.running = r.running \/ (Live(l) /\ pc = "exit")
        PROVE  /\ RunnerOK(s)
               /\ ~Live(l) => PcsOf(s) = PcsOf(runner) /\ HandOf(s) = HandOf(runner)
               /\ Live(l) => IsAt(l.pc) /\ PcsOf(s) = {pc} /\ HandOf(s) = <<>>
    <2>1. LoopMove(runner, s, l, m)
      BY <1>1, <1>2, <1>3, <1>4, <1>7, <1>8 DEF Live, LoopMove
    <2>2. /\ RunnerOK(s)
          /\ l.ep # runner.epoch => PcsOf(s) = PcsOf(runner) /\ HandOf(s) = HandOf(runner)
          /\ l.ep = runner.epoch => /\ PcsOf(runner) = {l.pc} /\ HandOf(runner) = l.rest
                                   /\ PcsOf(s) = {m.pc} /\ HandOf(s) = m.rest
      BY <2>1, LoopMoves
    <2>3. QED BY <2>2, <1>2, <1>3 DEF Live, IsAt
  <1>9. runner.armed \in BOOLEAN
    BY <1>1 DEF RunnerOK
  <1>10. ASSUME runner' = r
         PROVE  /\ RunnerOK(runner') /\ runner'.armed = runner.armed
                /\ ~Live(l) => PcsOf(runner') = PcsOf(runner) /\ HandOf(runner') = HandOf(runner)
                /\ Live(l) => GoesTo(pc)
    BY <1>10, <1>4, <1>6, <1>8, <1>9 DEF GoesTo
  <1>11. ASSUME runner' = [r EXCEPT !.armed = TRUE], Live(l)
         PROVE  /\ RunnerOK(runner') /\ PcsOf(runner') = {pc} /\ HandOf(runner') = <<>>
                /\ runner'.armed
    <2>1. /\ runner'.armed /\ runner'.loops = r.loops /\ runner'.epoch = r.epoch
          /\ runner'.running = r.running
      BY <1>5, <1>11
    <2>2. QED BY <2>1, <1>6, <1>8, <1>11
  <1>12. ASSUME runner' = [r EXCEPT !.processing = FALSE, !.running = FALSE], Live(l), pc = "exit"
         PROVE  GoesTo(pc)
    <2>1. /\ runner'.armed = r.armed /\ runner'.loops = r.loops /\ runner'.epoch = r.epoch
      BY <1>5, <1>12
    <2>2. QED BY <2>1, <1>4, <1>6, <1>8, <1>9, <1>12 DEF GoesTo
  <1>13. Live(l) => IsAt(l.pc)
    <2> SUFFICES ASSUME Live(l) PROVE IsAt(l.pc)
      OBVIOUS
    <2>1. l \in LiveOf(runner)
      BY DEF LiveOf, Live
    <2>2. QED BY <2>1, <1>1, <1>2, HandIs DEF IsAt
  <1>14. QED BY <1>10, <1>11, <1>12, <1>13

\* What a turn of the loop has found.
Found(action) ==
    /\ IsAt("tick")
    /\ action = "pause-external" <=> chain.waiting \/ draw.busy
    /\ action = "consume-deferred" => chain.deferred # NoLink
    /\ action = "dequeue" =>
          /\ proc.queue # <<>>
          /\ chain.deferred # NoLink => Head(proc.queue).kind = "announcement"
          /\ chain.deferred = NoLink => ~Drains
    /\ action = "pre-replay-buffer" =>
          /\ chain.deferred = NoLink /\ chain.buffer # <<>> /\ proc.phase = "resolving"
          /\ proc.queue = <<>> \/ Head(proc.queue).kind = "end"
    /\ action = "finalize" => chain.deferred = NoLink /\ proc.queue = <<>> /\ ~Drains

LEMMA TurnFinds ==
    ASSUME TypeInv, QueueInv', NEW l \in runner.loops,
           NEW action \in {"pause-external", "consume-deferred", "dequeue", "pre-replay-buffer", "finalize"},
           Turn(l, action)
    PROVE  Found(action) /\ Live(l) /\ l.pc = "tick"
  <1>1. Live(l) /\ l.pc = "tick"
    BY DEF Turn
  <1>2. IsAt("tick")
    BY <1>1, AtMoves DEF Places
  <1>3. QED BY <1>1, <1>2 DEF Found, Turn, DecideNextStep, Drains, HeadIs

\* A turn of the loop takes it to pc.
LEMMA TurnGoes ==
    ASSUME TypeInv, QueueInv', NEW l \in runner.loops, NEW pc \in Places \ {"group"},
           Live(l), l.pc = "tick"
    PROVE  /\ runner' = At(l, pc) => GoesTo(pc)
           /\ runner' = runner /\ pc = "tick" => GoesTo(pc)
           /\ runner' = [At(l, pc) EXCEPT !.armed = TRUE] =>
                 /\ RunnerOK(runner') /\ PcsOf(runner') = {pc} /\ HandOf(runner') = <<>>
                 /\ runner'.armed
           /\ runner' = [At(l, pc) EXCEPT !.processing = FALSE, !.running = FALSE] /\ pc = "exit"
                 => GoesTo(pc)
  <1>1. IsAt("tick") /\ RunnerOK(runner)
    BY AtMoves, TypedRunner
  <1>2. runner' = runner /\ pc = "tick" => GoesTo(pc)
    BY <1>1 DEF GoesTo, IsAt
  <1>3. QED BY <1>2, AtMoves

LEMMA EmptyIsLenZero == ASSUME NEW S, NEW q \in Seq(S) PROVE q = <<>> <=> Len(q) = 0
  OBVIOUS

LEMMA TailOfGroup ==
    ASSUME NEW S, NEW q \in Seq(S), q # <<>>
    PROVE  Tail(q) \in Seq(S) /\ (Tail(q) # <<>> <=> Len(q) > 1)
  <1>1. Tail(q) \in Seq(S) /\ Len(Tail(q)) = Len(q) - 1 /\ Len(q) \in Nat /\ Len(q) > 0
    BY TailIs
  <1>2. Tail(q) = <<>> <=> Len(Tail(q)) = 0
    BY <1>1, EmptyIsLenZero
  <1>3. \A n \in Nat : n > 0 => (n - 1 # 0 <=> n > 1)
    OBVIOUS
  <1>4. QED BY <1>1, <1>2, <1>3

\* The events of a group that is being played.
LEMMA GroupGoes ==
    ASSUME TypeInv, QueueInv', NEW l \in runner.loops, Live(l), l.pc # "exit",
           NEW events \in Seq(Nat), events # <<>>, GroupStep(l, events)
    PROVE  /\ RunnerOK(runner') /\ runner'.armed = runner.armed
           /\ PcsOf(runner) = {l.pc} /\ HandOf(runner) = l.rest
           /\ HandOf(runner') = Tail(events)
           /\ PcsOf(runner') = {IF Tail(events) # <<>> THEN "group" ELSE "landing"}
  <1> DEFINE pc == IF Len(events) > 1 THEN "group" ELSE "landing"
             m == [l EXCEPT !.pc = pc, !.rest = Tail(events)]
  <1>1. runner' = Moved(l, m)
    BY DEF GroupStep
  <1>2. Tail(events) \in Seq(Nat) /\ (Tail(events) # <<>> <=> Len(events) > 1)
    BY TailOfGroup
  <1>3. pc = (IF Tail(events) # <<>> THEN "group" ELSE "landing") /\ pc \in Places
    BY <1>2 DEF Places
  <1>4. RunnerOK(runner)
    BY TypedRunner
  <1> HIDE DEF pc
  <1>5. m = [id |-> l.id, ep |-> l.ep, pc |-> pc, rest |-> Tail(events)]
    <2> DEFINE k == [l EXCEPT !.pc = pc]
    <2>1. k = [id |-> l.id, ep |-> l.ep, pc |-> pc, rest |-> l.rest]
      <3>1. IsLoop(l)
        BY <1>4 DEF RunnerOK, IsRunner
      <3>2. QED BY <3>1 DEF IsLoop
    <2>2. m = [k EXCEPT !.rest = Tail(events)]
      BY Zenon
    <2> HIDE DEF k, m
    <2>3. QED BY <2>1, <2>2
  <1> HIDE DEF m
  <1>6. /\ runner'.loops = (runner.loops \ {l}) \cup {m} /\ runner'.epoch = runner.epoch
        /\ runner'.armed = runner.armed /\ runner'.running = runner.running
    BY <1>1, <1>4 DEF RunnerOK, IsRunner, Moved
  <1>7. IsRunner(runner') /\ Exclusive(runner') /\ runner.armed \in BOOLEAN /\ runner.running
    BY <1>4 DEF QueueInv, Sound, RunnerOK, Hands, Live
  <1>8. /\ m.ep = l.ep /\ m.pc = pc /\ m.rest = Tail(events)
        /\ m.rest # <<>> <=> m.pc = "group"
    BY <1>2, <1>3, <1>5
  <1>9. LoopMove(runner, runner', l, m) /\ l.ep = runner.epoch
    BY <1>2, <1>3, <1>4, <1>6, <1>7, <1>8 DEF Live, LoopMove
  <1>11. /\ RunnerOK(runner') /\ PcsOf(runner) = {l.pc} /\ HandOf(runner) = l.rest
         /\ PcsOf(runner') = {m.pc} /\ HandOf(runner') = m.rest
    BY <1>9, LoopMoves
  <1>12. PcsOf(runner') = {pc} /\ HandOf(runner') = Tail(events)
    BY <1>8, <1>11, Zenon
  <1>13. PcsOf(runner') = {IF Tail(events) # <<>> THEN "group" ELSE "landing"}
    BY <1>3, <1>12
  <1>14. QED BY <1>6, <1>11, <1>12, <1>13, Zenon

\* The types, field by field.
Fields ==
    /\ proc.queue \in Seq(Entries) /\ proc.links \subseteq Keys /\ proc.phase \in Phases
    /\ proc.pending \subseteq Keys /\ proc.gen \in Nat /\ proc.ends \in Nat
    /\ IsFiniteSet(proc.links) /\ IsFiniteSet(proc.pending)
    /\ chain.solved \in Nat /\ chain.waiting \in BOOLEAN /\ chain.draining \in BOOLEAN
    /\ chain.buffer \in Seq(Nat) /\ chain.deferred \in Nat \cup {NoLink}
    /\ chain.announcing \in BOOLEAN /\ chain.ready \in BOOLEAN /\ chain.replaying \in BOOLEAN
    /\ draw.busy \in BOOLEAN /\ draw.sequences \in Nat
    /\ overlay.prev \subseteq Keys /\ overlay.inFlight \in BOOLEAN /\ overlay.current \in Nat
    /\ IsFiniteSet(overlay.resolutions)
    /\ \A r \in overlay.resolutions :
          r.id \in Nat \ {0} /\ r.at \in Stages /\ r.aborted \in BOOLEAN
    /\ log.got \in Seq(Nat) /\ log.played \in Seq(Nat)
    /\ server.phase \in Phases /\ server.links \in Nat /\ server.unsolved \in Nat
    /\ server.solving \in Nat \cup {NoLink} /\ server.chainings \in Nat /\ server.events \in Nat
    /\ server.syncs \in Nat /\ server.up \in BOOLEAN
    /\ HandOf(runner) \in Seq(Nat) /\ (HandOf(runner) # <<>> <=> PcsOf(runner) = {"group"})

LEMMA FieldsAreTyped == TypeInv => Fields
  <1> SUFFICES ASSUME TypeInv PROVE Fields
    OBVIOUS
  <1>1. HandOf(runner) \in Seq(Nat) /\ (HandOf(runner) # <<>> <=> PcsOf(runner) = {"group"})
    BY TypedRunner, HandIs
  <1>2. IsFiniteSet(proc.links) /\ IsFiniteSet(proc.pending)
    BY FS_Subset DEF TypeInv, QueueTypeOK
  <1>3. \A r \in overlay.resolutions : r \in [id : Nat \ {0}, at : Stages, aborted : BOOLEAN]
    BY DEF TypeInv, QueueTypeOK, OverlayType
  <1>4. QED
    BY <1>1, <1>2, <1>3
       DEF Fields, TypeInv, QueueTypeOK, ServerType, ProcType, ChainType, OverlayType

LEMMA ProcUpdates ==
    ASSUME NEW p \in ProcType
    PROVE  /\ \A q \in Seq(Entries) : [p EXCEPT !.queue = q] \in ProcType
           /\ \A ls \in SUBSET Keys : [p EXCEPT !.links = ls] \in ProcType
           /\ \A ph \in Phases : [p EXCEPT !.phase = ph] \in ProcType
           /\ \A ls \in SUBSET Keys : [p EXCEPT !.pending = ls] \in ProcType
           /\ \A n \in Nat : [p EXCEPT !.gen = n] \in ProcType
           /\ \A n \in Nat : [p EXCEPT !.ends = n] \in ProcType
           /\ \A q \in Seq(Entries), ph \in Phases :
                 [p EXCEPT !.queue = q, !.phase = ph] \in ProcType
           /\ \A n \in Nat, ls \in SUBSET Keys, ph \in Phases :
                 [p EXCEPT !.ends = n, !.links = ls, !.phase = ph] \in ProcType
  BY DEF ProcType

LEMMA RestIs ==
    ASSUME TypeInv, proc.queue # <<>>
    PROVE  /\ Rest \in ProcType
           /\ Rest.queue = Tail(proc.queue) /\ Rest.links = proc.links /\ Rest.phase = proc.phase
           /\ Rest.pending = proc.pending /\ Rest.gen = proc.gen /\ Rest.ends = proc.ends
           /\ Head(proc.queue) \in Entries /\ Tail(proc.queue) \in Seq(Entries)
  BY TailIs DEF Rest, TypeInv, QueueTypeOK, ProcType

ProcIs(queue, links, phase, pending, gen, ends) ==
    /\ proc'.queue = queue /\ proc'.links = links /\ proc'.phase = phase
    /\ proc'.pending = pending /\ proc'.gen = gen /\ proc'.ends = ends

ChainIs(solved, waiting, draining, buffer, deferred, ready, replaying) ==
    /\ chain'.solved = solved /\ chain'.waiting = waiting /\ chain'.draining = draining
    /\ chain'.buffer = buffer /\ chain'.deferred = deferred /\ chain'.ready = ready
    /\ chain'.replaying = replaying

\* A step of the page keeps the types if what it writes is typed.
DrawType == [busy : BOOLEAN, sequences : Nat]
LogType == [got : Seq(Nat), played : Seq(Nat)]

LEMMA TypesKept ==
    ASSUME TypeInv, QueueInv', RunnerOK(runner'), proc' \in ProcType, chain' \in ChainType,
           overlay' \in OverlayType, draw' \in DrawType, log' \in LogType,
           IsFiniteSet(proc'.links \cup proc'.pending), IsFiniteSet(overlay'.resolutions),
           UNCHANGED <<server, parked>>,
           dirty' \subseteq dirty \cup Wakes \cup {"links"}
    PROVE  TypeInv'
  <1>1. Wakes \subseteq {"queue", "links", "ready"}
    BY DEF Wakes
  <1>2. QueueTypeOK'
    BY <1>1 DEF TypeInv, QueueTypeOK, DrawType, LogType, RunnerOK, LoopTypes, IsRunner
  <1>3. QED BY <1>2 DEF TypeInv, RunnerOK

\* What wakes an effect.
LEMMA WakesAre ==
    /\ "queue" \in Wakes <=> proc'.queue # proc.queue /\ proc'.queue # <<>>
    /\ "links" \in Wakes <=> proc'.links # proc.links \/ proc'.phase # proc.phase
    /\ "ready" \in Wakes <=> chain'.ready /\ ~chain.ready
    /\ Wakes \subseteq {"queue", "links", "ready"}
  BY DEF Wakes

\* A step that leaves the chain of the page, the overlay and the log alone.
LEMMA TypesKeptByLoop ==
    ASSUME TypeInv, QueueInv', RunnerOK(runner'), Local,
           proc' = proc \/ (proc.queue # <<>> /\ proc' = Rest),
           UNCHANGED <<chain, draw, overlay, log>>
    PROVE  TypeInv'
  <1>1. proc' \in ProcType /\ proc'.links = proc.links /\ proc'.pending = proc.pending
    BY RestIs DEF TypeInv, QueueTypeOK
  <1>2. /\ chain' \in ChainType /\ overlay' \in OverlayType /\ draw' \in DrawType
        /\ log' \in LogType
        /\ IsFiniteSet(proc'.links \cup proc'.pending) /\ IsFiniteSet(overlay'.resolutions)
    BY <1>1 DEF TypeInv, QueueTypeOK, DrawType, LogType
  <1>3. UNCHANGED <<server, parked>> /\ dirty' = dirty \cup Wakes
    BY DEF Local
  <1>4. QED BY <1>1, <1>2, <1>3, TypesKept

-----------------------------------------------------------------------------
(* What the turns of the loop do. *)

SameChain ==
    ChainIs(chain.solved, chain.waiting, chain.draining, chain.buffer, chain.deferred, chain.ready,
            chain.replaying)
SameProc ==
    ProcIs(proc.queue, proc.links, proc.phase, proc.pending, proc.gen, proc.ends)
Popped ==
    ProcIs(Tail(proc.queue), proc.links, proc.phase, proc.pending, proc.gen, proc.ends)

Kind == Head(proc.queue).kind

LEMMA DequeueFinds ==
    ASSUME TypeInv, QueueInv', NEW l \in runner.loops,
           NEW kind \in Kinds, Dequeue(l, kind)
    PROVE  /\ Found("dequeue") /\ Live(l) /\ l.pc = "tick" /\ Kind = kind
           /\ proc' = Rest => Popped
           /\ proc.queue # <<>> /\ Head(proc.queue) \in Entries /\ Rest \in ProcType
  <1>1. Turn(l, "dequeue") /\ Kind = kind
    BY DEF Dequeue, Kind
  <1>2. Found("dequeue") /\ Live(l) /\ l.pc = "tick"
    BY <1>1, TurnFinds
  <1>3. proc.queue # <<>>
    BY <1>2 DEF Found
  <1>4. QED BY <1>1, <1>2, <1>3, RestIs DEF Popped, ProcIs

\* The turns that take the head of the queue, and leave the rest alone.
Pops(kind) ==
    /\ Found("dequeue") /\ Kind = kind
    /\ Popped /\ UNCHANGED <<chain, draw, overlay, log>> /\ Local /\ TypeInv'

LEMMA SimplePops ==
    ASSUME TypeInv, QueueInv', NEW l \in runner.loops, NEW kind \in Kinds, Dequeue(l, kind),
           proc' = Rest, RunnerOK(runner'), UNCHANGED <<chain, draw, overlay, log>>, Local
    PROVE  Pops(kind)
  <1>1. Found("dequeue") /\ Kind = kind /\ Popped /\ proc.queue # <<>>
    BY DequeueFinds
  <1>2. TypeInv'
    BY <1>1, TypesKeptByLoop
  <1>3. QED BY <1>1, <1>2 DEF Pops

LEMMA ChainingDoes ==
    ASSUME TypeInv, QueueInv', NEW l \in runner.loops, DispatchChaining(l)
    PROVE  Pops("chaining") /\ \E pc \in {"flash", "hold"} : GoesTo(pc)
  <1>1. Dequeue(l, "chaining") /\ "chaining" \in Kinds
    BY DEF DispatchChaining, Kinds
  <1>2. Live(l) /\ l.pc = "tick"
    BY <1>1, DequeueFinds
  <1>3. \E pc \in {"flash", "hold"} : GoesTo(pc)
    BY <1>2, TurnGoes DEF DispatchChaining, Places
  <1>4. Pops("chaining")
    BY <1>1, <1>3, SimplePops DEF DispatchChaining, GoesTo
  <1>5. QED BY <1>3, <1>4

LEMMA BarrierDoes ==
    ASSUME TypeInv, QueueInv', NEW l \in runner.loops, DispatchBarrier(l)
    PROVE  Pops("barrier") /\ \E pc \in {"draws", "tick"} : GoesTo(pc)
  <1>1. Dequeue(l, "barrier") /\ "barrier" \in Kinds
    BY DEF DispatchBarrier, Kinds
  <1>2. Live(l) /\ l.pc = "tick"
    BY <1>1, DequeueFinds
  <1>3. \E pc \in {"draws", "tick"} : GoesTo(pc)
    BY <1>2, TurnGoes DEF DispatchBarrier, Places
  <1>4. Pops("barrier")
    BY <1>1, <1>3, SimplePops DEF DispatchBarrier, GoesTo
  <1>5. QED BY <1>3, <1>4

LEMMA AnnouncementDoes ==
    ASSUME TypeInv, QueueInv', NEW l \in runner.loops, DispatchAnnouncement(l)
    PROVE  Pops("announcement") /\ GoesTo("pre")
  <1>1. Dequeue(l, "announcement") /\ "announcement" \in Kinds
    BY DEF DispatchAnnouncement, Kinds
  <1>2. Live(l) /\ l.pc = "tick"
    BY <1>1, DequeueFinds
  <1>3. GoesTo("pre")
    BY <1>2, TurnGoes DEF DispatchAnnouncement, Places
  <1>4. Pops("announcement")
    BY <1>1, <1>3, SimplePops DEF DispatchAnnouncement, GoesTo
  <1>5. QED BY <1>3, <1>4

LEMMA AwaitSignalDoes ==
    ASSUME TypeInv, QueueInv', NEW l \in runner.loops, DispatchAwaitSignal(l)
    PROVE  /\ Pops("await-signal")
           /\ \/ chain.ready /\ GoesTo("tick")
              \/ /\ ~chain.ready /\ RunnerOK(runner') /\ PcsOf(runner') = {"exit"}
                 /\ HandOf(runner') = <<>> /\ runner'.armed
  <1>1. Dequeue(l, "await-signal") /\ "await-signal" \in Kinds
    BY DEF DispatchAwaitSignal, Kinds
  <1>2. Live(l) /\ l.pc = "tick"
    BY <1>1, DequeueFinds
  <1>3. \/ chain.ready /\ GoesTo("tick")
        \/ /\ ~chain.ready /\ RunnerOK(runner') /\ PcsOf(runner') = {"exit"}
           /\ HandOf(runner') = <<>> /\ runner'.armed
    BY <1>2, TurnGoes DEF DispatchAwaitSignal, Places
  <1>4. Pops("await-signal")
    BY <1>1, <1>3, SimplePops DEF DispatchAwaitSignal, GoesTo
  <1>5. QED BY <1>3, <1>4

SameButAnnouncing(c) ==
    /\ c.solved = chain.solved /\ c.waiting = chain.waiting /\ c.draining = chain.draining
    /\ c.buffer = chain.buffer /\ c.deferred = chain.deferred /\ c.ready = chain.ready
    /\ c.replaying = chain.replaying

\* MSG_CHAIN_SOLVING of link x, with q left in the queue: put off, or begun.
PutOff(x, q) ==
    /\ chain.solved = 0 /\ x > 0
    /\ ChainIs(chain.solved, chain.waiting, chain.draining, chain.buffer, x, chain.ready,
               chain.replaying)
    /\ ProcIs(<<Entry("announcement", <<>>)>> \o q, proc.links, proc.phase, proc.pending, proc.gen,
              proc.ends)
    /\ GoesTo("tick")
Begun(x, q) ==
    /\ ChainIs(chain.solved, chain.waiting, chain.draining, <<>>, NoLink, chain.ready,
               chain.replaying)
    /\ ProcIs(q, proc.links, "resolving", proc.pending, proc.gen, proc.ends)
    /\ GoesTo(IF chain.solved = 0 /\ x = 0 THEN "tick" ELSE "hold")

LEMMA HandleSolvingDoes ==
    ASSUME TypeInv, QueueInv', NEW l \in runner.loops, Live(l), l.pc = "tick",
           NEW x \in Nat, NEW q \in Seq(Entries), HandleSolving(l, x, q)
    PROVE  /\ PutOff(x, q) \/ Begun(x, q)
           /\ UNCHANGED <<draw, overlay, log>> /\ Local /\ TypeInv'
  <1>1. Entry("announcement", <<>>) \in Entries
    BY DEF Entry, Entries, Kinds
  <1>2. <<Entry("announcement", <<>>)>> \o q \in Seq(Entries)
    BY <1>1, ConsIs
  <1>3. proc \in ProcType /\ chain \in ChainType
    BY DEF TypeInv, QueueTypeOK
  <1>4. "resolving" \in Phases
    BY DEF Phases
  <1>5. CASE chain.solved = 0 /\ x > 0 /\ ~chain.announcing
    <2>1. /\ chain' = [chain EXCEPT !.deferred = x]
          /\ proc' = [proc EXCEPT !.queue = <<Entry("announcement", <<>>)>> \o q]
          /\ runner' = runner
      BY <1>5 DEF HandleSolving
    <2>2. GoesTo("tick")
      BY <2>1, TurnGoes DEF Places
    <2>3. /\ ChainIs(chain.solved, chain.waiting, chain.draining, chain.buffer, x, chain.ready,
                     chain.replaying)
          /\ chain' \in ChainType
      BY <2>1, <1>3 DEF ChainIs, ChainType
    <2> DEFINE p == <<Entry("announcement", <<>>)>> \o q
    <2> HIDE DEF p
    <2>4. /\ proc' \in ProcType
          /\ ProcIs(p, proc.links, proc.phase, proc.pending, proc.gen, proc.ends)
      BY <2>1, <1>2, <1>3, ProcUpdates DEF ProcIs, ProcType, p
    <2>5. PutOff(x, q)
      BY <1>5, <2>2, <2>3, <2>4 DEF PutOff, p
    <2>6. QED BY <2>2, <2>3, <2>4, <2>5, TypesKept
         DEF HandleSolving, Local, GoesTo, ProcIs, TypeInv, QueueTypeOK, DrawType, LogType
  <1>6. CASE ~(chain.solved = 0 /\ x > 0 /\ ~chain.announcing)
    <2> DEFINE pc == IF chain.solved = 0 /\ x = 0 THEN "tick" ELSE "hold"
    <2>1. /\ chain' = [chain EXCEPT !.announcing = FALSE, !.buffer = <<>>, !.deferred = NoLink]
          /\ proc' = [proc EXCEPT !.queue = q, !.phase = "resolving"]
          /\ runner' = At(l, pc)
      BY <1>6 DEF HandleSolving
    <2>2. pc \in Places \ {"group"}
      BY DEF Places
    <2> HIDE DEF pc
    <2>3. GoesTo(pc)
      BY <2>1, <2>2, TurnGoes
    <2>4. /\ ChainIs(chain.solved, chain.waiting, chain.draining, <<>>, NoLink, chain.ready,
                     chain.replaying)
          /\ chain' \in ChainType
      <3> DEFINE c == [chain EXCEPT !.announcing = FALSE]
                 d == [c EXCEPT !.buffer = <<>>]
      <3>1. c \in ChainType /\ SameButAnnouncing(c)
        BY <1>3 DEF ChainType, SameButAnnouncing
      <3>2. chain' = [d EXCEPT !.deferred = NoLink]
        BY <2>1, Zenon
      <3> HIDE DEF c
      <3>3. <<>> \in Seq(Nat) /\ NoLink \in Nat \cup {NoLink}
        OBVIOUS
      <3>4. /\ d \in ChainType /\ d.buffer = <<>>
            /\ d.solved = chain.solved /\ d.waiting = chain.waiting
            /\ d.draining = chain.draining /\ d.ready = chain.ready
            /\ d.replaying = chain.replaying
        BY <3>1, <3>3 DEF ChainType, SameButAnnouncing
      <3> HIDE DEF d
      <3>5. QED BY <3>2, <3>3, <3>4 DEF ChainIs, ChainType
    <2>5. /\ proc' \in ProcType
          /\ ProcIs(q, proc.links, "resolving", proc.pending, proc.gen, proc.ends)
      BY <2>1, <1>3, <1>4, ProcUpdates DEF ProcIs, ProcType
    <2>6. Begun(x, q)
      BY <2>3, <2>4, <2>5 DEF Begun, pc
    <2>7. QED BY <2>3, <2>4, <2>5, <2>6, TypesKept
         DEF HandleSolving, Local, GoesTo, ProcIs, TypeInv, QueueTypeOK, DrawType, LogType
  <1>7. QED BY <1>5, <1>6

LEMMA ConsumeDoes ==
    ASSUME TypeInv, QueueInv', NEW l \in runner.loops, ConsumeDeferred(l)
    PROVE  /\ Found("consume-deferred")
           /\ PutOff(chain.deferred, proc.queue) \/ Begun(chain.deferred, proc.queue)
           /\ UNCHANGED <<draw, overlay, log>> /\ Local /\ TypeInv'
  <1>1. Found("consume-deferred") /\ Live(l) /\ l.pc = "tick"
    BY TurnFinds DEF ConsumeDeferred
  <1>2. chain.deferred \in Nat /\ proc.queue \in Seq(Entries)
    BY <1>1, FieldsAreTyped DEF Fields, Found
  <1>3. QED BY <1>1, <1>2, HandleSolvingDoes DEF ConsumeDeferred

LEMMA SolvingDoes ==
    ASSUME TypeInv, QueueInv', NEW l \in runner.loops, DispatchSolving(l)
    PROVE  /\ Found("dequeue") /\ Kind = "solving" /\ Subject \in Nat
           /\ PutOff(Subject, Tail(proc.queue)) \/ Begun(Subject, Tail(proc.queue))
           /\ UNCHANGED <<draw, overlay, log>> /\ Local /\ TypeInv'
  <1>1. Dequeue(l, "solving") /\ "solving" \in Kinds
    BY DEF DispatchSolving, Kinds
  <1>2. /\ Found("dequeue") /\ Live(l) /\ l.pc = "tick" /\ Kind = "solving"
        /\ proc.queue # <<>> /\ Head(proc.queue) \in Entries
    BY <1>1, DequeueFinds
  <1>3. Subject \in Nat /\ Tail(proc.queue) \in Seq(Entries)
    BY <1>2, RestIs DEF Subject, Entries, Kind
  <1>4. QED BY <1>2, <1>3, HandleSolvingDoes DEF DispatchSolving

\* MSG_CHAIN_SOLVED.
LinksBut(x) == {k \in proc.links : ~(k.idx = x /\ k.gen = proc.ends)}

LEMMA SolvedDoes ==
    ASSUME TypeInv, QueueInv', NEW l \in runner.loops, DispatchSolved(l)
    PROVE  /\ Found("dequeue") /\ Kind = "solved" /\ Subject \in Nat
           /\ ProcIs(Tail(proc.queue), LinksBut(Subject), proc.phase, proc.pending, proc.gen,
                     proc.ends)
           /\ ChainIs(chain.solved + 1, LinksBut(Subject) # proc.links, chain.draining,
                      chain.buffer, chain.deferred, chain.ready, chain.replaying)
           /\ GoesTo(IF LinksBut(Subject) # proc.links THEN "exit" ELSE "tick")
           /\ UNCHANGED <<draw, overlay, log>> /\ Local /\ TypeInv'
  <1> DEFINE left == LinksBut(Subject)
             dropped == left # proc.links
             pc == IF dropped THEN "exit" ELSE "tick"
  <1>1. Dequeue(l, "solved") /\ "solved" \in Kinds
    BY DEF DispatchSolved, Kinds
  <1>2. /\ Found("dequeue") /\ Live(l) /\ l.pc = "tick" /\ Kind = "solved"
        /\ proc.queue # <<>> /\ Head(proc.queue) \in Entries /\ Rest \in ProcType
    BY <1>1, DequeueFinds
  <1>3. Subject \in Nat
    BY <1>2 DEF Subject, Entries, Kind
  <1>4. /\ proc' = [Rest EXCEPT !.links = left]
        /\ chain' = [chain EXCEPT !.solved = @ + 1, !.waiting = dropped]
        /\ runner' = At(l, pc)
    BY DEF DispatchSolved, LinksBut
  <1>5. left \subseteq proc.links /\ proc.links \subseteq Keys /\ dropped \in BOOLEAN
        /\ pc \in Places \ {"group"}
    BY FieldsAreTyped DEF Fields, LinksBut, Places
  <1> HIDE DEF left, dropped
  <1>6. GoesTo(pc)
    BY <1>2, <1>4, <1>5, TurnGoes
  <1>7. /\ ProcIs(Tail(proc.queue), left, proc.phase, proc.pending, proc.gen, proc.ends)
        /\ proc' \in ProcType
    BY <1>2, <1>4, <1>5, RestIs, ProcUpdates DEF ProcIs, ProcType
  <1>8. /\ ChainIs(chain.solved + 1, dropped, chain.draining, chain.buffer, chain.deferred,
                   chain.ready, chain.replaying)
        /\ chain' \in ChainType
    <2>1. chain.solved + 1 \in Nat /\ chain \in ChainType
      BY FieldsAreTyped DEF Fields, TypeInv, QueueTypeOK
    <2> DEFINE n == chain.solved + 1
    <2> HIDE DEF n
    <2>2. chain' = [chain EXCEPT !.solved = n, !.waiting = dropped]
      BY <1>4 DEF n
    <2>3. [chain EXCEPT !.solved = n] \in ChainType
      BY <2>1 DEF ChainType, n
    <2>4. chain' \in ChainType
      <3> DEFINE c == [chain EXCEPT !.solved = n]
      <3> HIDE DEF c
      <3>1. chain' = [c EXCEPT !.waiting = dropped]
        BY <2>2, Zenon DEF c
      <3>2. c \in ChainType
        BY <2>3 DEF c
      <3>3. QED BY <1>5, <3>1, <3>2 DEF ChainType
    <2>5. ChainIs(n, dropped, chain.draining, chain.buffer, chain.deferred, chain.ready,
                  chain.replaying)
      BY <2>1, <2>2 DEF ChainIs, ChainType
    <2>6. QED BY <2>4, <2>5 DEF n
  <1>9. IsFiniteSet(proc'.links \cup proc'.pending)
    <2>1. proc'.links \cup proc'.pending \in SUBSET (proc.links \cup proc.pending)
      BY <1>5, <1>7 DEF ProcIs
    <2>2. QED BY <2>1, FS_Subset DEF TypeInv, QueueTypeOK
  <1>10. UNCHANGED <<draw, overlay, log>> /\ Local
    BY DEF DispatchSolved
  <1>11. TypeInv'
    BY <1>6, <1>7, <1>8, <1>9, <1>10, TypesKept
       DEF Local, GoesTo, TypeInv, QueueTypeOK, DrawType, LogType
  <1>12. QED BY <1>2, <1>3, <1>6, <1>7, <1>8, <1>10, <1>11 DEF left, dropped

\* MSG_CHAIN_END.
LEMMA EndDoes ==
    ASSUME TypeInv, QueueInv', NEW l \in runner.loops, DispatchEnd(l)
    PROVE  /\ Found("dequeue") /\ Kind = "end"
           /\ \E ph \in {"building", "idle"} :
                 ProcIs(Tail(proc.queue), {k \in proc.links : k.gen > proc.ends}, ph, proc.pending,
                        proc.gen, proc.ends + 1)
           /\ ChainIs(0, FALSE, FALSE, <<>>, NoLink, TRUE, chain.replaying)
           /\ GoesTo("settle")
           /\ UNCHANGED <<draw, overlay, log>> /\ Local /\ TypeInv'
  <1> DEFINE left == {k \in proc.links : k.gen > proc.ends}
             ph == IF left # {} THEN "building" ELSE "idle"
  <1>1. Dequeue(l, "end") /\ "end" \in Kinds
    BY DEF DispatchEnd, Kinds
  <1>2. /\ Found("dequeue") /\ Live(l) /\ l.pc = "tick" /\ Kind = "end"
        /\ proc.queue # <<>> /\ Head(proc.queue) \in Entries /\ Rest \in ProcType
    BY <1>1, DequeueFinds
  <1>4. /\ proc' = [Rest EXCEPT !.ends = @ + 1, !.links = left, !.phase = ph]
        /\ chain' = [ChainInit EXCEPT !.replaying = chain.replaying]
        /\ runner' = At(l, "settle")
    BY DEF DispatchEnd
  <1>5. left \subseteq proc.links /\ proc.links \subseteq Keys /\ ph \in {"building", "idle"}
        /\ ph \in Phases /\ proc.ends \in Nat /\ proc.ends + 1 \in Nat
    BY FieldsAreTyped DEF Fields, Phases
  <1> HIDE DEF left, ph
  <1>6. GoesTo("settle")
    BY <1>2, <1>4, TurnGoes DEF Places
  <1>7. /\ ProcIs(Tail(proc.queue), left, ph, proc.pending, proc.gen, proc.ends + 1)
        /\ proc' \in ProcType
    <2> DEFINE n == proc.ends + 1
    <2>1. Rest.ends + 1 = n
      BY <1>2, RestIs
    <2> HIDE DEF n
    <2>2. proc' = [Rest EXCEPT !.ends = n, !.links = left, !.phase = ph]
      BY <1>4, <2>1
    <2>3. n \in Nat
      BY <1>5 DEF n
    <2>4. proc' \in ProcType
      BY <1>2, <1>5, <2>2, <2>3, ProcUpdates
    <2>5. /\ proc'.queue = Rest.queue /\ proc'.links = left /\ proc'.phase = ph
          /\ proc'.pending = Rest.pending /\ proc'.gen = Rest.gen /\ proc'.ends = n
      BY <1>2, <2>2 DEF ProcType
    <2>6. QED BY <1>2, <2>4, <2>5, RestIs DEF ProcIs, n
  <1>8. /\ ChainIs(0, FALSE, FALSE, <<>>, NoLink, TRUE, chain.replaying)
        /\ chain' \in ChainType
    <2>1. chain' = [solved |-> 0, waiting |-> FALSE, draining |-> FALSE, buffer |-> <<>>,
                    deferred |-> NoLink, announcing |-> FALSE, ready |-> TRUE,
                    replaying |-> chain.replaying]
      BY <1>4 DEF ChainInit
    <2>2. chain.replaying \in BOOLEAN
      BY FieldsAreTyped DEF Fields
    <2>3. <<>> \in Seq(Nat) /\ 0 \in Nat /\ NoLink \in Nat \cup {NoLink}
      OBVIOUS
    <2>4. chain' \in ChainType
      BY <2>1, <2>2, <2>3 DEF ChainType
    <2>5. QED BY <2>1, <2>4 DEF ChainIs
  <1>9. IsFiniteSet(proc'.links \cup proc'.pending)
    <2>1. proc'.links \cup proc'.pending \in SUBSET (proc.links \cup proc.pending)
      BY <1>5, <1>7 DEF ProcIs
    <2>2. QED BY <2>1, FS_Subset DEF TypeInv, QueueTypeOK
  <1>10. UNCHANGED <<draw, overlay, log>> /\ Local
    BY DEF DispatchEnd
  <1>11. TypeInv'
    BY <1>6, <1>7, <1>8, <1>9, <1>10, TypesKept
       DEF Local, GoesTo, TypeInv, QueueTypeOK, DrawType, LogType
  <1>12. QED BY <1>2, <1>5, <1>6, <1>7, <1>8, <1>10, <1>11 DEF left

\* A board event is buffered, or played.
Buffers(e) ==
    /\ ShouldBuffer
    /\ ChainIs(chain.solved, chain.waiting, chain.draining, Append(chain.buffer, e), chain.deferred,
               chain.ready, chain.replaying)
    /\ draw' = draw /\ log' = log
Plays(e) ==
    /\ ~ShouldBuffer
    /\ SameChain
    /\ log'.played = Append(log.played, e) /\ log'.got = log.got

LEMMA ProcessEventDoes ==
    ASSUME TypeInv, NEW e \in Nat, ProcessEvent(e)
    PROVE  /\ Buffers(e) \/ Plays(e)
           /\ chain' \in ChainType /\ draw' \in DrawType /\ log' \in LogType
  <1>1. chain \in ChainType /\ draw \in DrawType /\ log \in LogType
    BY DEF TypeInv, QueueTypeOK, DrawType, LogType
  <1>2. CASE ShouldBuffer
    <2>1. chain' = [chain EXCEPT !.buffer = Append(chain.buffer, e)] /\ draw' = draw /\ log' = log
      BY <1>2 DEF ProcessEvent
    <2>2. Append(chain.buffer, e) \in Seq(Nat)
      BY <1>1, AppendIs DEF ChainType
    <2> DEFINE b == Append(chain.buffer, e)
    <2> HIDE DEF b
    <2>3. chain' = [chain EXCEPT !.buffer = b] /\ b \in Seq(Nat)
      BY <2>1, <2>2 DEF b
    <2>4. chain' \in ChainType
      BY <1>1, <2>3 DEF ChainType
    <2>5. ChainIs(chain.solved, chain.waiting, chain.draining, b, chain.deferred, chain.ready,
                  chain.replaying)
      BY <1>1, <2>3 DEF ChainIs, ChainType
    <2>6. QED BY <1>1, <1>2, <2>1, <2>4, <2>5 DEF Buffers, b
  <1>3. CASE ~ShouldBuffer
    <2>1. /\ log' = [log EXCEPT !.played = Append(log.played, e)] /\ chain' = chain
          /\ draw' = draw \/ draw' = [busy |-> TRUE, sequences |-> draw.sequences + 1]
      BY <1>3 DEF ProcessEvent
    <2> DEFINE p == Append(log.played, e)
    <2>2. p \in Seq(Nat)
      BY <1>1, AppendIs DEF LogType
    <2> HIDE DEF p
    <2>3. log' = [log EXCEPT !.played = p]
      BY <2>1 DEF p
    <2>4. log' \in LogType /\ log'.played = p /\ log'.got = log.got
      BY <1>1, <2>2, <2>3 DEF LogType
    <2>5. draw' \in DrawType
      <3>1. draw.sequences \in Nat /\ draw.sequences + 1 \in Nat
        BY <1>1 DEF DrawType
      <3>2. [busy |-> TRUE, sequences |-> draw.sequences + 1] \in DrawType
        BY <3>1 DEF DrawType
      <3>3. QED BY <1>1, <2>1, <3>2
    <2>6. SameChain
      BY <2>1 DEF SameChain, ChainIs
    <2>7. QED BY <1>1, <1>3, <2>1, <2>4, <2>5, <2>6 DEF Plays, p
  <1>4. QED BY <1>2, <1>3

LEMMA EventDoes ==
    ASSUME TypeInv, QueueInv', NEW l \in runner.loops, DispatchEvent(l)
    PROVE  /\ Found("dequeue") /\ Kind = "event" /\ Subject \in Nat /\ Head(proc.queue).of = <<Subject>>
           /\ Popped
           /\ \/ Buffers(Subject) /\ GoesTo("tick")
              \/ Plays(Subject) /\ \E pc \in {"exit", "travel"} : GoesTo(pc)
           /\ overlay' = overlay /\ Local /\ TypeInv'
  <1> DEFINE pc == IF ShouldBuffer THEN "tick" ELSE IF Subject \in Draws THEN "exit" ELSE "travel"
  <1>1. Dequeue(l, "event") /\ "event" \in Kinds
    BY DEF DispatchEvent, Kinds
  <1>2. /\ Found("dequeue") /\ Live(l) /\ l.pc = "tick" /\ Kind = "event"
        /\ proc.queue # <<>> /\ Head(proc.queue) \in Entries /\ Rest \in ProcType
    BY <1>1, DequeueFinds
  <1>3. Subject \in Nat /\ Head(proc.queue).of = <<Subject>>
    <2>1. Head(proc.queue).of \in Seq(Nat) /\ Len(Head(proc.queue).of) = 1
      BY <1>2 DEF Entries, Kind
    <2>2. QED BY <2>1 DEF Subject
  <1>4. proc' = Rest /\ ProcessEvent(Subject) /\ runner' = At(l, pc)
    BY DEF DispatchEvent
  <1>5. pc \in Places \ {"group"}
    BY DEF Places
  <1>6. GoesTo(pc)
    BY <1>2, <1>4, <1>5, TurnGoes
  <1>7. /\ Buffers(Subject) \/ Plays(Subject)
        /\ chain' \in ChainType /\ draw' \in DrawType /\ log' \in LogType
    BY <1>3, <1>4, ProcessEventDoes
  <1>8. \/ Buffers(Subject) /\ GoesTo("tick")
        \/ Plays(Subject) /\ \E p \in {"exit", "travel"} : GoesTo(p)
    BY <1>6, <1>7 DEF Buffers, Plays
  <1>9. Popped
    BY <1>1, <1>4, DequeueFinds
  <1>10. overlay' = overlay /\ Local
    BY DEF DispatchEvent
  <1>11. proc' \in ProcType
    BY <1>2, <1>4
  <1> HIDE DEF pc
  <1>12. TypeInv'
    BY <1>6, <1>7, <1>9, <1>10, <1>11, TypesKept
       DEF Local, GoesTo, TypeInv, QueueTypeOK, Popped, ProcIs
  <1>13. QED BY <1>2, <1>3, <1>8, <1>9, <1>10, <1>12

\* The first event of a group, and the next.
GroupFrom(events) ==
    /\ RunnerOK(runner') /\ runner'.armed = runner.armed
    /\ HandOf(runner') = Tail(events)
    /\ PcsOf(runner') = {IF Tail(events) # <<>> THEN "group" ELSE "landing"}
    /\ Head(events) \in Nat
    /\ Buffers(Head(events)) \/ Plays(Head(events))

LEMMA GroupDoes ==
    ASSUME TypeInv, QueueInv', NEW l \in runner.loops, DispatchGroup(l)
    PROVE  /\ Found("dequeue") /\ Kind = "group" /\ Popped
           /\ Head(proc.queue).of \in Seq(Nat) /\ Head(proc.queue).of # <<>>
           /\ GroupFrom(Head(proc.queue).of)
           /\ overlay' = overlay /\ Local /\ TypeInv'
  <1> DEFINE events == Head(proc.queue).of
  <1>1. Dequeue(l, "group") /\ "group" \in Kinds
    BY DEF DispatchGroup, Kinds
  <1>2. /\ Found("dequeue") /\ Live(l) /\ l.pc = "tick" /\ Kind = "group"
        /\ proc.queue # <<>> /\ Head(proc.queue) \in Entries /\ Rest \in ProcType
    BY <1>1, DequeueFinds
  <1>3. events \in Seq(Nat) /\ events # <<>>
    BY <1>2 DEF Entries, Kind
  <1>4. proc' = Rest /\ GroupStep(l, events) /\ overlay' = overlay /\ Local
    BY DEF DispatchGroup
  <1> HIDE DEF events
  <1>5. /\ RunnerOK(runner') /\ runner'.armed = runner.armed
        /\ HandOf(runner') = Tail(events)
        /\ PcsOf(runner') = {IF Tail(events) # <<>> THEN "group" ELSE "landing"}
    BY <1>2, <1>3, <1>4, GroupGoes
  <1>6. Head(events) \in Nat
    BY <1>3
  <1>7. /\ Buffers(Head(events)) \/ Plays(Head(events))
        /\ chain' \in ChainType /\ draw' \in DrawType /\ log' \in LogType
    BY <1>4, <1>6, ProcessEventDoes DEF GroupStep
  <1>8. Popped /\ proc' \in ProcType
    BY <1>1, <1>2, <1>4, DequeueFinds
  <1>9. TypeInv'
    BY <1>4, <1>5, <1>7, <1>8, TypesKept DEF Local, TypeInv, QueueTypeOK, Popped, ProcIs
  <1>10. QED BY <1>2, <1>3, <1>4, <1>5, <1>6, <1>7, <1>8, <1>9 DEF events, GroupFrom

LEMMA StaggerDoes ==
    ASSUME TypeInv, QueueInv', NEW l \in runner.loops, GroupStagger(l)
    PROVE  /\ Quiet /\ PcsOf(runner) = {"group"} /\ HandOf(runner) # <<>>
           /\ GroupFrom(HandOf(runner))
           /\ proc' = proc /\ overlay' = overlay /\ Local /\ TypeInv'
  <1>1. /\ Quiet /\ l.pc = "group" /\ GroupStep(l, l.rest) /\ proc' = proc /\ overlay' = overlay
        /\ Local
    BY DEF GroupStagger
  <1>2. RunnerOK(runner)
    BY TypedRunner
  <1>3. Live(l) /\ l.rest # <<>> /\ l.rest \in Seq(Nat)
    BY <1>1, <1>2 DEF RunnerOK, Hands, LoopTypes, Live
  <1> DEFINE events == l.rest
  <1> HIDE DEF events
  <1>4. /\ RunnerOK(runner') /\ runner'.armed = runner.armed
        /\ PcsOf(runner) = {l.pc} /\ HandOf(runner) = l.rest
        /\ HandOf(runner') = Tail(events)
        /\ PcsOf(runner') = {IF Tail(events) # <<>> THEN "group" ELSE "landing"}
    <2>1. events \in Seq(Nat) /\ events # <<>> /\ GroupStep(l, events)
      BY <1>1, <1>3 DEF events
    <2>2. QED BY <1>1, <1>3, <2>1, GroupGoes
  <1>5. Head(events) \in Nat
    BY <1>3 DEF events
  <1>6. /\ Buffers(Head(events)) \/ Plays(Head(events))
        /\ chain' \in ChainType /\ draw' \in DrawType /\ log' \in LogType
    BY <1>1, <1>5, ProcessEventDoes DEF GroupStep, events
  <1>7. TypeInv'
    BY <1>1, <1>4, <1>6, TypesKept DEF Local, TypeInv, QueueTypeOK
  <1>8. QED BY <1>1, <1>3, <1>4, <1>5, <1>6, <1>7 DEF events, GroupFrom

Resolutions == [id : Nat \ {0}, at : Stages, aborted : BOOLEAN]

\* The smallest number that is not in use exists.
LEMMA UnusedIs ==
    ASSUME NEW ids, IsFiniteSet(ids)
    PROVE  Unused(ids) \in Nat \ {0} /\ Unused(ids) \notin ids
  <1> DEFINE n == Cardinality(ids) + 1
  <1>1. Cardinality(ids) \in Nat
    BY FS_CardinalityType
  <1>2. n \in Nat /\ n > 0 /\ IsFiniteSet(1 .. n) /\ Cardinality(1 .. n) = n
    <2>1. n \in Int /\ 1 \in Int /\ n >= 1
      BY <1>1
    <2>2. IsFiniteSet(1 .. n) /\ Cardinality(1 .. n) = IF 1 > n THEN 0 ELSE n - 1 + 1
      BY <2>1, FS_Interval
    <2>3. QED BY <1>1, <2>1, <2>2
  <1>3. \E m \in 1 .. n : m \notin ids
    <2> SUFFICES ASSUME 1 .. n \subseteq ids PROVE FALSE
      OBVIOUS
    <2>1. Cardinality(1 .. n) <= Cardinality(ids)
      BY FS_Subset
    <2>2. QED BY <1>1, <1>2, <2>1
  <1>4. Unused(ids) \in 1 .. n /\ Unused(ids) \notin ids
    BY <1>3 DEF Unused
  <1>5. QED BY <1>2, <1>4

OverlayIs(prev, inFlight, current, resolutions) ==
    /\ overlay'.prev = prev /\ overlay'.inFlight = inFlight /\ overlay'.current = current
    /\ overlay'.resolutions = resolutions
Others(r) == overlay.resolutions \ {r}
Stage(r, at) == [id |-> r.id, at |-> at, aborted |-> r.aborted]

LEMMA StageIs ==
    ASSUME TypeInv, NEW r \in overlay.resolutions, NEW at \in Stages
    PROVE  /\ [r EXCEPT !.at = at] = Stage(r, at) /\ Stage(r, at) \in Resolutions
           /\ r = Stage(r, r.at)
  BY DEF TypeInv, QueueTypeOK, OverlayType, Stage, Resolutions

LEMMA OverlayUpdates ==
    ASSUME TypeInv
    PROVE  /\ \A rs \in SUBSET Resolutions, b \in BOOLEAN, n \in Nat, ls \in SUBSET Keys :
                 [prev |-> ls, inFlight |-> b, current |-> n, resolutions |-> rs] \in OverlayType
           /\ overlay.resolutions \in SUBSET Resolutions /\ IsFiniteSet(overlay.resolutions)
           /\ overlay = [prev |-> overlay.prev, inFlight |-> overlay.inFlight,
                         current |-> overlay.current, resolutions |-> overlay.resolutions]
           /\ \A r : IsFiniteSet(Others(r)) /\ Others(r) \in SUBSET Resolutions
           /\ \A r, o : IsFiniteSet(Others(r) \cup {o})
  <1>1. overlay \in OverlayType /\ IsFiniteSet(overlay.resolutions)
    BY DEF TypeInv, QueueTypeOK
  <1>2. \A r : IsFiniteSet(Others(r))
    BY <1>1, FS_RemoveElement DEF Others
  <1>3. \A r, o : IsFiniteSet(Others(r) \cup {o})
    BY <1>2, FS_AddElement
  <1>4. QED BY <1>1, <1>2, <1>3 DEF OverlayType, Resolutions, Others

\* The promise of a replay resolves.
LEMMA ReplayedDoes ==
    ASSUME TypeInv, NEW r \in overlay.resolutions, overlay' = Replayed(r)
    PROVE  /\ r.aborted => OverlayIs(overlay.prev, FALSE, overlay.current, Others(r))
           /\ ~r.aborted => OverlayIs(overlay.prev, overlay.inFlight, overlay.current,
                                      Others(r) \cup {Stage(r, "impact")})
           /\ overlay' \in OverlayType /\ IsFiniteSet(overlay'.resolutions)
  <1>1. [r EXCEPT !.at = "impact"] = Stage(r, "impact") /\ Stage(r, "impact") \in Resolutions
    BY StageIs DEF Stages
  <1>2. /\ overlay = [prev |-> overlay.prev, inFlight |-> overlay.inFlight,
                      current |-> overlay.current, resolutions |-> overlay.resolutions]
        /\ overlay.prev \in SUBSET Keys /\ overlay.inFlight \in BOOLEAN /\ overlay.current \in Nat
    BY OverlayUpdates, FieldsAreTyped DEF Fields
  <1>3. CASE r.aborted
    <2>1. overlay' = [overlay EXCEPT !.resolutions = Others(r), !.inFlight = FALSE]
      BY <1>3 DEF Replayed, Others
    <2>2. overlay' = [prev |-> overlay.prev, inFlight |-> FALSE, current |-> overlay.current,
                      resolutions |-> Others(r)]
      BY <1>2, <2>1
    <2>3. OverlayIs(overlay.prev, FALSE, overlay.current, Others(r))
      BY <2>2 DEF OverlayIs
    <2>4. QED BY <1>2, <1>3, <2>2, <2>3, OverlayUpdates DEF OverlayIs
  <1>4. CASE ~r.aborted
    <2> DEFINE rs == Others(r) \cup {Stage(r, "impact")}
    <2>1. overlay' = [overlay EXCEPT !.resolutions = rs]
      BY <1>1, <1>4 DEF Replayed, Others
    <2>2. rs \in SUBSET Resolutions /\ IsFiniteSet(rs)
      BY <1>1, OverlayUpdates
    <2> HIDE DEF rs
    <2>3. overlay' = [prev |-> overlay.prev, inFlight |-> overlay.inFlight,
                      current |-> overlay.current, resolutions |-> rs]
      BY <1>2, <2>1
    <2>4. OverlayIs(overlay.prev, overlay.inFlight, overlay.current, rs)
      BY <2>3 DEF OverlayIs
    <2>5. QED BY <1>2, <1>4, <2>2, <2>3, <2>4, OverlayUpdates DEF OverlayIs, rs
  <1>5. QED BY <1>3, <1>4, <1>2 DEF Replayed

CleanedUp ==
    ChainIs(chain.solved, chain.waiting, FALSE, chain.buffer, chain.deferred, chain.ready, FALSE)

LEMMA CleanupDoes ==
    ASSUME TypeInv, chain' = Cleanup
    PROVE  CleanedUp /\ chain' \in ChainType
  <1>1. chain \in ChainType
    BY DEF TypeInv, QueueTypeOK
  <1> DEFINE c == [chain EXCEPT !.draining = FALSE]
  <1>2. chain' = [c EXCEPT !.replaying = FALSE]
    BY Zenon DEF Cleanup
  <1>3. c \in ChainType /\ c.draining = FALSE /\ c.solved = chain.solved /\ c.waiting = chain.waiting
        /\ c.buffer = chain.buffer /\ c.deferred = chain.deferred /\ c.ready = chain.ready
    BY <1>1 DEF ChainType
  <1> HIDE DEF c
  <1>4. QED BY <1>2, <1>3 DEF ChainType, CleanedUp, ChainIs

LEMMA BatchEndDoes ==
    ASSUME TypeInv, QueueInv', NEW l \in runner.loops, DispatchBatchEnd(l)
    PROVE  /\ Found("dequeue") /\ Kind = "batch-end" /\ Subject \in Nat
           /\ Popped /\ CleanedUp /\ GoesTo("tick")
           /\ \/ (\A r \in overlay.resolutions : r.id # Subject) /\ overlay' = overlay
              \/ \E r \in overlay.resolutions :
                    /\ r.id = Subject
                    /\ r.aborted => OverlayIs(overlay.prev, FALSE, overlay.current, Others(r))
                    /\ ~r.aborted => OverlayIs(overlay.prev, overlay.inFlight, overlay.current,
                                               Others(r) \cup {Stage(r, "impact")})
           /\ draw' = draw /\ log' = log /\ Local /\ TypeInv'
  <1>1. Dequeue(l, "batch-end") /\ "batch-end" \in Kinds
    BY DEF DispatchBatchEnd, Kinds
  <1>2. /\ Found("dequeue") /\ Live(l) /\ l.pc = "tick" /\ Kind = "batch-end"
        /\ proc.queue # <<>> /\ Head(proc.queue) \in Entries /\ Rest \in ProcType
    BY <1>1, DequeueFinds
  <1>3. Subject \in Nat
    BY <1>2 DEF Subject, Entries, Kind
  <1>4. proc' = Rest /\ chain' = Cleanup /\ runner' = runner /\ draw' = draw /\ log' = log /\ Local
    BY DEF DispatchBatchEnd
  <1>5. Popped /\ proc' \in ProcType
    BY <1>1, <1>2, <1>4, DequeueFinds
  <1>6. CleanedUp /\ chain' \in ChainType
    BY <1>4, CleanupDoes
  <1>7. GoesTo("tick")
    BY <1>2, <1>4, TurnGoes DEF Places
  <1> DEFINE waiting == {r \in overlay.resolutions : r.id = Subject}
  <1>8. CASE waiting = {}
    <2>1. overlay' = overlay /\ \A r \in overlay.resolutions : r.id # Subject
      BY <1>8 DEF DispatchBatchEnd
    <2>2. TypeInv'
      BY <1>4, <1>5, <1>6, <1>7, <2>1, TypesKept
         DEF Local, GoesTo, TypeInv, QueueTypeOK, Popped, ProcIs, DrawType, LogType
    <2>3. QED BY <1>2, <1>3, <1>4, <1>5, <1>6, <1>7, <2>1, <2>2
  <1>9. CASE waiting # {}
    <2>1. PICK r \in waiting : overlay' = Replayed(r)
      BY <1>9 DEF DispatchBatchEnd
    <2>2. r \in overlay.resolutions /\ r.id = Subject
      OBVIOUS
    <2>3. /\ r.aborted => OverlayIs(overlay.prev, FALSE, overlay.current, Others(r))
          /\ ~r.aborted => OverlayIs(overlay.prev, overlay.inFlight, overlay.current,
                                     Others(r) \cup {Stage(r, "impact")})
          /\ overlay' \in OverlayType /\ IsFiniteSet(overlay'.resolutions)
      BY <2>1, <2>2, ReplayedDoes
    <2>4. TypeInv'
      BY <1>4, <1>5, <1>6, <1>7, <2>3, TypesKept
         DEF Local, GoesTo, TypeInv, QueueTypeOK, Popped, ProcIs, DrawType, LogType
    <2>5. QED BY <1>2, <1>3, <1>4, <1>5, <1>6, <1>7, <2>2, <2>3, <2>4
  <1>10. QED BY <1>8, <1>9

LEMMA PairAndTriple ==
    ASSUME NEW S, NEW x \in S, NEW y \in S, NEW z \in S
    PROVE  <<x, y, z>> = <<x>> \o <<y, z>> /\ <<y, z>> = <<y>> \o <<z>>
  <1> DEFINE p == <<y, z>>
             t == <<x, y, z>>
             a == <<y>> \o <<z>>
             b == <<x>> \o <<y, z>>
  <1>1. /\ p \in Seq(S) /\ Len(p) = 2 /\ p[1] = y /\ p[2] = z
        /\ t \in Seq(S) /\ Len(t) = 3 /\ t[1] = x /\ t[2] = y /\ t[3] = z
        /\ <<z>> \in Seq(S) /\ Len(<<z>>) = 1 /\ <<z>>[1] = z
    OBVIOUS
  <1>2. /\ a \in Seq(S) /\ Len(a) = Len(<<z>>) + 1 /\ a[1] = y
        /\ \A j \in 1 .. Len(<<z>>) : a[j + 1] = <<z>>[j]
    BY <1>1, ConsIs
  <1>3. /\ b \in Seq(S) /\ Len(b) = Len(p) + 1 /\ b[1] = x
        /\ \A j \in 1 .. Len(p) : b[j + 1] = p[j]
    BY <1>1, ConsIs
  <1> HIDE DEF p, t, a, b
  <1>4. a \in Seq(S) /\ Len(a) = 2 /\ a[1] = y /\ a[2] = z
    <2>1. 1 \in 1 .. 1 /\ 1 + 1 = 2
      OBVIOUS
    <2>2. QED BY <1>1, <1>2, <2>1
  <1>5. b \in Seq(S) /\ Len(b) = 3 /\ b[1] = x /\ b[2] = y /\ b[3] = z
    <2>1. 1 \in 1 .. 2 /\ 2 \in 1 .. 2 /\ 1 + 1 = 2 /\ 2 + 1 = 3
      OBVIOUS
    <2>2. QED BY <1>1, <1>3, <2>1
  <1>6. p = a
    <2>1. \A i \in 1 .. Len(p) : p[i] = a[i]
      BY <1>1, <1>4
    <2>2. QED BY <1>1, <1>4, <2>1, SeqEqual
  <1>7. t = b
    <2>1. \A i \in 1 .. Len(t) : t[i] = b[i]
      BY <1>1, <1>5
    <2>2. QED BY <1>1, <1>5, <2>1, SeqEqual
  <1>8. QED BY <1>6, <1>7 DEF p, a, t, b

LEMMA ThreeBefore ==
    ASSUME NEW S, NEW x \in S, NEW y \in S, NEW z \in S, NEW q \in Seq(S)
    PROVE  /\ <<x, y, z>> \o q = <<x>> \o (<<y>> \o (<<z>> \o q))
           /\ <<x, y, z>> \o q \in Seq(S)
  <1>1. <<x>> \in Seq(S) /\ <<y>> \in Seq(S) /\ <<z>> \in Seq(S) /\ <<y, z>> \in Seq(S)
        /\ <<x, y, z>> \in Seq(S)
    OBVIOUS
  <1>2. <<x, y, z>> = <<x>> \o <<y, z>> /\ <<y, z>> = <<y>> \o <<z>>
    BY PairAndTriple
  <1>3. (<<x>> \o <<y, z>>) \o q = <<x>> \o (<<y, z>> \o q)
    BY <1>1, ConcatAssociative
  <1>4. (<<y>> \o <<z>>) \o q = <<y>> \o (<<z>> \o q)
    BY <1>1, ConcatAssociative
  <1>5. <<x, y, z>> \o q \in Seq(S)
    BY <1>1, ConcatProperties
  <1>6. QED BY <1>2, <1>3, <1>4, <1>5, Zenon

\* The batch of the buffer, put before q.
LEMMA BatchIs ==
    ASSUME TypeInv, chain.buffer # <<>>, NEW id \in Nat, NEW q \in Seq(Entries)
    PROVE  /\ Entry("group", chain.buffer) \in Entries /\ Entry("barrier", <<>>) \in Entries
           /\ Entry("batch-end", <<id>>) \in Entries /\ Entry("await-signal", <<>>) \in Entries
           /\ Batch(id) \o q = <<Entry("group", chain.buffer)>>
                               \o (<<Entry("barrier", <<>>)>> \o (<<Entry("batch-end", <<id>>)>> \o q))
           /\ Batch(id) \o q \in Seq(Entries)
  <1>1. chain.buffer \in Seq(Nat)
    BY FieldsAreTyped DEF Fields
  <1>2. Entry("group", chain.buffer) \in Entries
    BY <1>1 DEF Entry, Entries, Kinds
  <1>3. <<>> \in Seq(Nat) /\ <<id>> \in Seq(Nat) /\ Len(<<id>>) = 1
    OBVIOUS
  <1>4. Entry("barrier", <<>>) \in Entries /\ Entry("await-signal", <<>>) \in Entries
    BY <1>3 DEF Entry, Entries, Kinds
  <1>5. Entry("batch-end", <<id>>) \in Entries
    BY <1>3 DEF Entry, Entries, Kinds
  <1> DEFINE a == Entry("group", chain.buffer)
             b == Entry("barrier", <<>>)
             c == Entry("batch-end", <<id>>)
  <1> HIDE DEF a, b, c
  <1>6. /\ <<a, b, c>> \o q = <<a>> \o (<<b>> \o (<<c>> \o q))
        /\ <<a, b, c>> \o q \in Seq(Entries)
    <2>1. a \in Entries /\ b \in Entries /\ c \in Entries
      BY <1>2, <1>4, <1>5 DEF a, b, c
    <2>2. QED BY <2>1, ThreeBefore
  <1>7. Batch(id) = <<a, b, c>>
    BY DEF a, b, c, Batch
  <1>8. QED BY <1>2, <1>4, <1>5, <1>6, <1>7, Zenon DEF a, b, c

\* The buffer is emptied into a batch.
LEMMA DrainDoes ==
    ASSUME TypeInv, NEW w \in BOOLEAN,
           \/ chain' = [chain EXCEPT !.buffer = <<>>, !.draining = TRUE, !.replaying = TRUE,
                                     !.waiting = FALSE] /\ w = TRUE
           \/ chain' = [chain EXCEPT !.buffer = <<>>, !.draining = TRUE, !.waiting = FALSE]
              /\ w = chain.replaying
    PROVE  /\ ChainIs(chain.solved, FALSE, TRUE, <<>>, chain.deferred, chain.ready, w)
           /\ chain' \in ChainType
  <1>1. chain \in ChainType /\ <<>> \in Seq(Nat)
    BY DEF TypeInv, QueueTypeOK
  <1> DEFINE c == [chain EXCEPT !.buffer = <<>>]
             d == [c EXCEPT !.draining = TRUE]
             e == [d EXCEPT !.replaying = w]
             Like(x) == /\ x.solved = chain.solved /\ x.deferred = chain.deferred
                        /\ x.ready = chain.ready
  <1>2. c \in ChainType /\ Like(c) /\ c.buffer = <<>> /\ c.replaying = chain.replaying
    BY <1>1 DEF ChainType
  <1> HIDE DEF c
  <1>3. d \in ChainType /\ Like(d) /\ d.buffer = <<>> /\ d.draining /\ d.replaying = chain.replaying
    BY <1>2 DEF ChainType
  <1> HIDE DEF d
  <1>4. e \in ChainType /\ Like(e) /\ e.buffer = <<>> /\ e.draining /\ e.replaying = w
    BY <1>3 DEF ChainType
  <1> HIDE DEF e
  <1>5. \/ chain' = [e EXCEPT !.waiting = FALSE]
        \/ chain' = [d EXCEPT !.waiting = FALSE] /\ w = chain.replaying
    <2>1. [chain EXCEPT !.buffer = <<>>, !.draining = TRUE, !.replaying = TRUE, !.waiting = FALSE]
          = [[d EXCEPT !.replaying = TRUE] EXCEPT !.waiting = FALSE]
      BY Zenon DEF c, d
    <2>2. [chain EXCEPT !.buffer = <<>>, !.draining = TRUE, !.waiting = FALSE]
          = [d EXCEPT !.waiting = FALSE]
      BY Zenon DEF c, d
    <2>3. QED BY <2>1, <2>2, Zenon DEF e
  <1>6. QED BY <1>3, <1>4, <1>5 DEF ChainType, ChainIs

LEMMA PreReplayDoes ==
    ASSUME TypeInv, QueueInv', NEW l \in runner.loops, PreReplayBuffer(l)
    PROVE  /\ Found("pre-replay-buffer")
           /\ ProcIs(Batch(0) \o proc.queue, proc.links, proc.phase, proc.pending, proc.gen,
                     proc.ends)
           /\ ChainIs(chain.solved, FALSE, TRUE, <<>>, chain.deferred, chain.ready, TRUE)
           /\ GoesTo("tick")
           /\ UNCHANGED <<draw, overlay, log>> /\ Local /\ TypeInv'
  <1>1. Found("pre-replay-buffer") /\ Live(l) /\ l.pc = "tick"
    BY TurnFinds DEF PreReplayBuffer
  <1>2. Batch(0) \o proc.queue \in Seq(Entries)
    BY <1>1, BatchIs, FieldsAreTyped DEF Fields, Found
  <1> DEFINE q == Batch(0) \o proc.queue
  <1>3. /\ proc' = [proc EXCEPT !.queue = q] /\ runner' = runner
        /\ chain' = [chain EXCEPT !.buffer = <<>>, !.draining = TRUE, !.replaying = TRUE,
                                  !.waiting = FALSE]
        /\ UNCHANGED <<draw, overlay, log>> /\ Local
    BY DEF PreReplayBuffer
  <1> HIDE DEF q
  <1>4. GoesTo("tick")
    BY <1>1, <1>3, TurnGoes DEF Places
  <1>5. /\ ChainIs(chain.solved, FALSE, TRUE, <<>>, chain.deferred, chain.ready, TRUE)
        /\ chain' \in ChainType
    BY <1>3, DrainDoes
  <1>6. /\ ProcIs(q, proc.links, proc.phase, proc.pending, proc.gen, proc.ends)
        /\ proc' \in ProcType
    BY <1>2, <1>3, ProcUpdates DEF ProcIs, ProcType, TypeInv, QueueTypeOK, q
  <1>7. TypeInv'
    BY <1>3, <1>4, <1>5, <1>6, TypesKept
       DEF Local, GoesTo, TypeInv, QueueTypeOK, ProcIs, DrawType, LogType
  <1>8. QED BY <1>1, <1>3, <1>4, <1>5, <1>6, <1>7 DEF q

-----------------------------------------------------------------------------
(* The other steps of a loop: nothing but its place changes. *)

Aside == UNCHANGED <<proc, draw, overlay, log>> /\ SameChain /\ Local /\ TypeInv'

LEMMA AsideIs ==
    ASSUME TypeInv, QueueInv', RunnerOK(runner'), UNCHANGED <<proc, draw, overlay, log>>, Local,
           chain' = chain \/ chain' = [chain EXCEPT !.announcing = TRUE]
    PROVE  Aside
  <1>1. chain \in ChainType
    BY DEF TypeInv, QueueTypeOK
  <1>2. chain' \in ChainType /\ SameChain
    BY <1>1 DEF ChainType, SameChain, ChainIs
  <1>3. TypeInv'
    BY <1>2, TypesKept DEF Local, TypeInv, QueueTypeOK, DrawType, LogType
  <1>4. QED BY <1>2, <1>3 DEF Aside

LEMMA PauseDoes ==
    ASSUME TypeInv, QueueInv', NEW l \in runner.loops, PauseExternal(l)
    PROVE  Aside /\ Found("pause-external") /\ GoesTo("exit")
  <1>1. Found("pause-external") /\ Live(l) /\ l.pc = "tick"
    BY TurnFinds DEF PauseExternal
  <1>2. GoesTo("exit")
    BY <1>1, TurnGoes DEF PauseExternal, Places
  <1>3. QED BY <1>1, <1>2, AsideIs DEF PauseExternal, GoesTo

LEMMA FinalizeDoes ==
    ASSUME TypeInv, QueueInv', NEW l \in runner.loops, Finalize(l)
    PROVE  Aside /\ Found("finalize") /\ GoesTo("exit")
  <1>1. Found("finalize") /\ Live(l) /\ l.pc = "tick"
    BY TurnFinds DEF Finalize
  <1>2. GoesTo("exit")
    BY <1>1, TurnGoes DEF Finalize, Places
  <1>3. QED BY <1>1, <1>2, AsideIs DEF Finalize, GoesTo

\* A loop that no reset has aborted does not bail out; the others do not matter.
Elsewhere ==
    /\ RunnerOK(runner') /\ PcsOf(runner') = PcsOf(runner) /\ HandOf(runner') = HandOf(runner)
    /\ runner'.armed = runner.armed

LEMMA BailDoes ==
    ASSUME TypeInv, QueueInv', NEW l \in runner.loops, Bail(l)
    PROVE  Aside /\ Elsewhere
  <1>1. l.pc = "tick" /\ runner' = At(l, "exit")
    BY DEF Bail
  <1>2. ~Live(l)
    BY <1>1, TypedRunner DEF Bail, RunnerOK, Hands, Live
  <1>3. Elsewhere
    BY <1>1, <1>2, AtMoves DEF Elsewhere, Places
  <1>4. QED BY <1>3, AsideIs DEF Bail, Elsewhere

LEMMA StepEndsDoes ==
    ASSUME TypeInv, QueueInv', NEW l \in runner.loops, StepEnds(l)
    PROVE  /\ Aside /\ Quiet
           /\ \/ Elsewhere
              \/ /\ IsAt(l.pc) /\ GoesTo("tick")
                 /\ l.pc = "hold" => \A r \in overlay.resolutions : r.at # "impact"
  <1>1. l.pc \notin {"group", "exit"} /\ runner' = At(l, "tick") /\ Quiet
    BY DEF StepEnds
  <1>2. RunnerOK(runner')
    BY <1>1, AtMoves DEF Places
  <1>3. CASE Live(l)
    BY <1>1, <1>2, <1>3, AtMoves, AsideIs DEF StepEnds, Places
  <1>4. CASE ~Live(l)
    BY <1>1, <1>2, <1>4, AtMoves, AsideIs DEF StepEnds, Places, Elsewhere
  <1>5. QED BY <1>3, <1>4

LEMMA BannerDoes ==
    ASSUME TypeInv, QueueInv', NEW l \in runner.loops, BannerShows(l)
    PROVE  Aside /\ Quiet /\ (Elsewhere \/ (IsAt("pre") /\ GoesTo("show")))
  <1>1. l.pc = "pre" /\ runner' = At(l, "show") /\ Quiet
    BY DEF BannerShows
  <1>2. RunnerOK(runner')
    BY <1>1, AtMoves DEF Places
  <1>3. CASE Live(l)
    BY <1>1, <1>2, <1>3, AtMoves, AsideIs DEF BannerShows, Places
  <1>4. CASE ~Live(l)
    BY <1>1, <1>2, <1>4, AtMoves, AsideIs DEF BannerShows, Places, Elsewhere
  <1>5. QED BY <1>3, <1>4

\* The runner without a loop.
LEMMA WithoutIs ==
    ASSUME TypeInv, NEW l \in runner.loops, l.pc = "exit", NEW s, NEW p \in BOOLEAN,
           NEW n, NEW m,
           s = [running |-> runner.running, processing |-> p, epoch |-> runner.epoch,
                loops |-> runner.loops \ {l}, rescues |-> n, lastLen |-> m,
                armed |-> runner.armed]
    PROVE  /\ ~Live(l) /\ p = runner.processing =>
                 /\ RunnerOK(s) /\ PcsOf(s) = PcsOf(runner) /\ HandOf(s) = HandOf(runner)
           /\ Live(l) => /\ RunnerOK(s) /\ PcsOf(s) = {} /\ HandOf(s) = <<>> /\ LiveOf(s) = {}
                         /\ IsAt("exit")
  <1>1. RunnerOK(runner)
    BY TypedRunner
  <1>2. IsRunner(s) /\ LoopTypes(s) /\ Hands(s) /\ s.armed \in BOOLEAN
    BY <1>1 DEF RunnerOK, IsRunner, LoopTypes, Hands
  <1>3. l.rest = <<>>
    BY <1>1 DEF RunnerOK, Hands
  <1>4. Groups(s) = Groups(runner)
    BY <1>3 DEF Groups
  <1>5. HandOf(s) = HandOf(runner)
    BY <1>4 DEF HandOf
  <1>6. CASE ~Live(l) /\ p = runner.processing
    <2>1. LiveOf(s) = LiveOf(runner)
      BY <1>6 DEF LiveOf, Live
    <2>2. Exclusive(s) /\ PcsOf(s) = PcsOf(runner)
      BY <1>1, <1>6, <2>1 DEF Exclusive, RunnerOK, PcsOf
    <2>3. QED BY <1>2, <1>5, <1>6, <2>2 DEF RunnerOK
  <1>7. CASE Live(l)
    <2>1. LiveOf(s) = {}
      BY <1>1, <1>7 DEF LiveOf, Live, RunnerOK, Exclusive
    <2>2. Exclusive(s) /\ PcsOf(s) = {}
      BY <2>1 DEF Exclusive, PcsOf
    <2>3. l \in LiveOf(runner)
      BY <1>7 DEF LiveOf, Live
    <2>4. PcsOf(runner) = {"exit"} /\ HandOf(runner) = <<>>
      BY <1>1, <1>3, <2>3, HandIs
    <2>5. QED BY <1>2, <1>5, <1>7, <2>1, <2>2, <2>4 DEF RunnerOK, IsAt
  <1>8. QED BY <1>6, <1>7

RunnerOf(running, processing, epoch, loops, rescues, lastLen, armed) ==
    [running |-> running, processing |-> processing, epoch |-> epoch, loops |-> loops,
     rescues |-> rescues, lastLen |-> lastLen, armed |-> armed]

LEMMA RunnerUpdates ==
    ASSUME IsRunner(runner), NEW l, NEW p, NEW n, NEW m
    PROVE  /\ [Without(runner, l) EXCEPT !.processing = p]
              = RunnerOf(runner.running, p, runner.epoch, runner.loops \ {l}, runner.rescues,
                         runner.lastLen, runner.armed)
           /\ [[Without(runner, l) EXCEPT !.processing = p] EXCEPT !.rescues = n, !.lastLen = m]
              = RunnerOf(runner.running, p, runner.epoch, runner.loops \ {l}, n, m, runner.armed)
  <1> DEFINE w == Without(runner, l)
             x == [w EXCEPT !.processing = p]
             y == [x EXCEPT !.rescues = n]
             z == [x EXCEPT !.rescues = n, !.lastLen = m]
  <1>1. w = RunnerOf(runner.running, runner.processing, runner.epoch, runner.loops \ {l},
                     runner.rescues, runner.lastLen, runner.armed)
    <2>1. runner = RunnerOf(runner.running, runner.processing, runner.epoch, runner.loops,
                            runner.rescues, runner.lastLen, runner.armed)
      BY DEF IsRunner, RunnerOf
    <2>2. w = [runner EXCEPT !.loops = runner.loops \ {l}]
      BY DEF Without
    <2> HIDE DEF w
    <2>3. QED BY <2>1, <2>2 DEF RunnerOf
  <1>2. z = [y EXCEPT !.lastLen = m]
    BY Zenon
  <1> HIDE DEF w, z
  <1>3. x = RunnerOf(runner.running, p, runner.epoch, runner.loops \ {l}, runner.rescues,
                     runner.lastLen, runner.armed)
    BY <1>1 DEF RunnerOf
  <1> HIDE DEF x
  <1>4. y = RunnerOf(runner.running, p, runner.epoch, runner.loops \ {l}, n, runner.lastLen,
                     runner.armed)
    BY <1>3 DEF RunnerOf
  <1> HIDE DEF y
  <1>5. z = RunnerOf(runner.running, p, runner.epoch, runner.loops \ {l}, n, m, runner.armed)
    BY <1>2, <1>4 DEF RunnerOf
  <1>6. QED BY <1>3, <1>5 DEF w, x, z

LEMMA FinallyDoes ==
    ASSUME TypeInv, QueueInv', NEW l \in runner.loops, Finally(l)
    PROVE  /\ Aside
           /\ \/ Elsewhere
              \/ /\ IsAt("exit") /\ PcsOf(runner') \in {{}, {"tick"}} /\ HandOf(runner') = <<>>
                 /\ runner'.armed = runner.armed
  <1>1. l.pc = "exit" /\ UNCHANGED <<proc, chain, draw, overlay, log>> /\ Local
    BY DEF Finally
  <1>2. RunnerOK(runner) /\ IsRunner(runner)
    BY TypedRunner DEF RunnerOK
  <1>3. CASE ~Live(l)
    <2>1. runner' = [running |-> runner.running, processing |-> runner.processing,
                     epoch |-> runner.epoch, loops |-> runner.loops \ {l},
                     rescues |-> runner.rescues, lastLen |-> runner.lastLen,
                     armed |-> runner.armed]
      BY <1>2, <1>3 DEF Finally, Without, IsRunner
    <2>2. Elsewhere
      BY <1>1, <1>2, <1>3, <2>1, WithoutIs DEF Elsewhere, IsRunner
    <2>3. QED BY <1>1, <2>2, AsideIs DEF Elsewhere
  <1>4. CASE Live(l)
    <2> DEFINE freed == [Without(runner, l) EXCEPT !.processing = FALSE]
               R(n, m) == RunnerOf(runner.running, FALSE, runner.epoch, runner.loops \ {l}, n, m,
                                   runner.armed)
    <2>1. /\ freed = R(runner.rescues, runner.lastLen)
          /\ \A n, m : [freed EXCEPT !.rescues = n, !.lastLen = m] = R(n, m)
      BY <1>2, RunnerUpdates, Zenon
    <2>2. \/ runner' = freed
          \/ \E n, m : \/ runner' = [freed EXCEPT !.rescues = n, !.lastLen = m]
                       \/ runner' = Started([freed EXCEPT !.rescues = n, !.lastLen = m])
      BY <1>4 DEF Finally, Returned, NotifyEnqueue
    <2> HIDE DEF freed
    <2>4. \E n, m : runner' = R(n, m) \/ runner' = Started(R(n, m))
      <3>1. CASE runner' = freed
        BY <2>1, <3>1, Zenon
      <3>2. CASE runner' # freed
        <4>1. PICK n, m : \/ runner' = [freed EXCEPT !.rescues = n, !.lastLen = m]
                          \/ runner' = Started([freed EXCEPT !.rescues = n, !.lastLen = m])
          BY <2>2, <3>2
        <4>2. [freed EXCEPT !.rescues = n, !.lastLen = m] = R(n, m)
          BY <2>1, Zenon
        <4> HIDE DEF R
        <4>3. runner' = R(n, m) \/ runner' = Started(R(n, m))
          BY <4>1, <4>2, Zenon
        <4>4. QED BY <4>3
      <3>3. QED BY <3>1, <3>2
    <2> HIDE DEF R
    <2>5. PICK n, m : runner' = R(n, m) \/ runner' = Started(R(n, m))
      BY <2>4
    <2> DEFINE r == R(n, m)
    <2>6. /\ RunnerOK(r) /\ PcsOf(r) = {} /\ HandOf(r) = <<>> /\ LiveOf(r) = {}
          /\ IsAt("exit") /\ r.armed = runner.armed
      BY <1>1, <1>4, WithoutIs DEF R, RunnerOf
    <2> HIDE DEF r
    <2>7. Starts(r, r) /\ Starts(r, Started(r))
      <3>1. Window(r, proc.queue)
        BY <2>6 DEF Window
      <3>2. QED BY <2>6, <3>1, StartedStarts, StartsRefl
    <2>8. Starts(r, runner')
      BY <2>5, <2>7 DEF r
    <2>9. RunnerOK(runner') /\ PcsOf(runner') \in {{}, {"tick"}} /\ HandOf(runner') = <<>>
          /\ runner'.armed = runner.armed
      BY <2>6, <2>8 DEF Starts
    <2>10. QED BY <1>1, <2>6, <2>9, AsideIs
  <1>5. QED BY <1>3, <1>4

\* A loop starts, or none does.
MayStart == Starts(runner, runner')

LEMMA QueueEffectDoes ==
    ASSUME TypeInv, QueueInv', QueueEffect
    PROVE  /\ MayStart /\ "queue" \in dirty
           /\ UNCHANGED <<proc, chain, draw, overlay, log, server, parked, races>>
           /\ dirty' = dirty \ {"queue"} /\ TypeInv'
           /\ proc.queue = <<>> => PcsOf(runner') = PcsOf(runner)
  <1>1. RunnerOK(runner) /\ Window(runner, proc.queue)
    BY TypedRunner DEF TypeInv, QueueInv, Sound
  <1>2. runner' = IF proc.queue # <<>> THEN Started(runner) ELSE runner
    BY DEF QueueEffect, NotifyEnqueue
  <1>3. proc.queue # <<>> => runner.processing \/ LiveOf(runner) = {}
    BY <1>1, TypedRunner DEF Window, RunnerOK, IsRunner
  <1>4. MayStart /\ (proc.queue = <<>> => PcsOf(runner') = PcsOf(runner))
    BY <1>1, <1>2, <1>3, StartedStarts, StartsRefl DEF MayStart
  <1>5. UNCHANGED <<proc, chain, draw, overlay, log, server, parked, races>>
        /\ dirty' = (dirty \ {"queue"}) \cup Wakes /\ "queue" \in dirty
    BY DEF QueueEffect, Ran
  <1>6. Wakes = {}
    BY <1>5 DEF Wakes
  <1>7. TypeInv'
    BY <1>4, <1>5, TypesKept
       DEF MayStart, Starts, TypeInv, QueueTypeOK, DrawType, LogType
  <1>8. QED BY <1>4, <1>5, <1>6, <1>7

LEMMA ResumeDoes ==
    ASSUME TypeInv, QueueInv', ResumeEffect
    PROVE  /\ MayStart /\ "ready" \in dirty
           /\ ChainIs(chain.solved, chain.waiting /\ ~chain.ready, chain.draining, chain.buffer,
                      chain.deferred, chain.ready, chain.replaying)
           /\ UNCHANGED <<proc, draw, overlay, log, server, parked, races>>
           /\ dirty' = dirty \ {"ready"} /\ TypeInv'
           /\ ~(chain.ready /\ chain.waiting) => runner' = runner
  <1>1. RunnerOK(runner) /\ Window(runner, proc.queue)
    BY TypedRunner DEF TypeInv, QueueInv, Sound
  <1>2. /\ runner' = runner \/ (runner.running /\ runner' = Started(runner))
        /\ ~(chain.ready /\ chain.waiting) => runner' = runner
    BY DEF ResumeEffect, NotifyEnqueue
  <1>3. runner.running => runner.processing \/ LiveOf(runner) = {}
    BY <1>1, TypedRunner DEF Window, RunnerOK, IsRunner
  <1>4. MayStart
    BY <1>1, <1>2, <1>3, StartedStarts, StartsRefl DEF MayStart
  <1>5. UNCHANGED <<proc, draw, overlay, log, server, parked, races>>
        /\ dirty' = (dirty \ {"ready"}) \cup Wakes /\ "ready" \in dirty
    BY DEF ResumeEffect, Ran
  <1>6. /\ chain' \in ChainType
        /\ ChainIs(chain.solved, chain.waiting /\ ~chain.ready, chain.draining, chain.buffer,
                   chain.deferred, chain.ready, chain.replaying)
    <2>1. chain \in ChainType /\ chain.waiting \in BOOLEAN /\ chain.ready \in BOOLEAN
      BY FieldsAreTyped DEF TypeInv, QueueTypeOK, Fields
    <2>2. CASE chain.ready /\ chain.waiting
      BY <2>1, <2>2 DEF ResumeEffect, ChainType, ChainIs
    <2>3. CASE ~(chain.ready /\ chain.waiting)
      BY <2>1, <2>3 DEF ResumeEffect, ChainType, ChainIs
    <2>4. QED BY <2>2, <2>3
  <1>7. Wakes = {}
    BY <1>5, <1>6 DEF Wakes, ChainIs
  <1>8. TypeInv'
    BY <1>4, <1>5, <1>6, TypesKept
       DEF MayStart, Starts, TypeInv, QueueTypeOK, DrawType, LogType
  <1>9. QED BY <1>2, <1>4, <1>5, <1>6, <1>7, <1>8

LEMMA AwaitEffectDoes ==
    ASSUME TypeInv, QueueInv', AwaitEffect
    PROVE  /\ Aside /\ runner.armed /\ chain.ready /\ ~runner'.armed
           /\ HandOf(runner') = HandOf(runner)
           /\ PcsOf(runner') = PcsOf(runner) \/ (PcsOf(runner) = {} /\ PcsOf(runner') = {"tick"})
  <1>1. RunnerOK(runner) /\ Window(runner, proc.queue)
    BY TypedRunner DEF TypeInv, QueueInv, Sound
  <1> DEFINE r == [runner EXCEPT !.armed = FALSE]
  <1>2. r = [running |-> runner.running, processing |-> runner.processing,
             epoch |-> runner.epoch, loops |-> runner.loops, rescues |-> runner.rescues,
             lastLen |-> runner.lastLen, armed |-> FALSE]
    <2>1. IsRunner(runner)
      BY <1>1 DEF RunnerOK
    <2>2. ASSUME NEW b
          PROVE  [runner EXCEPT !.armed = b] =
                 [running |-> runner.running, processing |-> runner.processing,
                  epoch |-> runner.epoch, loops |-> runner.loops, rescues |-> runner.rescues,
                  lastLen |-> runner.lastLen, armed |-> b]
      BY <2>1 DEF IsRunner
    <2>3. QED BY <2>2, Zenon
  <1>3. runner' = IF r.running THEN Started(r) ELSE r
    BY DEF AwaitEffect, ProcessQueue
  <1> HIDE DEF r
  <1>4. LiveOf(r) = LiveOf(runner) /\ Groups(r) = Groups(runner)
    BY <1>2 DEF LiveOf, Groups
  <1>5. /\ RunnerOK(r) /\ Window(r, proc.queue)
        /\ PcsOf(r) = PcsOf(runner) /\ HandOf(r) = HandOf(runner)
    BY <1>1, <1>2, <1>4
       DEF RunnerOK, IsRunner, Exclusive, LoopTypes, Hands, Window, PcsOf, HandOf
  <1>6. r.running => r.processing \/ LiveOf(r) = {}
    BY <1>5 DEF Window, RunnerOK, IsRunner
  <1>7. Starts(r, runner')
    BY <1>3, <1>5, <1>6, StartedStarts, StartsRefl
  <1>8. UNCHANGED <<proc, chain, draw, overlay, log>> /\ Local /\ runner.armed /\ chain.ready
    BY DEF AwaitEffect
  <1>9. RunnerOK(runner') /\ ~runner'.armed /\ HandOf(runner') = HandOf(runner)
        /\ (PcsOf(runner') = PcsOf(runner) \/ (PcsOf(runner) = {} /\ PcsOf(runner') = {"tick"}))
    BY <1>2, <1>5, <1>7 DEF Starts
  <1>10. QED BY <1>8, <1>9, AsideIs

\* A draw sequence ends.
LEMMA DrawsDoneDoes ==
    ASSUME TypeInv, QueueInv', DrawsDone
    PROVE  /\ Quiet /\ UNCHANGED <<proc, chain, overlay, log>> /\ Local /\ TypeInv' /\ ~draw'.busy
           /\ RunnerOK(runner') /\ HandOf(runner') = HandOf(runner) /\ runner'.armed = runner.armed
           /\ \/ PcsOf(runner') = PcsOf(runner)
              \/ PcsOf(runner) \in {{}, {"draws"}} /\ PcsOf(runner') = {"tick"}
  <1> DEFINE waiters == {l \in runner.loops : l.pc = "draws"}
             woken == {[l EXCEPT !.pc = "tick"] : l \in waiters}
  <1>1. RunnerOK(runner) /\ Window(runner, proc.queue) /\ Quiet
    BY TypedRunner DEF TypeInv, QueueInv, Sound, DrawsDone
  <1>2. UNCHANGED <<proc, chain, overlay, log>> /\ Local
    BY DEF DrawsDone
  <1>3. draw' \in DrawType /\ ~draw'.busy
    <2>1. draw.sequences \in Nat /\ draw.sequences > 0
      BY FieldsAreTyped DEF Fields, DrawsDone
    <2>2. draw.sequences - 1 \in Nat
      BY <2>1
    <2> DEFINE n == draw.sequences - 1
    <2> HIDE DEF n
    <2>3. draw' = [busy |-> FALSE, sequences |-> n] /\ n \in Nat
      BY <2>2 DEF DrawsDone, n
    <2>4. QED BY <2>3 DEF DrawType
  <1>4. /\ RunnerOK(runner') /\ HandOf(runner') = HandOf(runner) /\ runner'.armed = runner.armed
        /\ \/ PcsOf(runner') = PcsOf(runner)
           \/ PcsOf(runner) \in {{}, {"draws"}} /\ PcsOf(runner') = {"tick"}
    <2>1. CASE waiters = {}
      <3>1. runner' = Started(runner)
        BY <2>1 DEF DrawsDone, NotifyEnqueue
      <3>2. runner.processing \/ LiveOf(runner) = {}
        BY <1>1, QuietIsFree DEF TypeInv, QueueInv
      <3>3. QED BY <1>1, <3>1, <3>2, StartedStarts DEF Starts
    <2>2. CASE waiters # {}
      <3>1. runner' = [runner EXCEPT !.loops = (runner.loops \ waiters) \cup woken]
        BY <2>2 DEF DrawsDone
      <3> DEFINE W(l) == [id |-> l.id, ep |-> l.ep, pc |-> "tick", rest |-> l.rest]
      <3>2. woken = {W(l) : l \in waiters}
        <4>1. \A l \in waiters : [l EXCEPT !.pc = "tick"] = W(l)
          BY <1>1 DEF RunnerOK, IsRunner, IsLoop
        <4> HIDE DEF W, waiters
        <4>2. QED BY <4>1, Zenon
      <3>3. \A m \in woken : \E l \in waiters : m.ep = l.ep /\ m.pc = "tick" /\ m.rest = l.rest
        <4>1. \A l : W(l).ep = l.ep /\ W(l).pc = "tick" /\ W(l).rest = l.rest
          OBVIOUS
        <4> HIDE DEF W, woken
        <4>2. QED BY <3>2, <4>1
      <3>3b. \A l \in waiters : \E m \in woken : m.ep = l.ep /\ m.pc = "tick" /\ m.rest = l.rest
        <4>1. \A l : W(l).ep = l.ep /\ W(l).pc = "tick" /\ W(l).rest = l.rest
          OBVIOUS
        <4> HIDE DEF W, woken
        <4>2. QED BY <3>2, <4>1
      <3>4. \A l \in waiters : l \in runner.loops /\ l.pc = "draws" /\ l.rest = <<>>
        BY <1>1 DEF RunnerOK, Hands
      <3> HIDE DEF woken, waiters
      <3>5. /\ runner'.loops = (runner.loops \ waiters) \cup woken
            /\ runner'.epoch = runner.epoch /\ runner'.armed = runner.armed
            /\ runner'.running = runner.running
        BY <1>1, <3>1 DEF RunnerOK, IsRunner
      <3>6. "tick" \in Places
        BY DEF Places
      <3>7. LoopTypes(runner')
        BY <1>1, <3>3, <3>4, <3>5, <3>6 DEF RunnerOK, LoopTypes
      <3>8. Hands(runner')
        BY <1>1, <3>3, <3>4, <3>5 DEF RunnerOK, Hands
      <3>9. RunnerOK(runner')
        BY <1>1, <3>5, <3>7, <3>8 DEF RunnerOK, QueueInv, Sound
      <3>10. HandOf(runner') = HandOf(runner)
        <4>1. Groups(runner') = Groups(runner)
          BY <3>3, <3>4, <3>5 DEF Groups
        <4>2. QED BY <4>1 DEF HandOf
      <3>11. CASE \E l \in waiters : l.ep = runner.epoch
        <4>1. PICK l \in waiters : l.ep = runner.epoch
          BY <3>11
        <4>2. PICK m \in woken : m.ep = l.ep /\ m.pc = "tick" /\ m.rest = l.rest
          BY <3>3b
        <4>3. l \in LiveOf(runner) /\ m \in LiveOf(runner')
          BY <3>4, <3>5, <4>1, <4>2 DEF LiveOf
        <4>4. PcsOf(runner) = {"draws"} /\ PcsOf(runner') = {"tick"}
          BY <1>1, <3>4, <3>9, <4>2, <4>3, HandIs
        <4>5. QED BY <3>5, <3>9, <3>10, <4>4
      <3>12. CASE \A l \in waiters : l.ep # runner.epoch
        <4>1. LiveOf(runner') = LiveOf(runner)
          BY <3>3, <3>5, <3>12 DEF LiveOf
        <4>2. QED BY <3>5, <3>9, <3>10, <4>1 DEF PcsOf
      <3>13. QED BY <3>11, <3>12
    <2>3. QED BY <2>1, <2>2
  <1>5. TypeInv'
    BY <1>2, <1>3, <1>4, TypesKept DEF Local, TypeInv, QueueTypeOK, LogType
  <1>6. QED BY <1>1, <1>2, <1>3, <1>4, <1>5

-----------------------------------------------------------------------------
(* The overlay. *)

LEMMA ImagesAreFinite ==
    ASSUME NEW S, IsFiniteSet(S), NEW f, f = [x \in S |-> f[x]], NEW T, T = {f[x] : x \in S}
    PROVE  IsFiniteSet(T)
  <1>1. f \in Surjection(S, T)
    BY DEF Surjection
  <1>2. QED BY <1>1, FS_Surjection

OverlayOf(prev, inFlight, current, resolutions) ==
    [prev |-> prev, inFlight |-> inFlight, current |-> current, resolutions |-> resolutions]

Edited(s, resolutions, inFlight, current) ==
    [s EXCEPT !.resolutions = resolutions, !.inFlight = inFlight, !.current = current]

LEMMA OverlayEdits ==
    ASSUME NEW p, NEW f, NEW c, NEW rs, NEW a, NEW b, NEW d
    PROVE  Edited(OverlayOf(p, f, c, rs), a, b, d) = OverlayOf(p, b, d, a)
  <1> DEFINE s == OverlayOf(p, f, c, rs)
             x == [s EXCEPT !.resolutions = a]
             y == [x EXCEPT !.inFlight = b]
             z == [s EXCEPT !.resolutions = a, !.inFlight = b, !.current = d]
  <1>1. z = [y EXCEPT !.current = d]
    BY Zenon
  <1> HIDE DEF z
  <1>2. x = OverlayOf(p, f, c, a)
    BY DEF OverlayOf
  <1> HIDE DEF x
  <1>3. y = OverlayOf(p, b, c, a)
    BY <1>2 DEF OverlayOf
  <1> HIDE DEF y
  <1>4. z = OverlayOf(p, b, d, a)
    BY <1>1, <1>3 DEF OverlayOf
  <1>5. QED BY <1>4, Zenon DEF z, Edited

Aborted(r) == [id |-> r.id, at |-> r.at, aborted |-> TRUE]

\* Of a chain that has ended, the resolution that waits for a replay is left, aborted.
Leftover ==
    {r \in overlay.resolutions : r.id # overlay.current}
    \cup {Aborted(r) : r \in {q \in overlay.resolutions : q.id = overlay.current /\ q.at = "replay"}}

LEMMA ChainEndedIs ==
    ASSUME TypeInv, NEW ls \in SUBSET Keys, NEW s,
           s = OverlayOf(ls, overlay.inFlight, overlay.current, overlay.resolutions),
           overlay' = ChainEnded(s)
    PROVE  /\ OverlayIs(ls, FALSE, 0, Leftover)
           /\ overlay' \in OverlayType /\ IsFiniteSet(overlay'.resolutions)
  <1> DEFINE hit == {r \in overlay.resolutions : r.id = overlay.current}
             gone == {q \in hit : q.at = "replay"}
             kept == {Aborted(r) : r \in gone}
  <1>1. s = OverlayOf(ls, overlay.inFlight, overlay.current, overlay.resolutions)
    OBVIOUS
  <1>2. \A r \in overlay.resolutions :
           /\ [r EXCEPT !.aborted = TRUE] = Aborted(r) /\ Aborted(r) \in Resolutions
    <2> SUFFICES ASSUME NEW r \in overlay.resolutions
                 PROVE  [r EXCEPT !.aborted = TRUE] = Aborted(r) /\ Aborted(r) \in Resolutions
      OBVIOUS
    <2>1. r \in Resolutions
      BY OverlayUpdates
    <2>2. ASSUME NEW b
          PROVE  [r EXCEPT !.aborted = b] = [id |-> r.id, at |-> r.at, aborted |-> b]
      BY <2>1 DEF Resolutions
    <2>3. QED BY <2>1, <2>2, Zenon DEF Aborted, Resolutions
  <1>3. {[r EXCEPT !.aborted = TRUE] : r \in gone} = kept
    BY <1>2
  <1>4. Leftover = (overlay.resolutions \ hit) \cup kept
    BY DEF Leftover
  <1>5. Leftover \in SUBSET Resolutions /\ IsFiniteSet(Leftover)
    <2>1. IsFiniteSet(overlay.resolutions) /\ overlay.resolutions \in SUBSET Resolutions
      BY OverlayUpdates
    <2>2. IsFiniteSet(overlay.resolutions \ hit) /\ IsFiniteSet(gone)
      BY <2>1, FS_Subset
    <2>3. IsFiniteSet(kept)
      <3> DEFINE f == [r \in gone |-> Aborted(r)]
      <3>1. f = [r \in gone |-> f[r]] /\ kept = {f[r] : r \in gone}
        OBVIOUS
      <3> HIDE DEF f, kept, gone
      <3>2. QED BY <2>2, <3>1, ImagesAreFinite
    <2>4. IsFiniteSet((overlay.resolutions \ hit) \cup kept)
      BY <2>2, <2>3, FS_Union
    <2>5. QED BY <1>2, <1>4, <2>1, <2>4
  <1>6. overlay' = [s EXCEPT !.resolutions = Leftover, !.inFlight = FALSE, !.current = 0]
    <2>1. s.resolutions = overlay.resolutions /\ s.current = overlay.current
      BY <1>1 DEF OverlayOf
    <2> DEFINE hits == {r \in s.resolutions : r.id = s.current}
               keeps == {[r EXCEPT !.aborted = TRUE] : r \in {q \in hits : q.at = "replay"}}
               rest == (s.resolutions \ hits) \cup keeps
    <2>2. overlay' = [s EXCEPT !.resolutions = rest, !.inFlight = FALSE, !.current = 0]
      BY Zenon DEF ChainEnded
    <2>3. hits = hit
      BY <2>1
    <2>4. keeps = kept
      BY <1>3, <2>3, Zenon
    <2>5. rest = Leftover
      <3> HIDE DEF hits, keeps, hit, kept
      <3>1. QED BY <1>4, <2>1, <2>3, <2>4
    <2> HIDE DEF rest
    <2>6. QED BY <2>2, <2>5, Zenon
  <1> HIDE DEF hit, gone, kept
  <1>7. overlay' = OverlayOf(ls, FALSE, 0, Leftover)
    <2>1. PICK b : b = FALSE
      OBVIOUS
    <2>2. overlay' = Edited(s, Leftover, b, 0)
      BY <1>6, <2>1 DEF Edited
    <2>3. Edited(s, Leftover, b, 0) = OverlayOf(ls, b, 0, Leftover)
      BY OverlayEdits
    <2>4. QED BY <2>1, <2>2, <2>3
  <1>8. OverlayIs(ls, FALSE, 0, Leftover)
    BY <1>7 DEF OverlayIs, OverlayOf
  <1>9. overlay' \in OverlayType
    BY <1>5, <1>7, OverlayUpdates DEF OverlayOf
  <1>10. QED BY <1>5, <1>8, <1>9 DEF OverlayIs

Newborn(id) == [id |-> id, at |-> "hold", aborted |-> FALSE]

LEMMA NewResolutionIs ==
    ASSUME TypeInv, NEW ls \in SUBSET Keys, NEW s,
           s = OverlayOf(ls, overlay.inFlight, overlay.current, overlay.resolutions),
           overlay' = NewResolution(s)
    PROVE  /\ \E id \in Nat \ {0} :
                 /\ \A r \in overlay.resolutions : r.id # id
                 /\ OverlayIs(ls, TRUE, id, overlay.resolutions \cup {Newborn(id)})
           /\ overlay' \in OverlayType /\ IsFiniteSet(overlay'.resolutions)
  <1> DEFINE ids == {r.id : r \in overlay.resolutions}
             id == Unused(ids)
             rs == overlay.resolutions \cup {Newborn(id)}
  <1>1. s = OverlayOf(ls, overlay.inFlight, overlay.current, overlay.resolutions)
    OBVIOUS
  <1>2. id \in Nat \ {0} /\ id \notin ids
    <2>1. IsFiniteSet(ids)
      <3> DEFINE f == [r \in overlay.resolutions |-> r.id]
      <3>1. f = [r \in overlay.resolutions |-> f[r]] /\ ids = {f[r] : r \in overlay.resolutions}
        OBVIOUS
      <3>2. IsFiniteSet(overlay.resolutions)
        BY OverlayUpdates
      <3> HIDE DEF f, ids
      <3>3. QED BY <3>1, <3>2, ImagesAreFinite
    <2>2. QED BY <2>1, UnusedIs
  <1>3. overlay' = [s EXCEPT !.resolutions = rs, !.inFlight = TRUE, !.current = id]
    <2>1. s.resolutions = overlay.resolutions
      BY <1>1 DEF OverlayOf
    <2>2. QED BY <2>1, Zenon DEF NewResolution, Newborn
  <1>4. \A r \in overlay.resolutions : r.id # id
    BY <1>2
  <1> HIDE DEF ids, id
  <1>5. Newborn(id) \in Resolutions
    <2>1. "hold" \in Stages
      BY DEF Stages
    <2>2. QED BY <1>2, <2>1 DEF Newborn, Resolutions
  <1>6. rs \in SUBSET Resolutions /\ IsFiniteSet(rs)
    BY <1>5, OverlayUpdates, FS_AddElement
  <1> HIDE DEF rs
  <1>7. overlay' = OverlayOf(ls, TRUE, id, rs)
    <2>1. PICK b : b = TRUE
      OBVIOUS
    <2>2. overlay' = Edited(s, rs, b, id)
      BY <1>3, <2>1 DEF Edited
    <2>3. Edited(s, rs, b, id) = OverlayOf(ls, b, id, rs)
      BY OverlayEdits
    <2>4. QED BY <2>1, <2>2, <2>3
  <1>8. OverlayIs(ls, TRUE, id, rs)
    BY <1>7 DEF OverlayIs, OverlayOf
  <1>9. overlay' \in OverlayType
    BY <1>2, <1>6, <1>7, OverlayUpdates DEF OverlayOf
  <1>10. IsFiniteSet(overlay'.resolutions)
    BY <1>6, <1>8 DEF OverlayIs
  <1>11. QED BY <1>2, <1>4, <1>8, <1>9, <1>10 DEF rs

\* Effect A of the overlay.
Fewer == Cardinality(proc.links) < Cardinality(overlay.prev)

LEMMA LinksEffectDoes ==
    ASSUME TypeInv, QueueInv', LinksEffect
    PROVE  /\ UNCHANGED <<proc, runner, draw, log, server, parked, races>>
           /\ "links" \in dirty /\ dirty' = dirty \ {"links"} /\ TypeInv'
           /\ \/ /\ proc.phase = "idle" /\ SameChain
                 /\ OverlayIs(proc.links, FALSE, 0, Leftover)
              \/ /\ proc.phase = "resolving" /\ Fewer /\ ~overlay.inFlight
                 /\ ChainIs(chain.solved, chain.waiting, chain.draining, chain.buffer,
                            chain.deferred, FALSE, chain.replaying)
                 /\ \E id \in Nat \ {0} :
                       /\ \A r \in overlay.resolutions : r.id # id
                       /\ OverlayIs(proc.links, TRUE, id, overlay.resolutions \cup {Newborn(id)})
              \/ /\ ~(proc.phase = "resolving" /\ Fewer /\ ~overlay.inFlight) /\ SameChain
                 /\ OverlayIs(proc.links, overlay.inFlight, overlay.current, overlay.resolutions)
  <1> DEFINE seen == [overlay EXCEPT !.prev = proc.links]
             resolves == proc.phase = "resolving" /\ Fewer /\ ~overlay.inFlight
  <1>1. UNCHANGED <<proc, runner, draw, log, server, parked, races>> /\ "links" \in dirty
        /\ dirty' = (dirty \ {"links"}) \cup Wakes
    BY DEF LinksEffect, Ran
  <1>2. /\ chain \in ChainType /\ proc.links \in SUBSET Keys
        /\ seen = OverlayOf(proc.links, overlay.inFlight, overlay.current, overlay.resolutions)
    <2>1. chain \in ChainType /\ proc.links \in SUBSET Keys
      BY FieldsAreTyped DEF TypeInv, QueueTypeOK, Fields
    <2>2. overlay = OverlayOf(overlay.prev, overlay.inFlight, overlay.current, overlay.resolutions)
      BY OverlayUpdates DEF OverlayOf
    <2>3. seen = OverlayOf(proc.links, overlay.inFlight, overlay.current, overlay.resolutions)
      BY <2>2 DEF OverlayOf
    <2>4. QED BY <2>1, <2>3
  <1>3. chain' \in ChainType /\ (chain' = chain \/ ~chain'.ready)
    BY <1>2 DEF LinksEffect, ChainType
  <1>4. Wakes = {}
    BY <1>1, <1>3 DEF Wakes
  <1>5. RunnerOK(runner')
    BY <1>1, TypedRunner
  <1>6. overlay' \in OverlayType /\ IsFiniteSet(overlay'.resolutions) => TypeInv'
    BY <1>1, <1>3, <1>5, TypesKept DEF TypeInv, QueueTypeOK, DrawType, LogType
  <1>7. CASE proc.phase = "idle" /\ proc.links = {}
    <2>1. overlay' = ChainEnded(seen) /\ chain' = chain
      BY <1>7 DEF LinksEffect
    <2>2. /\ OverlayIs(proc.links, FALSE, 0, Leftover)
          /\ overlay' \in OverlayType /\ IsFiniteSet(overlay'.resolutions)
      BY <1>2, <2>1, ChainEndedIs
    <2>3. SameChain
      BY <2>1 DEF SameChain, ChainIs
    <2>4. QED BY <1>1, <1>4, <1>6, <1>7, <2>2, <2>3
  <1>8. CASE resolves
    <2>1. overlay' = NewResolution(seen) /\ chain' = [chain EXCEPT !.ready = FALSE]
      BY <1>8 DEF LinksEffect, Fewer
    <2>2. /\ \E id \in Nat \ {0} :
                 /\ \A r \in overlay.resolutions : r.id # id
                 /\ OverlayIs(proc.links, TRUE, id, overlay.resolutions \cup {Newborn(id)})
          /\ overlay' \in OverlayType /\ IsFiniteSet(overlay'.resolutions)
      BY <1>2, <2>1, NewResolutionIs
    <2>3. ChainIs(chain.solved, chain.waiting, chain.draining, chain.buffer,
                  chain.deferred, FALSE, chain.replaying)
      BY <1>2, <2>1 DEF ChainType, ChainIs
    <2>4. QED BY <1>1, <1>4, <1>6, <1>8, <2>2, <2>3
  <1>9. CASE ~resolves /\ ~(proc.phase = "idle" /\ proc.links = {})
    <2>1. overlay' = seen /\ chain' = chain
      BY <1>9 DEF LinksEffect, Fewer
    <2>2. overlay' = [prev |-> proc.links, inFlight |-> overlay.inFlight,
                      current |-> overlay.current, resolutions |-> overlay.resolutions]
      BY <1>2, <2>1 DEF OverlayOf
    <2>3. OverlayIs(proc.links, overlay.inFlight, overlay.current, overlay.resolutions)
      BY <2>2 DEF OverlayIs
    <2>4. overlay' \in OverlayType /\ IsFiniteSet(overlay'.resolutions)
      BY <1>2, <2>2, <2>3, OverlayUpdates, FieldsAreTyped DEF OverlayIs, Fields
    <2>5. SameChain
      BY <2>1 DEF SameChain, ChainIs
    <2>6. QED BY <1>1, <1>4, <1>6, <1>9, <2>3, <2>4, <2>5
  <1>10. QED BY <1>7, <1>8, <1>9

\* A resolution ends.
CurrentBut(r) == IF overlay.current = r.id THEN 0 ELSE overlay.current
Ended(r) ==
    /\ OverlayIs(overlay.prev, FALSE, CurrentBut(r), Others(r))
    /\ ChainIs(chain.solved, chain.waiting, chain.draining, chain.buffer, chain.deferred, TRUE,
               chain.replaying)

LEMMA FinishedIs ==
    ASSUME TypeInv, NEW r \in overlay.resolutions, Finished(r)
    PROVE  /\ Ended(r)
           /\ overlay' \in OverlayType /\ IsFiniteSet(overlay'.resolutions) /\ chain' \in ChainType
  <1> DEFINE s == OverlayOf(overlay.prev, overlay.inFlight, overlay.current, overlay.resolutions)
  <1>1. overlay = s
    BY OverlayUpdates DEF OverlayOf
  <1>2. PICK b : b = FALSE
    OBVIOUS
  <1>3. overlay' = Edited(overlay, Others(r), b, CurrentBut(r))
    BY <1>2 DEF Finished, Edited, Others, CurrentBut
  <1>4. Edited(s, Others(r), b, CurrentBut(r))
        = OverlayOf(overlay.prev, b, CurrentBut(r), Others(r))
    BY OverlayEdits
  <1> HIDE DEF s
  <1>5. overlay' = OverlayOf(overlay.prev, b, CurrentBut(r), Others(r))
    BY <1>1, <1>3, <1>4, Zenon
  <1>6. OverlayIs(overlay.prev, FALSE, CurrentBut(r), Others(r))
    BY <1>2, <1>5 DEF OverlayOf, OverlayIs
  <1>7. overlay' \in OverlayType /\ IsFiniteSet(overlay'.resolutions)
    <2>1. CurrentBut(r) \in Nat /\ overlay.prev \in SUBSET Keys
      BY FieldsAreTyped DEF Fields, CurrentBut
    <2>2. QED BY <1>2, <1>5, <1>6, <2>1, OverlayUpdates DEF OverlayOf, OverlayIs
  <1>8. chain \in ChainType
    BY DEF TypeInv, QueueTypeOK
  <1>9. /\ ChainIs(chain.solved, chain.waiting, chain.draining, chain.buffer, chain.deferred, TRUE,
                   chain.replaying)
        /\ chain' \in ChainType
    BY <1>8 DEF Finished, ChainType, ChainIs
  <1>10. QED BY <1>6, <1>7, <1>9 DEF Ended

LEMMA ImpactEndsDoes ==
    ASSUME TypeInv, QueueInv', NEW r \in overlay.resolutions, ImpactEnds(r)
    PROVE  /\ Quiet /\ r.at = "impact" /\ Ended(r)
           /\ UNCHANGED <<proc, runner, draw, log>> /\ Local /\ TypeInv'
  <1>1. /\ Ended(r)
        /\ overlay' \in OverlayType /\ IsFiniteSet(overlay'.resolutions) /\ chain' \in ChainType
    BY FinishedIs DEF ImpactEnds
  <1>2. Quiet /\ r.at = "impact" /\ UNCHANGED <<proc, runner, draw, log>> /\ Local
    BY DEF ImpactEnds
  <1>3. RunnerOK(runner')
    BY <1>2, TypedRunner
  <1>4. TypeInv'
    BY <1>1, <1>2, <1>3, TypesKept DEF Local, TypeInv, QueueTypeOK, DrawType, LogType
  <1>5. QED BY <1>1, <1>2, <1>4

\* The end of a hold, with something to replay.
Signal == <<Entry("await-signal", <<>>)>>
Replays(r) ==
    /\ chain.buffer # <<>>
    /\ ProcIs(Batch(r.id) \o (Signal \o proc.queue), proc.links, proc.phase, proc.pending, proc.gen,
              proc.ends)
    /\ ChainIs(chain.solved, FALSE, TRUE, <<>>, chain.deferred, chain.ready, chain.replaying)
    /\ OverlayIs(overlay.prev, overlay.inFlight, overlay.current,
                 Others(r) \cup {Stage(r, "replay")})
    /\ MayStart

LEMMA HoldEndsDoes ==
    ASSUME TypeInv, QueueInv', NEW r \in overlay.resolutions, HoldEnds(r)
    PROVE  /\ Quiet /\ r.at = "hold" /\ UNCHANGED <<draw, log>> /\ Local /\ TypeInv'
           /\ \/ chain.buffer = <<>> /\ Ended(r) /\ UNCHANGED <<proc, runner>>
              \/ Replays(r)
  <1>1. Quiet /\ r.at = "hold" /\ UNCHANGED <<draw, log>> /\ Local
    BY DEF HoldEnds
  <1>2. CASE chain.buffer = <<>>
    <2>1. Finished(r) /\ UNCHANGED <<proc, runner>>
      BY <1>2 DEF HoldEnds
    <2>2. /\ Ended(r)
          /\ overlay' \in OverlayType /\ IsFiniteSet(overlay'.resolutions) /\ chain' \in ChainType
      BY <2>1, FinishedIs
    <2>3. RunnerOK(runner')
      BY <2>1, TypedRunner
    <2>4. TypeInv'
      BY <1>1, <2>1, <2>2, <2>3, TypesKept DEF Local, TypeInv, QueueTypeOK, DrawType, LogType
    <2>5. QED BY <1>1, <1>2, <2>1, <2>2, <2>4
  <1>3. CASE chain.buffer # <<>>
    <2> DEFINE q == Batch(r.id) \o (Signal \o proc.queue)
               rs == Others(r) \cup {Stage(r, "replay")}
    <2>1. /\ proc' = [proc EXCEPT !.queue = Batch(r.id) \o Signal \o @]
          /\ chain' = [chain EXCEPT !.buffer = <<>>, !.draining = TRUE, !.waiting = FALSE]
          /\ overlay' = [overlay EXCEPT !.resolutions = (@ \ {r}) \cup {[r EXCEPT !.at = "replay"]}]
          /\ runner' = Started(runner)
      BY <1>3 DEF HoldEnds, Signal, NotifyEnqueue
    <2>2. r.id \in Nat /\ proc.queue \in Seq(Entries) /\ chain.replaying \in BOOLEAN
      BY FieldsAreTyped DEF Fields
    <2>3. q = Batch(r.id) \o Signal \o proc.queue /\ q \in Seq(Entries)
      <3>1. /\ Entry("group", chain.buffer) \in Entries /\ Entry("barrier", <<>>) \in Entries
            /\ Entry("batch-end", <<r.id>>) \in Entries /\ Entry("await-signal", <<>>) \in Entries
        BY <1>3, <2>2, BatchIs
      <3> DEFINE a == Entry("group", chain.buffer)
                 b == Entry("barrier", <<>>)
                 c == Entry("batch-end", <<r.id>>)
                 d == Entry("await-signal", <<>>)
      <3>2. Batch(r.id) = <<a, b, c>> /\ Signal = <<d>>
        BY DEF Batch, Signal
      <3> HIDE DEF a, b, c, d, q
      <3>3. a \in Entries /\ b \in Entries /\ c \in Entries /\ d \in Entries
        BY <3>1 DEF a, b, c, d
      <3>4. <<a, b, c>> \in Seq(Entries) /\ <<d>> \in Seq(Entries)
        BY <3>3
      <3>5. Batch(r.id) \in Seq(Entries) /\ Signal \in Seq(Entries)
        BY <3>2, <3>4
      <3>6. (Batch(r.id) \o Signal) \o proc.queue = Batch(r.id) \o (Signal \o proc.queue)
        <4> DEFINE B == Batch(r.id)
                   Q == proc.queue
        <4>1. B \in Seq(Entries) /\ Signal \in Seq(Entries) /\ Q \in Seq(Entries)
          BY <2>2, <3>5
        <4> HIDE DEF B, Q
        <4>2. (B \o Signal) \o Q = B \o (Signal \o Q)
          BY <4>1, ConcatAssociative
        <4>3. QED BY <4>2 DEF B, Q
      <3>7. Signal \o proc.queue \in Seq(Entries)
        BY <2>2, <3>5, ConcatProperties
      <3>8. Batch(r.id) \o (Signal \o proc.queue) \in Seq(Entries)
        BY <3>5, <3>7, ConcatProperties
      <3>9. QED BY <3>6, <3>8 DEF q
    <2> HIDE DEF q
    <2>4. proc' = [proc EXCEPT !.queue = q]
      BY <2>1, <2>3
    <2>5. /\ ProcIs(q, proc.links, proc.phase, proc.pending, proc.gen, proc.ends)
          /\ proc' \in ProcType
      BY <2>3, <2>4, ProcUpdates DEF ProcIs, ProcType, TypeInv, QueueTypeOK
    <2>6. /\ ChainIs(chain.solved, FALSE, TRUE, <<>>, chain.deferred, chain.ready, chain.replaying)
          /\ chain' \in ChainType
      BY <2>1, <2>2, DrainDoes
    <2>7. Stage(r, "replay") = [r EXCEPT !.at = "replay"] /\ Stage(r, "replay") \in Resolutions
      BY StageIs DEF Stages
    <2>8. overlay' = [overlay EXCEPT !.resolutions = rs]
      BY <2>1, <2>7 DEF Others
    <2>9. rs \in SUBSET Resolutions /\ IsFiniteSet(rs)
      BY <2>7, OverlayUpdates
    <2> HIDE DEF rs
    <2>10. overlay' = [prev |-> overlay.prev, inFlight |-> overlay.inFlight,
                       current |-> overlay.current, resolutions |-> rs]
      BY <2>8, OverlayUpdates
    <2>11. OverlayIs(overlay.prev, overlay.inFlight, overlay.current, rs)
      BY <2>10 DEF OverlayIs
    <2>12. overlay' \in OverlayType /\ IsFiniteSet(overlay'.resolutions)
      BY <2>9, <2>10, <2>11, OverlayUpdates, FieldsAreTyped DEF OverlayIs, Fields
    <2>13. MayStart
      <3>1. RunnerOK(runner) /\ Window(runner, proc.queue)
        BY TypedRunner DEF TypeInv, QueueInv, Sound
      <3>2. runner.processing \/ LiveOf(runner) = {}
        BY <1>1, QuietIsFree DEF TypeInv, QueueInv
      <3>3. QED BY <2>1, <3>1, <3>2, StartedStarts DEF MayStart
    <2>14. TypeInv'
      BY <1>1, <2>5, <2>6, <2>12, <2>13, TypesKept
         DEF Local, MayStart, Starts, TypeInv, QueueTypeOK, ProcIs, DrawType, LogType
    <2>15. QED BY <1>1, <1>3, <2>5, <2>6, <2>11, <2>13, <2>14 DEF Replays, q, rs
  <1>4. QED BY <1>2, <1>3

\* The safety timer fires for a batch that is gone: a race from then on.
LEMMA SafetyFiresDoes ==
    ASSUME TypeInv, QueueInv', NEW r \in overlay.resolutions, SafetyFires(r)
    PROVE  /\ TypeInv' /\ "late safety timer" \in races'
           /\ UNCHANGED <<server, proc, runner, log>>
  <1>1. /\ UNCHANGED <<server, proc, runner, draw, parked, log>> /\ dirty' = dirty \cup Wakes
        /\ chain' = Cleanup /\ overlay' = Replayed(r) /\ races' = races \cup {"late safety timer"}
    BY DEF SafetyFires
  <1>2. chain' \in ChainType
    BY <1>1, CleanupDoes
  <1>3. overlay' \in OverlayType /\ IsFiniteSet(overlay'.resolutions)
    BY <1>1, ReplayedDoes
  <1>4. RunnerOK(runner')
    BY <1>1, TypedRunner
  <1>5. TypeInv'
    BY <1>1, <1>2, <1>3, <1>4, TypesKept DEF TypeInv, QueueTypeOK, DrawType, LogType
  <1>6. QED BY <1>1, <1>5

-----------------------------------------------------------------------------
(* The messages of the server. *)

ServerIs(phase, links, unsolved, solving, events, up) ==
    /\ server'.phase = phase /\ server'.links = links /\ server'.unsolved = unsolved
    /\ server'.solving = solving /\ server'.events = events /\ server'.up = up

\* A message changes the queue and the chain as received, when the socket is up.
Untouched == UNCHANGED <<runner, chain, draw, overlay, parked, races>> /\ dirty' = dirty \cup Wakes
Receives(queue, links, phase, pending, gen) ==
    IF server.up THEN ProcIs(queue, links, phase, pending, gen, proc.ends) ELSE proc' = proc

LEMMA ReceiveDoes ==
    ASSUME TypeInv, QueueInv', NEW p \in ProcType, NEW got \in Seq(Nat), Receive(p, got),
           IsFiniteSet(p.links \cup p.pending), server' \in ServerType, WellFormed(server')
    PROVE  /\ Quiet /\ Untouched /\ TypeInv'
           /\ proc' = IF server.up THEN p ELSE proc
           /\ log'.got = (IF server.up THEN log.got \o got ELSE log.got)
           /\ log'.played = log.played
  <1>1. /\ Quiet /\ Untouched /\ proc' = IF server.up THEN p ELSE proc
        /\ log' = IF server.up THEN [log EXCEPT !.got = @ \o got] ELSE log
    BY DEF Receive, Untouched
  <1>2. log \in LogType
    BY DEF TypeInv, QueueTypeOK, LogType
  <1>3. /\ log' \in LogType /\ log'.played = log.played
        /\ log'.got = IF server.up THEN log.got \o got ELSE log.got
    <2> DEFINE g == log.got \o got
    <2>1. g \in Seq(Nat)
      BY <1>2, ConcatProperties DEF LogType
    <2> HIDE DEF g
    <2>2. log' = IF server.up THEN [log EXCEPT !.got = g] ELSE log
      BY <1>1 DEF g
    <2>3. /\ log' \in LogType /\ log'.played = log.played
          /\ log'.got = IF server.up THEN g ELSE log.got
      BY <1>2, <2>1, <2>2 DEF LogType
    <2>4. QED BY <2>3 DEF g
  <1>4. proc' \in ProcType /\ IsFiniteSet(proc'.links \cup proc'.pending)
    BY <1>1 DEF TypeInv, QueueTypeOK
  <1>5. RunnerOK(runner')
    BY <1>1, TypedRunner DEF Untouched
  <1>6. Wakes \subseteq {"queue", "links", "ready"}
    BY WakesAre
  <1>7. QueueTypeOK'
    BY <1>1, <1>3, <1>4, <1>6 DEF TypeInv, QueueTypeOK, Untouched, LogType
  <1>8. TypeInv'
    BY <1>5, <1>7 DEF TypeInv, RunnerOK
  <1>9. QED BY <1>1, <1>3, <1>8

LEMMA ServerUpdates ==
    ASSUME NEW s \in ServerType
    PROVE  /\ s.phase \in Phases /\ s.links \in Nat /\ s.unsolved \in Nat
           /\ s.solving \in Nat \cup {NoLink} /\ s.chainings \in Nat /\ s.events \in Nat
           /\ s.syncs \in Nat /\ s.up \in BOOLEAN
           /\ s = [phase |-> s.phase, links |-> s.links, unsolved |-> s.unsolved,
                   solving |-> s.solving, chainings |-> s.chainings, events |-> s.events,
                   syncs |-> s.syncs, up |-> s.up]
           /\ \A ph \in Phases : [s EXCEPT !.phase = ph] \in ServerType
           /\ \A n \in Nat : [s EXCEPT !.links = n] \in ServerType
           /\ \A n \in Nat : [s EXCEPT !.unsolved = n] \in ServerType
           /\ \A n \in Nat \cup {NoLink} : [s EXCEPT !.solving = n] \in ServerType
           /\ \A n \in Nat : [s EXCEPT !.chainings = n] \in ServerType
           /\ \A n \in Nat : [s EXCEPT !.events = n] \in ServerType
           /\ \A n \in Nat : [s EXCEPT !.syncs = n] \in ServerType
           /\ \A b \in BOOLEAN : [s EXCEPT !.up = b] \in ServerType
  BY DEF ServerType

\* The page commits the links that are pending when the next message comes.
LEMMA CommittedIs ==
    ASSUME TypeInv
    PROVE  /\ Committed \in ProcType
           /\ Committed.queue = proc.queue /\ Committed.links = proc.links \cup proc.pending
           /\ Committed.phase = proc.phase /\ Committed.pending = {}
           /\ Committed.gen = proc.gen /\ Committed.ends = proc.ends
           /\ IsFiniteSet(Committed.links) /\ IsFiniteSet(Committed.links \cup Committed.pending)
  <1>1. proc \in ProcType /\ IsFiniteSet(proc.links \cup proc.pending)
    BY DEF TypeInv, QueueTypeOK
  <1> DEFINE ls == proc.links \cup proc.pending
             c == [proc EXCEPT !.links = ls]
  <1>2. ls \in SUBSET Keys /\ IsFiniteSet(ls)
    BY <1>1 DEF ProcType
  <1>3. Committed = [c EXCEPT !.pending = {}]
    BY Zenon DEF Committed
  <1> HIDE DEF ls
  <1>4. /\ c \in ProcType /\ c.links = ls /\ c.queue = proc.queue /\ c.phase = proc.phase
        /\ c.gen = proc.gen /\ c.ends = proc.ends
    BY <1>1, <1>2 DEF ProcType
  <1> HIDE DEF c
  <1>5. /\ Committed \in ProcType /\ Committed.queue = proc.queue /\ Committed.links = ls
        /\ Committed.phase = proc.phase /\ Committed.pending = {}
        /\ Committed.gen = proc.gen /\ Committed.ends = proc.ends
    BY <1>3, <1>4 DEF ProcType
  <1>6. ls \cup {} = ls
    OBVIOUS
  <1>7. QED BY <1>2, <1>5, <1>6 DEF ls

LEMMA NothingGot == \A q \in Seq(Nat) : q \o <<>> = q
  OBVIOUS

LEMMA EntryIs ==
    ASSUME NEW kind \in {"chaining", "solving", "solved", "event"}, NEW n \in Nat
    PROVE  /\ Entry(kind, <<n>>) \in Entries /\ ~Own(Entry(kind, <<n>>))
           /\ Entry(kind, <<n>>).kind = kind /\ Entry(kind, <<n>>).of = <<n>>
  <1>1. <<n>> \in Seq(Nat) /\ Len(<<n>>) = 1
    OBVIOUS
  <1>2. kind \in Kinds
    BY DEF Kinds
  <1>3. QED BY <1>1, <1>2 DEF Entry, Entries, Own

LEMMA EndIs ==
    /\ Entry("end", <<>>) \in Entries /\ ~Own(Entry("end", <<>>))
    /\ Entry("end", <<>>).kind = "end"
  BY DEF Entry, Entries, Own, Kinds

LEMMA SendChainingDoes ==
    ASSUME TypeInv, QueueInv', SendChaining
    PROVE  /\ Quiet /\ Untouched /\ TypeInv' /\ server.phase # "resolving"
           /\ ServerIs("building", server.links + 1, server.unsolved + 1, server.solving,
                       server.events, server.up)
           /\ Receives(Append(proc.queue, Entry("chaining", <<server.links>>)),
                       proc.links \cup proc.pending,
                       IF proc.phase = "idle" THEN "building" ELSE proc.phase,
                       {[idx |-> server.links, gen |-> proc.gen]}, proc.gen)
           /\ log'.got = log.got /\ log'.played = log.played
  <1> DEFINE ph == IF proc.phase = "idle" THEN "building" ELSE proc.phase
             new == {[idx |-> server.links, gen |-> proc.gen]}
             q == Append(proc.queue, Entry("chaining", <<server.links>>))
             p == [Committed EXCEPT !.phase = ph, !.pending = new, !.queue = q]
             a == [Committed EXCEPT !.phase = ph]
             b == [a EXCEPT !.pending = new]
  <1>1. server \in ServerType /\ WellFormed(server) /\ proc.queue \in Seq(Entries) /\ proc.gen \in Nat
        /\ log.got \in Seq(Nat) /\ server.links \in Nat /\ proc.phase \in Phases
    BY FieldsAreTyped DEF TypeInv, QueueTypeOK, Fields, ServerType
  <1>2. q \in Seq(Entries)
    BY <1>1, EntryIs, AppendIs
  <1>3. ph \in Phases
    BY <1>1 DEF Phases
  <1>4. new \in SUBSET Keys
    BY <1>1 DEF Keys
  <1>5. p = [b EXCEPT !.queue = q]
    BY Zenon
  <1>6. Receive(p, <<>>)
    <2>1. Committed.phase = proc.phase /\ Committed.queue = proc.queue
      BY CommittedIs
    <2> DEFINE r == [Committed EXCEPT
                        !.phase = IF @ = "idle" THEN "building" ELSE @,
                        !.pending = {[idx |-> server.links, gen |-> proc.gen]},
                        !.queue = Append(@, Entry("chaining", <<server.links>>))]
    <2>2. r = p
      BY <2>1
    <2>3. Receive(r, <<>>)
      BY DEF SendChaining
    <2> HIDE DEF r, p
    <2>4. QED BY <2>2, <2>3
  <1>7. IsFiniteSet(new)
    BY FS_Singleton
  <1> HIDE DEF q, ph, new, p
  <1>8. /\ a \in ProcType /\ a.phase = ph /\ a.queue = proc.queue
        /\ a.links = proc.links \cup proc.pending /\ a.gen = proc.gen /\ a.ends = proc.ends
    BY <1>3, CommittedIs DEF ProcType
  <1> HIDE DEF a
  <1>9. /\ b \in ProcType /\ b.phase = ph /\ b.queue = proc.queue /\ b.pending = new
        /\ b.links = proc.links \cup proc.pending /\ b.gen = proc.gen /\ b.ends = proc.ends
    BY <1>4, <1>8 DEF ProcType
  <1> HIDE DEF b
  <1>10. /\ p \in ProcType /\ p.phase = ph /\ p.queue = q /\ p.pending = new
         /\ p.links = proc.links \cup proc.pending /\ p.gen = proc.gen /\ p.ends = proc.ends
    BY <1>2, <1>5, <1>9 DEF ProcType
  <1>11. IsFiniteSet(p.links \cup p.pending)
    <2>1. IsFiniteSet(proc.links \cup proc.pending)
      BY DEF TypeInv, QueueTypeOK
    <2>2. IsFiniteSet((proc.links \cup proc.pending) \cup new)
      BY <1>7, <2>1, FS_Union
    <2>3. QED BY <1>10, <2>2
  <1>12. /\ server' \in ServerType
         /\ ServerIs("building", server.links + 1, server.unsolved + 1, server.solving,
                     server.events, server.up)
    <2> DEFINE n == server.links + 1
               m == server.unsolved + 1
               k == server.chainings + 1
    <2>1. n \in Nat /\ m \in Nat /\ k \in Nat /\ "building" \in Phases
      BY <1>1 DEF ServerType, Phases
    <2> DEFINE v == [server EXCEPT !.phase = "building"]
               w == [v EXCEPT !.links = n]
               x == [w EXCEPT !.unsolved = m]
    <2>2. server' = [server EXCEPT !.phase = "building", !.links = n, !.unsolved = m,
                                   !.chainings = k]
      BY DEF SendChaining
    <2> HIDE DEF n, m, k
    <2>3. server' = [x EXCEPT !.chainings = k]
      BY <2>2, Zenon
    <2>4. /\ v \in ServerType /\ v.phase = "building" /\ v.solving = server.solving
          /\ v.events = server.events /\ v.up = server.up
      BY <1>1, <2>1 DEF ServerType
    <2> HIDE DEF v
    <2>5. /\ w \in ServerType /\ w.phase = "building" /\ w.solving = server.solving
          /\ w.events = server.events /\ w.up = server.up /\ w.links = n
      BY <2>1, <2>4 DEF ServerType
    <2> HIDE DEF w
    <2>6. /\ x \in ServerType /\ x.phase = "building" /\ x.solving = server.solving
          /\ x.events = server.events /\ x.up = server.up /\ x.links = n /\ x.unsolved = m
      BY <2>1, <2>5 DEF ServerType
    <2> HIDE DEF x
    <2>7. /\ server' \in ServerType /\ server'.phase = "building" /\ server'.solving = server.solving
          /\ server'.events = server.events /\ server'.up = server.up /\ server'.links = n
          /\ server'.unsolved = m
      BY <2>1, <2>3, <2>6 DEF ServerType
    <2>8. QED BY <2>7 DEF ServerIs, n, m
  <1>13. server.phase # "resolving"
    BY DEF SendChaining
  <1>14. WellFormed(server')
    BY <1>1, <1>12, <1>13 DEF WellFormed, ServerIs, ServerType
  <1>15. <<>> \in Seq(Nat)
    OBVIOUS
  <1>16. /\ Quiet /\ Untouched /\ TypeInv' /\ proc' = (IF server.up THEN p ELSE proc)
         /\ log'.got = (IF server.up THEN log.got \o <<>> ELSE log.got)
         /\ log'.played = log.played
    BY <1>6, <1>10, <1>11, <1>12, <1>14, <1>15, ReceiveDoes
  <1>17. log'.got = log.got
    BY <1>1, <1>16, NothingGot
  <1>18. Receives(q, proc.links \cup proc.pending, ph, new, proc.gen)
    BY <1>10, <1>16 DEF Receives, ProcIs
  <1>19. QED BY <1>12, <1>13, <1>16, <1>17, <1>18 DEF q, ph, new

LEMMA SendPromptDoes ==
    ASSUME TypeInv, QueueInv', SendPrompt
    PROVE  /\ Quiet /\ Untouched /\ TypeInv' /\ UNCHANGED server /\ server.up
           /\ Receives(proc.queue, proc.links \cup proc.pending, proc.phase, {}, proc.gen)
           /\ log'.got = log.got /\ log'.played = log.played
  <1>1. server \in ServerType /\ WellFormed(server) /\ log.got \in Seq(Nat)
    BY FieldsAreTyped DEF TypeInv, QueueTypeOK, Fields
  <1>2. Receive(Committed, <<>>) /\ server' = server /\ server.up
    BY DEF SendPrompt
  <1>3. server' \in ServerType /\ WellFormed(server')
    BY <1>1, <1>2
  <1>4. <<>> \in Seq(Nat)
    OBVIOUS
  <1>5. /\ Quiet /\ Untouched /\ TypeInv' /\ proc' = (IF server.up THEN Committed ELSE proc)
        /\ log'.got = (IF server.up THEN log.got \o <<>> ELSE log.got)
        /\ log'.played = log.played
    BY <1>2, <1>3, <1>4, CommittedIs, ReceiveDoes
  <1>6. log'.got = log.got
    BY <1>1, <1>5, NothingGot
  <1>7. Receives(proc.queue, proc.links \cup proc.pending, proc.phase, {}, proc.gen)
    BY <1>5, CommittedIs DEF Receives, ProcIs
  <1>8. QED BY <1>2, <1>5, <1>6, <1>7

\* A message that commits the links and is queued.
LEMMA CommittedQueue ==
    ASSUME TypeInv, NEW q \in Seq(Entries), NEW p, p = [Committed EXCEPT !.queue = q]
    PROVE  /\ p \in ProcType /\ IsFiniteSet(p.links \cup p.pending)
           /\ p.queue = q /\ p.links = proc.links \cup proc.pending /\ p.phase = proc.phase
           /\ p.pending = {} /\ p.gen = proc.gen /\ p.ends = proc.ends
  <1> DEFINE c == Committed
  <1>1. /\ c \in ProcType /\ c.links = proc.links \cup proc.pending
        /\ c.phase = proc.phase /\ c.pending = {}
        /\ c.gen = proc.gen /\ c.ends = proc.ends
        /\ IsFiniteSet(c.links) /\ IsFiniteSet(c.links \cup c.pending)
    BY CommittedIs
  <1>2. p = [c EXCEPT !.queue = q]
    OBVIOUS
  <1> HIDE DEF c
  <1>3. /\ p \in ProcType /\ p.queue = q /\ p.links = c.links /\ p.phase = c.phase
        /\ p.pending = c.pending /\ p.gen = c.gen /\ p.ends = c.ends
    BY <1>1, <1>2 DEF ProcType
  <1>4. QED BY <1>1, <1>3

LEMMA SendSolvingDoes ==
    ASSUME TypeInv, QueueInv', SendSolving
    PROVE  /\ Quiet /\ Untouched /\ TypeInv'
           /\ server.unsolved > 0 /\ server.solving = NoLink /\ server.unsolved - 1 \in Nat
           /\ ServerIs("resolving", server.links, server.unsolved, server.unsolved - 1,
                       server.events, server.up)
           /\ Receives(Append(proc.queue, Entry("solving", <<server.unsolved - 1>>)),
                       proc.links \cup proc.pending, proc.phase, {}, proc.gen)
           /\ log'.got = log.got /\ log'.played = log.played
  <1> DEFINE n == server.unsolved - 1
             q == Append(proc.queue, Entry("solving", <<n>>))
             p == [Committed EXCEPT !.queue = q]
  <1>1. server \in ServerType /\ WellFormed(server) /\ proc.queue \in Seq(Entries)
        /\ log.got \in Seq(Nat) /\ server.unsolved \in Nat
    BY FieldsAreTyped DEF TypeInv, QueueTypeOK, Fields, ServerType
  <1>2. server.unsolved > 0 /\ server.solving = NoLink
    BY DEF SendSolving
  <1>3. n \in Nat
    BY <1>1, <1>2
  <1>4. q \in Seq(Entries)
    BY <1>1, <1>3, EntryIs, AppendIs
  <1>5. Receive(p, <<>>)
    <2>1. Committed.queue = proc.queue
      BY CommittedIs
    <2> DEFINE r == [Committed EXCEPT !.queue = Append(@, Entry("solving", <<server.unsolved - 1>>))]
    <2>2. r = p
      BY <2>1
    <2>3. Receive(r, <<>>)
      BY DEF SendSolving
    <2> HIDE DEF r, p
    <2>4. QED BY <2>2, <2>3
  <1>6. /\ server' \in ServerType
        /\ ServerIs("resolving", server.links, server.unsolved, n, server.events, server.up)
    <2>1. server' = [server EXCEPT !.phase = "resolving", !.solving = n]
      BY DEF SendSolving
    <2>2. "resolving" \in Phases /\ n \in Nat \cup {NoLink}
      BY <1>3 DEF Phases
    <2> HIDE DEF n
    <2>3. QED BY <1>1, <2>1, <2>2 DEF ServerType, ServerIs
  <1>7. WellFormed(server')
    BY <1>1, <1>2, <1>6 DEF WellFormed, ServerIs, ServerType
  <1> HIDE DEF q
  <1>8. /\ p \in ProcType /\ IsFiniteSet(p.links \cup p.pending)
        /\ p.queue = q /\ p.links = proc.links \cup proc.pending /\ p.phase = proc.phase
        /\ p.pending = {} /\ p.gen = proc.gen /\ p.ends = proc.ends
    BY <1>4, CommittedQueue
  <1> HIDE DEF p
  <1>9. <<>> \in Seq(Nat)
    OBVIOUS
  <1>10. /\ Quiet /\ Untouched /\ TypeInv' /\ proc' = (IF server.up THEN p ELSE proc)
         /\ log'.got = (IF server.up THEN log.got \o <<>> ELSE log.got)
         /\ log'.played = log.played
    BY <1>5, <1>6, <1>7, <1>8, <1>9, ReceiveDoes
  <1>11. log'.got = log.got
    BY <1>1, <1>10, NothingGot
  <1>12. Receives(q, proc.links \cup proc.pending, proc.phase, {}, proc.gen)
    BY <1>8, <1>10 DEF Receives, ProcIs
  <1>13. QED BY <1>2, <1>3, <1>6, <1>10, <1>11, <1>12 DEF q

LEMMA SendSolvedDoes ==
    ASSUME TypeInv, QueueInv', SendSolved
    PROVE  /\ Quiet /\ Untouched /\ TypeInv'
           /\ server.solving # NoLink /\ server.solving \in Nat /\ server.unsolved > 0
           /\ ServerIs(server.phase, server.links, server.unsolved - 1, NoLink, server.events,
                       server.up)
           /\ Receives(Append(proc.queue, Entry("solved", <<server.solving>>)),
                       proc.links, proc.phase, proc.pending, proc.gen)
           /\ log'.got = log.got /\ log'.played = log.played
  <1> DEFINE q == Append(proc.queue, Entry("solved", <<server.solving>>))
             p == [proc EXCEPT !.queue = q]
             n == server.unsolved - 1
  <1>1. server \in ServerType /\ WellFormed(server) /\ proc.queue \in Seq(Entries)
        /\ log.got \in Seq(Nat) /\ server.unsolved \in Nat /\ server.solving \in Nat \cup {NoLink}
    BY FieldsAreTyped DEF TypeInv, QueueTypeOK, Fields, ServerType
  <1>2. server.solving # NoLink
    BY DEF SendSolved
  <1>3. n \in Nat /\ server.unsolved > 0 /\ server.solving \in Nat
    BY <1>1, <1>2 DEF WellFormed
  <1>4. q \in Seq(Entries)
    BY <1>1, <1>3, EntryIs, AppendIs
  <1>5. Receive(p, <<>>)
    BY DEF SendSolved
  <1>6. /\ server' \in ServerType
        /\ ServerIs(server.phase, server.links, n, NoLink, server.events, server.up)
    <2>1. server' = [server EXCEPT !.solving = NoLink, !.unsolved = n]
      BY DEF SendSolved
    <2>2. NoLink \in Nat \cup {NoLink}
      OBVIOUS
    <2> HIDE DEF n
    <2>3. QED BY <1>1, <1>3, <2>1, <2>2 DEF ServerType, ServerIs
  <1>7. WellFormed(server')
    BY <1>1, <1>2, <1>3, <1>6 DEF WellFormed, ServerIs, ServerType
  <1> HIDE DEF q
  <1>8. /\ p \in ProcType /\ IsFiniteSet(p.links \cup p.pending)
        /\ p.queue = q /\ p.links = proc.links /\ p.phase = proc.phase
        /\ p.pending = proc.pending /\ p.gen = proc.gen /\ p.ends = proc.ends
    BY <1>4 DEF ProcType, TypeInv, QueueTypeOK
  <1> HIDE DEF p
  <1>9. <<>> \in Seq(Nat)
    OBVIOUS
  <1>10. /\ Quiet /\ Untouched /\ TypeInv' /\ proc' = (IF server.up THEN p ELSE proc)
         /\ log'.got = (IF server.up THEN log.got \o <<>> ELSE log.got)
         /\ log'.played = log.played
    BY <1>5, <1>6, <1>7, <1>8, <1>9, ReceiveDoes
  <1>11. log'.got = log.got
    BY <1>1, <1>10, NothingGot
  <1>12. Receives(q, proc.links, proc.phase, proc.pending, proc.gen)
    BY <1>8, <1>10 DEF Receives, ProcIs
  <1>13. QED BY <1>2, <1>3, <1>6, <1>10, <1>11, <1>12 DEF q

LEMMA SendEndDoes ==
    ASSUME TypeInv, QueueInv', SendEnd
    PROVE  /\ Quiet /\ Untouched /\ TypeInv'
           /\ server.phase = "resolving" /\ server.unsolved = 0
           /\ ServerIs("idle", 0, 0, NoLink, server.events, server.up) /\ server.solving = NoLink
           /\ Receives(Append(proc.queue, Entry("end", <<>>)),
                       proc.links \cup proc.pending, proc.phase, {}, proc.gen + 1)
           /\ log'.got = log.got /\ log'.played = log.played
  <1> DEFINE q == Append(proc.queue, Entry("end", <<>>))
             n == proc.gen + 1
             c == [Committed EXCEPT !.gen = n]
             p == [Committed EXCEPT !.gen = n, !.queue = q]
  <1>1. server \in ServerType /\ WellFormed(server) /\ proc.queue \in Seq(Entries)
        /\ log.got \in Seq(Nat) /\ proc.gen \in Nat
    BY FieldsAreTyped DEF TypeInv, QueueTypeOK, Fields
  <1>2. server.phase = "resolving" /\ server.unsolved = 0
    BY DEF SendEnd
  <1>3. server.solving = NoLink
    BY <1>1, <1>2 DEF WellFormed
  <1>4. q \in Seq(Entries) /\ n \in Nat
    BY <1>1, EndIs, AppendIs
  <1>5. Receive(p, <<>>)
    <2>1. Committed.queue = proc.queue /\ Committed.gen = proc.gen
      BY CommittedIs
    <2> DEFINE r == [Committed EXCEPT !.gen = @ + 1, !.queue = Append(@, Entry("end", <<>>))]
    <2>2. r = p
      BY <2>1
    <2>3. Receive(r, <<>>)
      BY DEF SendEnd
    <2> HIDE DEF r, p
    <2>4. QED BY <2>2, <2>3
  <1>6. /\ server' \in ServerType
        /\ ServerIs("idle", 0, 0, NoLink, server.events, server.up)
    <2>1. server' = [server EXCEPT !.phase = "idle", !.links = 0]
      BY DEF SendEnd
    <2>2. "idle" \in Phases
      BY DEF Phases
    <2>3. QED BY <1>1, <1>2, <1>3, <2>1, <2>2 DEF ServerType, ServerIs
  <1>7. WellFormed(server')
    BY <1>6 DEF WellFormed, ServerIs
  <1>8. p = [c EXCEPT !.queue = q]
    BY Zenon
  <1> HIDE DEF q, n, p
  <1>9. /\ c \in ProcType /\ c.links = Committed.links /\ c.phase = proc.phase
        /\ c.pending = {} /\ c.gen = n /\ c.ends = proc.ends
    BY <1>4, CommittedIs DEF ProcType
  <1> HIDE DEF c
  <1>10. /\ p \in ProcType /\ p.queue = q /\ p.links = Committed.links /\ p.phase = proc.phase
         /\ p.pending = {} /\ p.gen = n /\ p.ends = proc.ends
    BY <1>4, <1>8, <1>9 DEF ProcType
  <1>11. /\ p.links = proc.links \cup proc.pending /\ IsFiniteSet(p.links \cup p.pending)
    BY <1>10, CommittedIs
  <1>12. <<>> \in Seq(Nat)
    OBVIOUS
  <1>13. /\ Quiet /\ Untouched /\ TypeInv' /\ proc' = (IF server.up THEN p ELSE proc)
         /\ log'.got = (IF server.up THEN log.got \o <<>> ELSE log.got)
         /\ log'.played = log.played
    BY <1>5, <1>6, <1>7, <1>10, <1>11, <1>12, ReceiveDoes
  <1>14. log'.got = log.got
    BY <1>1, <1>13, NothingGot
  <1>15. Receives(q, proc.links \cup proc.pending, proc.phase, {}, n)
    BY <1>10, <1>11, <1>13 DEF Receives, ProcIs
  <1>16. QED BY <1>2, <1>3, <1>6, <1>13, <1>14, <1>15 DEF q, n

LEMMA SendEventDoes ==
    ASSUME TypeInv, QueueInv', SendEvent
    PROVE  /\ Quiet /\ Untouched /\ TypeInv'
           /\ \/ Stragglers \/ server.phase # "resolving"
              \/ server.solving # NoLink \/ server.unsolved = 0
           /\ ServerIs(server.phase, server.links, server.unsolved, server.solving,
                       server.events + 1, server.up)
           /\ Receives(Append(proc.queue, Entry("event", <<server.events + 1>>)),
                       proc.links, proc.phase, proc.pending, proc.gen)
           /\ log'.got = (IF server.up THEN log.got \o <<server.events + 1>> ELSE log.got)
           /\ log'.played = log.played
  <1> DEFINE n == server.events + 1
             q == Append(proc.queue, Entry("event", <<n>>))
             p == [proc EXCEPT !.queue = q]
  <1>1. server \in ServerType /\ WellFormed(server) /\ proc.queue \in Seq(Entries)
        /\ server.events \in Nat
    BY FieldsAreTyped DEF TypeInv, QueueTypeOK, Fields
  <1>2. \/ Stragglers \/ server.phase # "resolving"
        \/ server.solving # NoLink \/ server.unsolved = 0
    BY DEF SendEvent
  <1>3. n \in Nat /\ <<n>> \in Seq(Nat)
    BY <1>1
  <1>4. q \in Seq(Entries)
    BY <1>1, <1>3, EntryIs, AppendIs
  <1>5. Receive(p, <<n>>)
    BY DEF SendEvent
  <1>6. /\ server' \in ServerType
        /\ ServerIs(server.phase, server.links, server.unsolved, server.solving, n, server.up)
    <2>1. server' = [server EXCEPT !.events = n]
      BY DEF SendEvent
    <2> HIDE DEF n
    <2>2. QED BY <1>1, <1>3, <2>1 DEF ServerType, ServerIs
  <1>7. WellFormed(server')
    BY <1>1, <1>6 DEF WellFormed, ServerIs
  <1> HIDE DEF q, n
  <1>8. /\ p \in ProcType /\ IsFiniteSet(p.links \cup p.pending)
        /\ p.queue = q /\ p.links = proc.links /\ p.phase = proc.phase
        /\ p.pending = proc.pending /\ p.gen = proc.gen /\ p.ends = proc.ends
    BY <1>4 DEF ProcType, TypeInv, QueueTypeOK
  <1> HIDE DEF p
  <1>9. /\ Quiet /\ Untouched /\ TypeInv' /\ proc' = (IF server.up THEN p ELSE proc)
        /\ log'.got = (IF server.up THEN log.got \o <<n>> ELSE log.got)
        /\ log'.played = log.played
    BY <1>3, <1>5, <1>6, <1>7, <1>8, ReceiveDoes
  <1>10. Receives(q, proc.links, proc.phase, proc.pending, proc.gen)
    BY <1>8, <1>9 DEF Receives, ProcIs
  <1>11. QED BY <1>2, <1>6, <1>9, <1>10 DEF q, n

-----------------------------------------------------------------------------
(* Resync. *)

LEMMA DisconnectDoes ==
    ASSUME TypeInv, QueueInv', Disconnect
    PROVE  /\ UNCHANGED <<proc, runner, chain, draw, overlay, dirty, parked, log, races>> /\ TypeInv'
           /\ ServerIs(server.phase, server.links, server.unsolved, server.solving, server.events,
                       FALSE)
  <1>1. /\ UNCHANGED <<proc, runner, chain, draw, overlay, dirty, parked, log, races>>
        /\ server' = [server EXCEPT !.up = FALSE]
    BY DEF Disconnect
  <1>2. server \in ServerType /\ WellFormed(server)
    BY DEF TypeInv, QueueTypeOK
  <1>3. server' \in ServerType
    BY <1>1, <1>2 DEF ServerType
  <1>4. ServerIs(server.phase, server.links, server.unsolved, server.solving, server.events, FALSE)
    BY <1>1, <1>2 DEF ServerType, ServerIs
  <1>5. WellFormed(server')
    BY <1>2, <1>4 DEF WellFormed, ServerIs
  <1>6. TypeInv'
    BY <1>1, <1>3, <1>5 DEF TypeInv, QueueTypeOK, Hands
  <1>7. QED BY <1>1, <1>4, <1>6

\* The page as a reset leaves it, with links ls and phase ph.
ResetTo(ls, ph) ==
    /\ ProcIs(<<>>, ls, ph, {}, 0, 0)
    /\ ChainIs(0, FALSE, FALSE, <<>>, NoLink, TRUE, FALSE)
    /\ ~draw'.busy /\ log'.got = <<>> /\ log'.played = <<>>
    /\ overlay' = overlay
    /\ RunnerOK(runner') /\ PcsOf(runner') = {} /\ HandOf(runner') = <<>> /\ ~runner'.armed
    /\ dirty' = dirty \cup Wakes \cup {"links"}
    /\ "late safety timer" \in races' <=> "late safety timer" \in races
    /\ ph # server.phase => "late flush" \in races'

LEMMA ResetPageDoes ==
    ASSUME TypeInv, QueueInv', NEW ls \in SUBSET Keys, IsFiniteSet(ls), NEW ph \in Phases,
           ResetPage(ls, ph), server' \in ServerType, WellFormed(server'), parked' \in BOOLEAN
    PROVE  ResetTo(ls, ph) /\ TypeInv'
  <1>1. /\ proc' = Received(ls, ph)
        /\ runner' = [running |-> FALSE, processing |-> FALSE, epoch |-> runner.epoch + 1,
                      loops |-> Interrupted(runner.loops), rescues |-> 0, lastLen |-> -1,
                      armed |-> FALSE]
        /\ chain' = ChainInit /\ draw' = [draw EXCEPT !.busy = FALSE] /\ log' = Fresh
        /\ races' = (races \cap {"late safety timer"})
                \cup (IF ph # "idle" /\ (overlay.inFlight \/ Cardinality(ls) < Cardinality(overlay.prev))
                      THEN {"orphan resolution"} ELSE {})
                \cup (IF ph # server.phase THEN {"late flush"} ELSE {})
        /\ dirty' = dirty \cup Wakes \cup {"links"} /\ overlay' = overlay
    BY DEF ResetPage
  <1>2. RunnerOK(runner)
    BY TypedRunner
  <1>3. <<>> \in Seq(Nat) /\ <<>> \in Seq(Entries) /\ 0 \in Nat /\ NoLink \in Nat \cup {NoLink}
    OBVIOUS
  <1>4. ProcIs(<<>>, ls, ph, {}, 0, 0) /\ proc' \in ProcType /\ IsFiniteSet(proc'.links \cup proc'.pending)
    <2>1. proc' = [queue |-> <<>>, links |-> ls, phase |-> ph, pending |-> {}, gen |-> 0, ends |-> 0]
      BY <1>1 DEF Received
    <2>2. {} \in SUBSET Keys /\ ls \cup {} = ls
      OBVIOUS
    <2>3. proc' \in ProcType
      BY <1>3, <2>1, <2>2 DEF ProcType
    <2>4. ProcIs(<<>>, ls, ph, {}, 0, 0)
      BY <2>1 DEF ProcIs
    <2>5. QED BY <2>2, <2>3, <2>4 DEF ProcIs
  <1>5. ChainIs(0, FALSE, FALSE, <<>>, NoLink, TRUE, FALSE) /\ chain' \in ChainType
    <2>1. chain' = [solved |-> 0, waiting |-> FALSE, draining |-> FALSE, buffer |-> <<>>,
                    deferred |-> NoLink, announcing |-> FALSE, ready |-> TRUE, replaying |-> FALSE]
      BY <1>1 DEF ChainInit
    <2>2. chain' \in ChainType
      BY <1>3, <2>1 DEF ChainType
    <2>3. QED BY <2>1, <2>2 DEF ChainIs
  <1>6. draw' \in DrawType /\ ~draw'.busy
    BY <1>1 DEF TypeInv, QueueTypeOK, DrawType
  <1>7. log' \in LogType /\ log'.got = <<>> /\ log'.played = <<>>
    BY <1>1, <1>3 DEF LogType, Fresh
  <1>8. /\ "late safety timer" \in races' <=> "late safety timer" \in races
        /\ ph # server.phase => "late flush" \in races'
    BY <1>1
  <1>9. RunnerOK(runner') /\ PcsOf(runner') = {} /\ HandOf(runner') = <<>> /\ ~runner'.armed
    <2> DEFINE stopped == {"group", "draws", "pre", "show"}
               kept == {k \in runner.loops : k.pc \notin {"hold", "settle"}}
               T(l) == [id |-> l.id, ep |-> l.ep, pc |-> "tick", rest |-> <<>>]
               F(l) == IF l.pc \in stopped THEN [l EXCEPT !.pc = "tick", !.rest = <<>>] ELSE l
    <2>1. \A l \in kept : IsLoop(l) /\ l.pc \in Places /\ l.ep \in 0 .. runner.epoch
                          /\ (l.pc # "group" => l.rest = <<>>)
      BY <1>2 DEF RunnerOK, IsRunner, LoopTypes, Hands
    <2>2. \A l \in kept : F(l).ep = l.ep /\ F(l).pc \in Places \ {"group"} /\ F(l).rest = <<>>
      <3> SUFFICES ASSUME NEW l \in kept
                   PROVE  F(l).ep = l.ep /\ F(l).pc \in Places \ {"group"} /\ F(l).rest = <<>>
        OBVIOUS
      <3>1. CASE l.pc \in stopped
        <4> DEFINE x == [l EXCEPT !.pc = "tick"]
                   y == [l EXCEPT !.pc = "tick", !.rest = <<>>]
        <4>1. y = [x EXCEPT !.rest = <<>>]
          BY Zenon
        <4>2. x = [id |-> l.id, ep |-> l.ep, pc |-> "tick", rest |-> l.rest]
          BY <2>1 DEF IsLoop
        <4>3. F(l) = y
          BY <3>1
        <4> HIDE DEF x, y
        <4>4. y.ep = l.ep /\ y.pc = "tick" /\ y.rest = <<>>
          BY <4>1, <4>2
        <4> HIDE DEF F
        <4>5. QED BY <4>3, <4>4 DEF Places
      <3>2. CASE l.pc \notin stopped
        BY <2>1, <3>2
      <3>3. QED BY <3>1, <3>2
    <2>3. Interrupted(runner.loops) = {F(l) : l \in kept}
      BY Zenon DEF Interrupted
    <2> HIDE DEF F, kept
    <2>4. /\ runner'.loops = {F(l) : l \in kept} /\ runner'.epoch = runner.epoch + 1
          /\ runner'.armed = FALSE
      BY <1>1, <2>3
    <2>5. \A m \in runner'.loops :
             /\ m.ep \in 0 .. runner.epoch /\ m.pc \in Places \ {"group"} /\ m.rest = <<>>
      BY <2>1, <2>2, <2>4
    <2>6. runner.epoch \in Nat
      BY <1>2 DEF RunnerOK, IsRunner
    <2>7. \A m \in runner'.loops :
             /\ m.ep \in 0 .. runner'.epoch /\ m.ep # runner'.epoch
             /\ m.pc \in Places \ {"group"} /\ m.rest = <<>>
      BY <2>4, <2>5, <2>6
    <2>8. LoopTypes(runner') /\ Hands(runner')
      BY <1>3, <2>7 DEF LoopTypes, Hands
    <2>9. LiveOf(runner') = {}
      BY <2>7 DEF LiveOf
    <2>10. PcsOf(runner') = {}
      BY <2>9 DEF PcsOf
    <2>11. HandOf(runner') = <<>>
      BY <2>7 DEF HandOf, HandIn, Groups
    <2>12. RunnerOK(runner')
      BY <2>4, <2>8 DEF RunnerOK, QueueInv, Sound
    <2>13. QED BY <2>4, <2>10, <2>11, <2>12
  <1>10. ResetTo(ls, ph)
    BY <1>1, <1>4, <1>5, <1>6, <1>7, <1>8, <1>9 DEF ResetTo
  <1>11. QueueTypeOK'
    <2>1. dirty' \subseteq {"queue", "links", "ready"}
      BY <1>1, WakesAre DEF TypeInv, QueueTypeOK
    <2>2. /\ runner'.running \in BOOLEAN /\ runner'.processing \in BOOLEAN /\ runner'.armed \in BOOLEAN
          /\ \A l \in runner'.loops : l.pc \in Places /\ l.ep \in 0 .. runner'.epoch /\ l.rest \in Seq(Nat)
      BY <1>9 DEF RunnerOK, IsRunner, LoopTypes
    <2>3. overlay' \in OverlayType /\ IsFiniteSet(overlay'.resolutions)
      BY <1>1 DEF TypeInv, QueueTypeOK
    <2>4. QED BY <1>4, <1>5, <1>6, <1>7, <2>1, <2>2, <2>3 DEF QueueTypeOK, DrawType, LogType
  <1>12. TypeInv'
    BY <1>9, <1>11 DEF TypeInv, RunnerOK
  <1>13. QED BY <1>10, <1>12

\* The links of the server, as a resync restores them.
Restored == {[idx |-> n, gen |-> 0] : n \in 0 .. server.links - 1}

LEMMA ResyncDoes ==
    ASSUME TypeInv, QueueInv', Resync
    PROVE  /\ TypeInv' /\ ServerIs(server.phase, server.links, server.unsolved, server.solving,
                                   server.events, TRUE)
           /\ \/ server.links > 0 /\ ResetTo(Restored, server.phase) /\ ~parked'
              \/ server.links = 0 /\ parked'
                 /\ \/ ResetTo({}, "idle")
                    \/ UNCHANGED <<proc, runner, chain, draw, overlay, dirty, log, races>>
  <1>1. server \in ServerType /\ WellFormed(server) /\ server.syncs \in Nat /\ server.links \in Nat
        /\ server.phase \in Phases
    BY FieldsAreTyped DEF TypeInv, QueueTypeOK, Fields
  <1>2. /\ server' \in ServerType
        /\ ServerIs(server.phase, server.links, server.unsolved, server.solving, server.events, TRUE)
    <2> DEFINE n == server.syncs + 1
               s == [server EXCEPT !.syncs = n]
    <2>1. server' = [server EXCEPT !.syncs = n, !.up = TRUE]
      BY DEF Resync
    <2>2. n \in Nat
      BY <1>1
    <2> HIDE DEF n
    <2>3. server' = [s EXCEPT !.up = TRUE]
      BY <2>1, Zenon
    <2>4. /\ s \in ServerType /\ s.phase = server.phase /\ s.links = server.links
          /\ s.unsolved = server.unsolved /\ s.solving = server.solving /\ s.events = server.events
      BY <1>1, <2>2 DEF ServerType
    <2> HIDE DEF s
    <2>5. QED BY <2>3, <2>4 DEF ServerType, ServerIs
  <1>3. WellFormed(server')
    BY <1>1, <1>2 DEF WellFormed, ServerIs
  <1>4. CASE server.links > 0
    <2>1. ResetPage(Restored, server.phase) /\ parked' = FALSE
      BY <1>4 DEF Resync, Restored
    <2>2. Restored \in SUBSET Keys
      BY <1>1 DEF Restored, Keys
    <2>3. IsFiniteSet(Restored)
      <3> DEFINE S == 0 .. server.links - 1
                 f == [n \in S |-> [idx |-> n, gen |-> 0]]
      <3>1. f = [n \in S |-> f[n]] /\ Restored = {f[n] : n \in S}
        BY DEF Restored
      <3>2. IsFiniteSet(S)
        BY <1>1, FS_Interval
      <3> HIDE DEF S, f
      <3>3. QED BY <3>1, <3>2, ImagesAreFinite
    <2>4. ResetTo(Restored, server.phase) /\ TypeInv'
      BY <1>1, <1>2, <1>3, <2>1, <2>2, <2>3, ResetPageDoes
    <2>5. QED BY <1>2, <1>4, <2>1, <2>4
  <1>5. CASE ~(server.links > 0)
    <2>1. server.links = 0 /\ parked' = TRUE
      BY <1>1, <1>5 DEF Resync
    <2>2. CASE parked
      <3>1. ResetPage({}, "idle")
        BY <1>5, <2>2 DEF Resync
      <3>2. {} \in SUBSET Keys /\ IsFiniteSet({}) /\ "idle" \in Phases
        BY FS_EmptySet DEF Phases
      <3>3. ResetTo({}, "idle") /\ TypeInv'
        BY <1>2, <1>3, <2>1, <3>1, <3>2, ResetPageDoes
      <3>4. QED BY <1>2, <2>1, <3>3
    <2>3. CASE ~parked
      <3>1. UNCHANGED <<proc, runner, chain, draw, overlay, dirty, log, races>>
        BY <1>5, <2>3 DEF Resync
      <3>2. TypeInv'
        BY <1>2, <1>3, <2>1, <3>1 DEF TypeInv, QueueTypeOK, Hands
      <3>3. QED BY <1>2, <2>1, <3>1, <3>2
    <2>4. QED BY <2>2, <2>3
  <1>6. QED BY <1>4, <1>5

LEMMA FlushDoes ==
    ASSUME TypeInv, QueueInv', FlushStateSync
    PROVE  ResetTo({}, "idle") /\ ~parked' /\ server' = server /\ TypeInv'
  <1>1. ResetPage({}, "idle") /\ parked' = FALSE /\ server' = server
    BY DEF FlushStateSync
  <1>2. {} \in SUBSET Keys /\ IsFiniteSet({}) /\ "idle" \in Phases
    BY FS_EmptySet DEF Phases
  <1>3. server' \in ServerType /\ WellFormed(server')
    BY <1>1 DEF TypeInv, QueueTypeOK
  <1>4. QED BY <1>1, <1>2, <1>3, ResetPageDoes

-----------------------------------------------------------------------------
(* What a step does, as far as the invariants below can tell. *)

\* A loop that does not matter, or one that goes on, with nothing else touched.
DidPass == Aside /\ Elsewhere
DidPause == Aside /\ Found("pause-external") /\ GoesTo("exit")
DidFinalize == Aside /\ Found("finalize") /\ GoesTo("exit")
DidBanner == Aside /\ Quiet /\ IsAt("pre") /\ GoesTo("show")
DidReturn ==
    /\ Aside /\ IsAt("exit") /\ PcsOf(runner') \in {{}, {"tick"}} /\ HandOf(runner') = <<>>
    /\ runner'.armed = runner.armed
DidStep(pc) ==
    /\ Aside /\ Quiet /\ IsAt(pc) /\ GoesTo("tick")
    /\ pc = "hold" => \A r \in overlay.resolutions : r.at # "impact"
Ending == {"travel", "landing", "show", "settle", "hold", "flash"}

\* The turns of the live loop.
DidPop ==
    \/ Pops("chaining") /\ \E pc \in {"flash", "hold"} : GoesTo(pc)
    \/ Pops("barrier") /\ \E pc \in {"draws", "tick"} : GoesTo(pc)
    \/ Pops("announcement") /\ GoesTo("pre")
DidSignal ==
    /\ Pops("await-signal")
    /\ \/ chain.ready /\ GoesTo("tick")
       \/ /\ ~chain.ready /\ RunnerOK(runner') /\ PcsOf(runner') = {"exit"}
          /\ HandOf(runner') = <<>> /\ runner'.armed
Plain == UNCHANGED <<draw, overlay, log>> /\ Local /\ TypeInv'
DidConsume ==
    /\ Found("consume-deferred") /\ Plain
    /\ PutOff(chain.deferred, proc.queue) \/ Begun(chain.deferred, proc.queue)
DidSolving ==
    /\ Found("dequeue") /\ Kind = "solving" /\ Subject \in Nat /\ Plain
    /\ PutOff(Subject, Tail(proc.queue)) \/ Begun(Subject, Tail(proc.queue))
DidSolved ==
    /\ Found("dequeue") /\ Kind = "solved" /\ Subject \in Nat /\ Plain
    /\ ProcIs(Tail(proc.queue), LinksBut(Subject), proc.phase, proc.pending, proc.gen, proc.ends)
    /\ ChainIs(chain.solved + 1, LinksBut(Subject) # proc.links, chain.draining, chain.buffer,
               chain.deferred, chain.ready, chain.replaying)
    /\ GoesTo(IF LinksBut(Subject) # proc.links THEN "exit" ELSE "tick")
DidEnd ==
    /\ Found("dequeue") /\ Kind = "end" /\ Plain
    /\ \E ph \in {"building", "idle"} :
          ProcIs(Tail(proc.queue), {k \in proc.links : k.gen > proc.ends}, ph, proc.pending,
                 proc.gen, proc.ends + 1)
    /\ ChainIs(0, FALSE, FALSE, <<>>, NoLink, TRUE, chain.replaying)
    /\ GoesTo("settle")
DidEvent ==
    /\ Found("dequeue") /\ Kind = "event" /\ Subject \in Nat /\ Head(proc.queue).of = <<Subject>>
    /\ Popped /\ overlay' = overlay /\ Local /\ TypeInv'
    /\ \/ Buffers(Subject) /\ GoesTo("tick")
       \/ Plays(Subject) /\ \E pc \in {"exit", "travel"} : GoesTo(pc)
DidGroup ==
    /\ Found("dequeue") /\ Kind = "group" /\ Popped
    /\ Head(proc.queue).of \in Seq(Nat) /\ Head(proc.queue).of # <<>>
    /\ GroupFrom(Head(proc.queue).of)
    /\ overlay' = overlay /\ Local /\ TypeInv'
DidStagger ==
    /\ Quiet /\ PcsOf(runner) = {"group"} /\ HandOf(runner) # <<>>
    /\ GroupFrom(HandOf(runner))
    /\ proc' = proc /\ overlay' = overlay /\ Local /\ TypeInv'
DidBatchEnd ==
    /\ Found("dequeue") /\ Kind = "batch-end" /\ Subject \in Nat
    /\ Popped /\ CleanedUp /\ GoesTo("tick") /\ draw' = draw /\ log' = log /\ Local /\ TypeInv'
    /\ \/ (\A r \in overlay.resolutions : r.id # Subject) /\ overlay' = overlay
       \/ \E r \in overlay.resolutions :
             /\ r.id = Subject
             /\ r.aborted => OverlayIs(overlay.prev, FALSE, overlay.current, Others(r))
             /\ ~r.aborted => OverlayIs(overlay.prev, overlay.inFlight, overlay.current,
                                        Others(r) \cup {Stage(r, "impact")})
DidPreReplay ==
    /\ Found("pre-replay-buffer") /\ Plain
    /\ ProcIs(Batch(0) \o proc.queue, proc.links, proc.phase, proc.pending, proc.gen, proc.ends)
    /\ ChainIs(chain.solved, FALSE, TRUE, <<>>, chain.deferred, chain.ready, TRUE)
    /\ GoesTo("tick")

LoopDid ==
    \/ DidPass \/ DidPause \/ DidFinalize \/ DidBanner \/ DidReturn
    \/ (\E pc \in Ending : DidStep(pc))
    \/ DidPop \/ DidSignal \/ DidConsume \/ DidSolving \/ DidSolved \/ DidEnd
    \/ DidEvent \/ DidGroup \/ DidStagger \/ DidBatchEnd \/ DidPreReplay

LEMMA LoopDoes ==
    ASSUME TypeInv, QueueInv', NEW l \in runner.loops, LoopStep(l)
    PROVE  LoopDid /\ TypeInv'
  <1>1. CASE Bail(l)
    BY <1>1, BailDoes DEF LoopDid, DidPass, Aside
  <1>2. CASE PauseExternal(l)
    BY <1>2, PauseDoes DEF LoopDid, DidPause, Aside
  <1>3. CASE Finalize(l)
    BY <1>3, FinalizeDoes DEF LoopDid, DidFinalize, Aside
  <1>4. CASE PreReplayBuffer(l)
    BY <1>4, PreReplayDoes DEF LoopDid, DidPreReplay, Plain
  <1>5. CASE ConsumeDeferred(l)
    BY <1>5, ConsumeDoes DEF LoopDid, DidConsume, Plain
  <1>6. CASE Dispatch(l)
    <2>1. CASE DispatchChaining(l) \/ DispatchBarrier(l) \/ DispatchAnnouncement(l)
      BY <2>1, ChainingDoes, BarrierDoes, AnnouncementDoes DEF LoopDid, DidPop, Pops
    <2>2. CASE DispatchSolving(l)
      BY <2>2, SolvingDoes DEF LoopDid, DidSolving, Plain
    <2>3. CASE DispatchSolved(l)
      BY <2>3, SolvedDoes DEF LoopDid, DidSolved, Plain
    <2>4. CASE DispatchEnd(l)
      BY <2>4, EndDoes DEF LoopDid, DidEnd, Plain
    <2>5. CASE DispatchEvent(l)
      BY <2>5, EventDoes DEF LoopDid, DidEvent
    <2>6. CASE DispatchGroup(l)
      BY <2>6, GroupDoes DEF LoopDid, DidGroup
    <2>7. CASE DispatchBatchEnd(l)
      BY <2>7, BatchEndDoes DEF LoopDid, DidBatchEnd
    <2>8. CASE DispatchAwaitSignal(l)
      BY <2>8, AwaitSignalDoes DEF LoopDid, DidSignal, Pops
    <2>9. QED
      BY <1>6, <2>1, <2>2, <2>3, <2>4, <2>5, <2>6, <2>7, <2>8 DEF Dispatch
  <1>7. CASE StepEnds(l)
    <2>1. l.pc \in Ending
      BY <1>7 DEF StepEnds, Ending
    <2>2. Aside /\ (Elsewhere \/ DidStep(l.pc))
      BY <1>7, StepEndsDoes DEF DidStep
    <2>3. QED BY <2>1, <2>2 DEF LoopDid, DidPass, Aside
  <1>8. CASE GroupStagger(l)
    BY <1>8, StaggerDoes DEF LoopDid, DidStagger
  <1>9. CASE BannerShows(l)
    BY <1>9, BannerDoes DEF LoopDid, DidPass, DidBanner, Aside
  <1>10. CASE Finally(l)
    BY <1>10, FinallyDoes DEF LoopDid, DidPass, DidReturn, Aside
  <1>11. QED
    BY <1>1, <1>2, <1>3, <1>4, <1>5, <1>6, <1>7, <1>8, <1>9, <1>10 DEF LoopStep

\* The effects, the overlay and the draws.
DidAwait ==
    /\ Aside /\ runner.armed /\ chain.ready /\ ~runner'.armed
    /\ HandOf(runner') = HandOf(runner)
    /\ PcsOf(runner') = PcsOf(runner) \/ (PcsOf(runner) = {} /\ PcsOf(runner') = {"tick"})
DidQueue ==
    /\ MayStart /\ "queue" \in dirty
    /\ UNCHANGED <<proc, chain, draw, overlay, log, server, parked, races>>
    /\ dirty' = dirty \ {"queue"} /\ TypeInv'
    /\ proc.queue = <<>> => PcsOf(runner') = PcsOf(runner)
DidResume ==
    /\ MayStart /\ "ready" \in dirty
    /\ ChainIs(chain.solved, chain.waiting /\ ~chain.ready, chain.draining, chain.buffer,
               chain.deferred, chain.ready, chain.replaying)
    /\ UNCHANGED <<proc, draw, overlay, log, server, parked, races>>
    /\ dirty' = dirty \ {"ready"} /\ TypeInv'
    /\ ~(chain.ready /\ chain.waiting) => runner' = runner
DidLinks ==
    /\ UNCHANGED <<proc, runner, draw, log, server, parked, races>>
    /\ "links" \in dirty /\ dirty' = dirty \ {"links"} /\ TypeInv'
DidLinksEnd ==
    DidLinks /\ proc.phase = "idle" /\ SameChain /\ OverlayIs(proc.links, FALSE, 0, Leftover)
DidLinksNew ==
    /\ DidLinks /\ proc.phase = "resolving" /\ Fewer /\ ~overlay.inFlight
    /\ ChainIs(chain.solved, chain.waiting, chain.draining, chain.buffer, chain.deferred, FALSE,
               chain.replaying)
    /\ \E id \in Nat \ {0} :
          /\ \A r \in overlay.resolutions : r.id # id
          /\ OverlayIs(proc.links, TRUE, id, overlay.resolutions \cup {Newborn(id)})
DidLinksSee ==
    /\ DidLinks /\ ~(proc.phase = "resolving" /\ Fewer /\ ~overlay.inFlight) /\ SameChain
    /\ OverlayIs(proc.links, overlay.inFlight, overlay.current, overlay.resolutions)
DidFinish(r) ==
    /\ r \in overlay.resolutions /\ r.at \in {"hold", "impact"}
    /\ r.at = "hold" => chain.buffer = <<>>
    /\ Quiet /\ Ended(r) /\ UNCHANGED <<proc, runner, draw, log>> /\ Local /\ TypeInv'
DidReplay(r) ==
    /\ r \in overlay.resolutions /\ r.at = "hold"
    /\ Quiet /\ Replays(r) /\ UNCHANGED <<draw, log>> /\ Local /\ TypeInv'
DidFire ==
    TypeInv' /\ "late safety timer" \in races' /\ UNCHANGED <<server, proc, runner, log>>
DidDraws ==
    /\ Quiet /\ UNCHANGED <<proc, chain, overlay, log>> /\ Local /\ TypeInv' /\ ~draw'.busy
    /\ RunnerOK(runner') /\ HandOf(runner') = HandOf(runner) /\ runner'.armed = runner.armed
    /\ \/ PcsOf(runner') = PcsOf(runner)
       \/ PcsOf(runner) \in {{}, {"draws"}} /\ PcsOf(runner') = {"tick"}

PageDid ==
    \/ DidAwait \/ DidQueue \/ DidResume \/ DidLinksEnd \/ DidLinksNew \/ DidLinksSee
    \/ (\E r \in overlay.resolutions : DidFinish(r) \/ DidReplay(r)) \/ DidFire \/ DidDraws

LEMMA PageDoes ==
    ASSUME TypeInv, QueueInv',
           QueueEffect \/ ResumeEffect \/ AwaitEffect \/ LinksEffect \/ OverlayStep \/ DrawsDone
    PROVE  PageDid /\ TypeInv'
  <1>1. CASE QueueEffect
    BY <1>1, QueueEffectDoes DEF PageDid, DidQueue
  <1>2. CASE ResumeEffect
    BY <1>2, ResumeDoes DEF PageDid, DidResume
  <1>3. CASE AwaitEffect
    BY <1>3, AwaitEffectDoes DEF PageDid, DidAwait, Aside
  <1>4. CASE LinksEffect
    <2>1. DidLinks /\ (DidLinksEnd \/ DidLinksNew \/ DidLinksSee)
      BY <1>4, LinksEffectDoes DEF DidLinks, DidLinksEnd, DidLinksNew, DidLinksSee
    <2>2. QED BY <2>1 DEF PageDid, DidLinks
  <1>5. CASE OverlayStep
    <2>1. PICK r \in overlay.resolutions : HoldEnds(r) \/ ImpactEnds(r) \/ SafetyFires(r)
      BY <1>5 DEF OverlayStep
    <2>2. CASE HoldEnds(r)
      BY <2>2, HoldEndsDoes DEF PageDid, DidFinish, DidReplay
    <2>3. CASE ImpactEnds(r)
      BY <2>3, ImpactEndsDoes DEF PageDid, DidFinish
    <2>4. CASE SafetyFires(r)
      BY <2>4, SafetyFiresDoes DEF PageDid, DidFire
    <2>5. QED BY <2>1, <2>2, <2>3, <2>4
  <1>6. CASE DrawsDone
    BY <1>6, DrawsDoneDoes DEF PageDid, DidDraws
  <1>7. QED BY <1>1, <1>2, <1>3, <1>4, <1>5, <1>6

\* The messages of the server.
DidChaining ==
    /\ Quiet /\ Untouched /\ TypeInv' /\ log'.got = log.got /\ log'.played = log.played
    /\ server.phase # "resolving"
    /\ ServerIs("building", server.links + 1, server.unsolved + 1, server.solving, server.events,
                server.up)
    /\ Receives(Append(proc.queue, Entry("chaining", <<server.links>>)),
                proc.links \cup proc.pending,
                IF proc.phase = "idle" THEN "building" ELSE proc.phase,
                {[idx |-> server.links, gen |-> proc.gen]}, proc.gen)
DidPrompt ==
    /\ Quiet /\ Untouched /\ TypeInv' /\ log'.got = log.got /\ log'.played = log.played
    /\ UNCHANGED server /\ server.up
    /\ Receives(proc.queue, proc.links \cup proc.pending, proc.phase, {}, proc.gen)
DidSendSolving ==
    /\ Quiet /\ Untouched /\ TypeInv' /\ log'.got = log.got /\ log'.played = log.played
    /\ server.unsolved > 0 /\ server.solving = NoLink /\ server.unsolved - 1 \in Nat
    /\ ServerIs("resolving", server.links, server.unsolved, server.unsolved - 1, server.events,
                server.up)
    /\ Receives(Append(proc.queue, Entry("solving", <<server.unsolved - 1>>)),
                proc.links \cup proc.pending, proc.phase, {}, proc.gen)
DidSendSolved ==
    /\ Quiet /\ Untouched /\ TypeInv' /\ log'.got = log.got /\ log'.played = log.played
    /\ server.solving # NoLink /\ server.solving \in Nat /\ server.unsolved > 0
    /\ ServerIs(server.phase, server.links, server.unsolved - 1, NoLink, server.events, server.up)
    /\ Receives(Append(proc.queue, Entry("solved", <<server.solving>>)),
                proc.links, proc.phase, proc.pending, proc.gen)
DidSendEnd ==
    /\ Quiet /\ Untouched /\ TypeInv' /\ log'.got = log.got /\ log'.played = log.played
    /\ server.phase = "resolving" /\ server.unsolved = 0 /\ server.solving = NoLink
    /\ ServerIs("idle", 0, 0, NoLink, server.events, server.up)
    /\ Receives(Append(proc.queue, Entry("end", <<>>)),
                proc.links \cup proc.pending, proc.phase, {}, proc.gen + 1)
DidSendEvent ==
    /\ Quiet /\ Untouched /\ TypeInv'
    /\ log'.got = (IF server.up THEN log.got \o <<server.events + 1>> ELSE log.got)
    /\ log'.played = log.played
    /\ \/ Stragglers \/ server.phase # "resolving"
       \/ server.solving # NoLink \/ server.unsolved = 0
    /\ ServerIs(server.phase, server.links, server.unsolved, server.solving, server.events + 1,
                server.up)
    /\ Receives(Append(proc.queue, Entry("event", <<server.events + 1>>)),
                proc.links, proc.phase, proc.pending, proc.gen)
DidDisconnect ==
    /\ UNCHANGED <<proc, runner, chain, draw, overlay, dirty, parked, log, races>> /\ TypeInv'
    /\ ServerIs(server.phase, server.links, server.unsolved, server.solving, server.events, FALSE)
\* The resets: with the links of the server, or parked first.
DidResync ==
    /\ TypeInv'
    /\ ServerIs(server.phase, server.links, server.unsolved, server.solving, server.events, TRUE)
    /\ \/ server.links > 0 /\ ResetTo(Restored, server.phase) /\ ~parked'
       \/ server.links = 0 /\ parked'
          /\ \/ ResetTo({}, "idle")
             \/ UNCHANGED <<proc, runner, chain, draw, overlay, dirty, log, races>>
DidFlush == ResetTo({}, "idle") /\ ~parked' /\ server' = server /\ TypeInv'

ServerDid ==
    \/ DidChaining \/ DidPrompt \/ DidSendSolving \/ DidSendSolved \/ DidSendEnd \/ DidSendEvent
    \/ DidDisconnect \/ DidResync \/ DidFlush

LEMMA ServerDoes ==
    ASSUME TypeInv, QueueInv', ServerStep \/ FlushStateSync
    PROVE  ServerDid /\ TypeInv'
  <1>1. CASE SendChaining
    BY <1>1, SendChainingDoes DEF ServerDid, DidChaining
  <1>2. CASE SendPrompt
    BY <1>2, SendPromptDoes DEF ServerDid, DidPrompt
  <1>3. CASE SendSolving
    BY <1>3, SendSolvingDoes DEF ServerDid, DidSendSolving
  <1>4. CASE SendSolved
    BY <1>4, SendSolvedDoes DEF ServerDid, DidSendSolved
  <1>5. CASE SendEnd
    BY <1>5, SendEndDoes DEF ServerDid, DidSendEnd
  <1>6. CASE SendEvent
    BY <1>6, SendEventDoes DEF ServerDid, DidSendEvent
  <1>7. CASE Disconnect
    BY <1>7, DisconnectDoes DEF ServerDid, DidDisconnect
  <1>8. CASE Resync
    BY <1>8, ResyncDoes DEF ServerDid, DidResync
  <1>9. CASE FlushStateSync
    BY <1>9, FlushDoes DEF ServerDid, DidFlush
  <1>10. QED
    BY <1>1, <1>2, <1>3, <1>4, <1>5, <1>6, <1>7, <1>8, <1>9 DEF ServerStep

LEMMA TypesStutter == TypeInv /\ UNCHANGED vars => TypeInv'
  <1> SUFFICES ASSUME TypeInv, UNCHANGED vars PROVE TypeInv'
    OBVIOUS
  <1>1. UNCHANGED <<server, proc, runner, chain, draw, overlay, dirty, parked, log>>
    BY DEF vars
  <1>2. QueueInv'
    BY <1>1 DEF TypeInv, QueueInv
  <1>3. QueueTypeOK'
    BY <1>1 DEF TypeInv, QueueTypeOK
  <1>4. QED BY <1>1, <1>2, <1>3 DEF TypeInv

LEMMA NextDoes ==
    ASSUME TypeInv, QueueInv', Next
    PROVE  TypeInv' /\ (LoopDid \/ PageDid \/ ServerDid)
  <1>1. ASSUME NEW l \in runner.loops, LoopStep(l) PROVE TypeInv' /\ LoopDid
    BY <1>1, LoopDoes
  <1>2. CASE QueueEffect \/ ResumeEffect \/ AwaitEffect \/ LinksEffect \/ OverlayStep \/ DrawsDone
    BY <1>2, PageDoes
  <1>3. CASE ServerStep \/ FlushStateSync
    BY <1>3, ServerDoes
  <1>4. QED BY <1>1, <1>2, <1>3 DEF Next, PageStep

LEMMA TypeInvInductive == TypeInv /\ [Next]_vars => TypeInv'
  <1>1. TypeInv /\ [Next]_vars => QueueInv'
    BY QueueInvInductive DEF TypeInv
  <1>2. QED BY <1>1, NextDoes, TypesStutter

LEMMA TypesInitially == Init => TypeInv
  <1> SUFFICES ASSUME Init PROVE TypeInv
    OBVIOUS
  <1>1. QueueInv
    BY QueueInvInitially
  <1>2. server = ServerInit /\ proc = Received({}, "idle") /\ chain = ChainInit
        /\ draw = [busy |-> FALSE, sequences |-> 0] /\ dirty = {} /\ parked = FALSE /\ log = Fresh
    BY DEF Init
  <1>3. runner = [running |-> FALSE, processing |-> FALSE, epoch |-> 0, loops |-> {},
                  rescues |-> 0, lastLen |-> -1, armed |-> FALSE]
    BY DEF Init
  <1>4. overlay = [prev |-> {}, resolutions |-> {}, inFlight |-> FALSE, current |-> 0]
    BY DEF Init
  <1>5. IsFiniteSet({}) /\ {} \cup {} = {}
    BY FS_EmptySet
  <1>6. server \in ServerType
    BY <1>2 DEF ServerInit, ServerType, Phases
  <1>7. proc \in ProcType /\ proc.links = {} /\ proc.pending = {}
    <2>1. <<>> \in Seq(Entries)
      OBVIOUS
    <2>2. QED BY <2>1, <1>2 DEF Received, ProcType, Phases
  <1>8. chain \in ChainType
    <2>1. <<>> \in Seq(Nat)
      OBVIOUS
    <2>2. QED BY <2>1, <1>2 DEF ChainInit, ChainType
  <1>9. overlay \in OverlayType /\ overlay.resolutions = {}
    BY <1>4 DEF OverlayType
  <1>10. QueueTypeOK
    <2>1. <<>> \in Seq(Nat)
      OBVIOUS
    <2>2. log \in [got : Seq(Nat), played : Seq(Nat)]
      BY <2>1, <1>2 DEF Fresh
    <2>3. QED
      BY <1>2, <1>3, <1>5, <1>6, <1>7, <1>8, <1>9, <2>2 DEF QueueTypeOK
  <1>11. Hands(runner)
    BY <1>3 DEF Hands
  <1>12. WellFormed(server)
    BY <1>2 DEF ServerInit, WellFormed
  <1>13. QED BY <1>1, <1>10, <1>11, <1>12 DEF TypeInv

\* QueueTypeOK: whatever the page and the server do, their state keeps its types.
THEOREM QueueTypes == Spec => []QueueTypeOK
  <1>1. TypeInv => QueueTypeOK
    BY DEF TypeInv
  <1>2. QED BY <1>1, TypesInitially, TypeInvInductive, PTL DEF Spec

-----------------------------------------------------------------------------
(* The buffer and the batch. *)

\* No safety timer has outlived its batch.
Sane == "late safety timer" \notin races

\* Of the batch of a replay: its entries are in front, in order, and it is there exactly while the
\* manager drains, of a chain that resolves; the buffer is empty then. The events that a loop has
\* in hand are of a batch.
BufferOK(queue, draining, replaying, phase, buffer, hand) ==
    /\ Shape(queue, draining)
    /\ replaying => draining
    /\ draining => phase = "resolving"
    /\ buffer # <<>> => phase = "resolving" /\ ~draining
    /\ hand # <<>> => draining
BufferInv ==
    Sane => BufferOK(proc.queue, chain.draining, chain.replaying, proc.phase, chain.buffer,
                     HandOf(runner))

LEMMA BatchShape ==
    ASSUME TypeInv, chain.buffer # <<>>, NEW id \in Nat, NEW q \in Seq(Entries), Shape(q, FALSE)
    PROVE  /\ Shape(Batch(id) \o q, TRUE)
           /\ Ends(Batch(id) \o q) = {id}
           /\ Awaits(Batch(id) \o q) <=> Awaits(q)
  <1> DEFINE g == Entry("group", chain.buffer)
             b == Entry("barrier", <<>>)
             e == Entry("batch-end", <<id>>)
  <1>1. /\ g \in Entries /\ b \in Entries /\ e \in Entries
        /\ Batch(id) \o q = <<g>> \o (<<b>> \o (<<e>> \o q))
    BY BatchIs
  <1>2. /\ g.kind = "group" /\ b.kind = "barrier" /\ e.kind = "batch-end" /\ e.of[1] = id
        /\ Own(g) /\ Own(b) /\ Own(e)
    BY DEF Entry, Own
  <1> HIDE DEF g, b, e
  <1> DEFINE q1 == <<e>> \o q
             q2 == <<b>> \o q1
             q3 == <<g>> \o q2
  <1>0. PICK f : f = FALSE
    OBVIOUS
  <1>3. q1 \in Seq(Entries) /\ q2 \in Seq(Entries)
    BY <1>1, ConsIs
  <1>4. /\ Shape(q1, f \/ e.kind = "batch-end")
        /\ Ends(q1) = Ends(q) \cup (IF e.kind = "batch-end" THEN {e.of[1]} ELSE {})
        /\ Awaits(q1) <=> Awaits(q) \/ e.kind = "await-signal"
    <2>1. f \in BOOLEAN /\ Shape(q, f) /\ (e.kind = "batch-end" => ~f)
          /\ (e.kind = "group" => f)
      BY <1>0, <1>2
    <2> HIDE DEF q1
    <2>2. QED BY <2>1, <1>1, <1>2, ShapeCons DEF q1
  <1>5. Ends(q) = {}
    BY <1>0, ShapeFacts
  <1>6. PICK t : t = (f \/ e.kind = "batch-end")
    OBVIOUS
  <1>7. t = TRUE /\ t \in BOOLEAN
    BY <1>6, <1>2
  <1>8. Shape(q1, t) /\ Ends(q1) = {id} /\ (Awaits(q1) <=> Awaits(q))
    BY <1>4, <1>5, <1>6, <1>2
  <1> HIDE DEF q1
  <1>9. /\ Shape(q2, t \/ b.kind = "batch-end")
        /\ Ends(q2) = Ends(q1) \cup (IF b.kind = "batch-end" THEN {b.of[1]} ELSE {})
        /\ Awaits(q2) <=> Awaits(q1) \/ b.kind = "await-signal"
    BY <1>8, <1>7, <1>1, <1>2, <1>3, ShapeCons
  <1>10. Shape(q2, t) /\ Ends(q2) = {id} /\ (Awaits(q2) <=> Awaits(q))
    <2>1. (t \/ b.kind = "batch-end") = t
      BY <1>2, <1>7
    <2>2. Ends(q2) = {id} /\ (Awaits(q2) <=> Awaits(q))
      BY <1>9, <1>8, <1>2
    <2>3. QED BY <2>1, <2>2, <1>9
  <1> HIDE DEF q2
  <1>11. /\ Shape(q3, t \/ g.kind = "batch-end")
         /\ Ends(q3) = Ends(q2) \cup (IF g.kind = "batch-end" THEN {g.of[1]} ELSE {})
         /\ Awaits(q3) <=> Awaits(q2) \/ g.kind = "await-signal"
    BY <1>10, <1>7, <1>1, <1>2, <1>3, ShapeCons
  <1>12. Shape(q3, TRUE) /\ Ends(q3) = {id} /\ (Awaits(q3) <=> Awaits(q))
    <2>1. (t \/ g.kind = "batch-end") = TRUE
      BY <1>2, <1>7
    <2>2. Ends(q3) = {id} /\ (Awaits(q3) <=> Awaits(q))
      BY <1>11, <1>10, <1>2
    <2>3. QED BY <2>1, <2>2, <1>11
  <1>13. q3 = Batch(id) \o q
    BY <1>1 DEF q1, q2
  <1>14. QED BY <1>12, <1>13

\* A signal to await, put before the queue.
LEMMA SignalShape ==
    ASSUME NEW q \in Seq(Entries), Shape(q, FALSE)
    PROVE  /\ Signal \o q \in Seq(Entries) /\ Shape(Signal \o q, FALSE)
           /\ Ends(Signal \o q) = {} /\ Awaits(Signal \o q)
  <1> DEFINE e == Entry("await-signal", <<>>)
  <1>1. e \in Entries /\ e.kind = "await-signal" /\ Own(e)
    BY DEF e, Entry, Entries, Kinds, Own
  <1> HIDE DEF e
  <1>0. PICK f : f = FALSE
    OBVIOUS
  <1>2. /\ Shape(<<e>> \o q, f \/ e.kind = "batch-end")
        /\ Ends(<<e>> \o q) = Ends(q) \cup (IF e.kind = "batch-end" THEN {e.of[1]} ELSE {})
        /\ Awaits(<<e>> \o q) <=> Awaits(q) \/ e.kind = "await-signal"
    BY <1>0, <1>1, ShapeCons
  <1>3. Ends(q) = {}
    BY <1>0, ShapeFacts
  <1>4. (f \/ e.kind = "batch-end") = FALSE
    BY <1>0, <1>1
  <1>5. Ends(<<e>> \o q) = {} /\ Awaits(<<e>> \o q)
    BY <1>1, <1>2, <1>3
  <1>6. Shape(<<e>> \o q, FALSE)
    BY <1>2, <1>4
  <1>7. <<e>> \o q \in Seq(Entries)
    BY <1>1, ConsIs
  <1>8. Signal = <<e>>
    BY DEF Signal, e
  <1>9. QED BY <1>5, <1>6, <1>7, <1>8

\* The banner, put before the queue.
LEMMA BannerShape ==
    ASSUME NEW q \in Seq(Entries), NEW d \in BOOLEAN, Shape(q, d)
    PROVE  /\ Shape(<<Entry("announcement", <<>>)>> \o q, d)
           /\ Ends(<<Entry("announcement", <<>>)>> \o q) = Ends(q)
           /\ Awaits(<<Entry("announcement", <<>>)>> \o q) <=> Awaits(q)
  <1> DEFINE e == Entry("announcement", <<>>)
  <1>1. e \in Entries /\ e.kind = "announcement" /\ Own(e)
    BY DEF e, Entry, Entries, Kinds, Own
  <1> HIDE DEF e
  <1>2. /\ Shape(<<e>> \o q, d \/ e.kind = "batch-end")
        /\ Ends(<<e>> \o q) = Ends(q) \cup (IF e.kind = "batch-end" THEN {e.of[1]} ELSE {})
        /\ Awaits(<<e>> \o q) <=> Awaits(q) \/ e.kind = "await-signal"
    BY <1>1, ShapeCons
  <1>3. (d \/ e.kind = "batch-end") = d
    BY <1>1
  <1>4. Ends(<<e>> \o q) = Ends(q) /\ (Awaits(<<e>> \o q) <=> Awaits(q))
    BY <1>1, <1>2
  <1>5. Shape(<<e>> \o q, d)
    BY <1>2, <1>3
  <1>6. QED BY <1>4, <1>5 DEF e

LEMMA BufferSame ==
    ASSUME BufferInv, proc'.queue = proc.queue, proc'.phase = proc.phase,
           chain'.draining = chain.draining, chain'.replaying = chain.replaying,
           chain'.buffer = chain.buffer, HandOf(runner') \in {HandOf(runner), <<>>},
           "late safety timer" \in races' <=> "late safety timer" \in races
    PROVE  BufferInv'
  BY DEF BufferInv, BufferOK, Sane

\* What BufferInv says of a queue whose head is taken.
LEMMA BufferTail ==
    ASSUME TypeInv, BufferInv, Sane, proc.queue # <<>>
    PROVE  /\ Kind # "batch-end" => Shape(Tail(proc.queue), chain.draining)
           /\ Kind = "batch-end" => Shape(Tail(proc.queue), FALSE) /\ chain.draining
           /\ Kind = "group" => chain.draining
           /\ Kind = "end" => ~chain.draining /\ ~chain.replaying
           /\ Tail(proc.queue) \in Seq(Entries)
  <1> DEFINE q == proc.queue
             d == chain.draining
  <1>1. q \in Seq(Entries) /\ d \in BOOLEAN /\ q # <<>>
    BY FieldsAreTyped DEF Fields
  <1>2. Shape(q, d)
    BY DEF BufferInv, BufferOK
  <1> HIDE DEF q, d
  <1>3. /\ Shape(Tail(q), d /\ Head(q).kind # "batch-end")
        /\ ~Own(Head(q)) => NoOwn(q)
        /\ Head(q).kind = "batch-end" => Ends(q) = {Head(q).of[1]}
        /\ Head(q).kind = "group" => d
    BY <1>1, <1>2, ShapeTail
  <1>4. (d <=> Ends(q) # {}) /\ (NoOwn(q) => Ends(q) = {})
    BY <1>1, <1>2, ShapeFacts
  <1>5. Head(q).kind # "batch-end" => Shape(Tail(q), d)
    <2>1. Head(q).kind # "batch-end" => (d /\ Head(q).kind # "batch-end") = d
      BY <1>1
    <2>2. QED BY <2>1, <1>3
  <1>6. Head(q).kind = "batch-end" => Shape(Tail(q), FALSE) /\ d
    <2>1. Head(q).kind = "batch-end" => (d /\ Head(q).kind # "batch-end") = FALSE
      BY <1>1
    <2>2. Head(q).kind = "batch-end" => Shape(Tail(q), FALSE)
      BY <2>1, <1>3
    <2>3. Head(q).kind = "batch-end" => d
      BY <1>3, <1>4
    <2>4. QED BY <2>2, <2>3
  <1>7. Head(q).kind = "end" => ~d
    BY <1>3, <1>4 DEF Own
  <1>8. Tail(q) \in Seq(Entries)
    BY <1>1, TailIs
  <1>9. chain.replaying => d
    BY DEF BufferInv, BufferOK, d
  <1>10. QED BY <1>3, <1>5, <1>6, <1>7, <1>8, <1>9 DEF Kind, q, d

\* The loop.
LEMMA BufferAside ==
    ASSUME BufferInv, Aside, HandOf(runner') \in {HandOf(runner), <<>>}
    PROVE  BufferInv'
  BY BufferSame DEF Aside, SameChain, ChainIs, Local

LEMMA BufferPops ==
    ASSUME TypeInv, BufferInv, Found("dequeue"), Kind # "batch-end", Popped, SameChain, Local,
           HandOf(runner') = <<>>
    PROVE  BufferInv'
  <1> SUFFICES ASSUME Sane' PROVE BufferInv'
    BY DEF BufferInv
  <1>1. Sane /\ proc.queue # <<>>
    BY DEF Sane, Local, Found
  <1>2. Shape(Tail(proc.queue), chain.draining)
    BY <1>1, BufferTail
  <1>3. QED BY <1>1, <1>2 DEF BufferInv, BufferOK, Popped, ProcIs, SameChain, ChainIs

\* The head is popped, and an event is buffered or played.
LEMMA BufferEvents ==
    ASSUME TypeInv, BufferInv, Local, NEW e, Buffers(e) \/ Plays(e),
           \/ Found("dequeue") /\ Popped /\ Kind \notin {"batch-end"}
           \/ proc' = proc,
           HandOf(runner') = <<>> \/ (Sane => chain.draining)
    PROVE  BufferInv'
  <1> SUFFICES ASSUME Sane' PROVE BufferInv'
    BY DEF BufferInv
  <1>1. Sane
    BY DEF Sane, Local
  <1>2. Shape(proc'.queue, chain.draining) /\ proc'.phase = proc.phase
    <2>1. CASE Found("dequeue") /\ Popped /\ Kind \notin {"batch-end"}
      BY <2>1, <1>1, BufferTail DEF Found, Popped, ProcIs
    <2>2. CASE proc' = proc
      BY <2>2, <1>1 DEF BufferInv, BufferOK
    <2>3. QED BY <2>1, <2>2
  <1>3. CASE Buffers(e)
    <2>1. proc.phase = "resolving" /\ ~chain.draining
      BY <1>3 DEF Buffers, ShouldBuffer
    <2>2. HandOf(runner') = <<>>
      BY <2>1, <1>1
    <2>3. QED
      BY <1>1, <1>2, <1>3, <2>1, <2>2 DEF BufferInv, BufferOK, Buffers, ChainIs
  <1>4. CASE Plays(e)
    BY <1>1, <1>2, <1>4 DEF BufferInv, BufferOK, Plays, SameChain, ChainIs
  <1>5. QED BY <1>3, <1>4

\* MSG_CHAIN_SOLVING, with q left in the queue.
LEMMA BufferSolving ==
    ASSUME TypeInv, BufferInv, Local, NEW x, NEW q,
           PutOff(x, q) \/ Begun(x, q),
           \/ q = proc.queue
           \/ proc.queue # <<>> /\ q = Tail(proc.queue) /\ Kind = "solving"
    PROVE  BufferInv'
  <1> SUFFICES ASSUME Sane' PROVE BufferInv'
    BY DEF BufferInv
  <1>1. Sane
    BY DEF Sane, Local
  <1> DEFINE d == chain.draining
  <1>2. d \in BOOLEAN /\ proc.queue \in Seq(Entries)
    BY FieldsAreTyped DEF Fields
  <1>3. Shape(q, d) /\ q \in Seq(Entries)
    <2>1. CASE q = proc.queue
      BY <2>1, <1>1, <1>2 DEF BufferInv, BufferOK
    <2>2. CASE proc.queue # <<>> /\ q = Tail(proc.queue) /\ Kind = "solving"
      BY <2>2, <1>1, BufferTail
    <2>3. QED BY <2>1, <2>2
  <1> HIDE DEF d
  <1>4. CASE PutOff(x, q)
    <2>1. Shape(<<Entry("announcement", <<>>)>> \o q, d)
      BY <1>2, <1>3, BannerShape
    <2>2. QED
      BY <2>1, <1>1, <1>4 DEF BufferInv, BufferOK, PutOff, ChainIs, ProcIs, GoesTo, d
  <1>5. CASE Begun(x, q)
    BY <1>1, <1>3, <1>5 DEF BufferInv, BufferOK, Begun, ChainIs, ProcIs, GoesTo, d
  <1>6. QED BY <1>4, <1>5

LEMMA BufferLoop ==
    ASSUME TypeInv, BufferInv, LoopDid
    PROVE  BufferInv'
  <1>1. CASE DidPass \/ DidPause \/ DidFinalize \/ DidBanner \/ DidReturn
             \/ \E pc \in Ending : DidStep(pc)
    <2>1. Aside /\ HandOf(runner') \in {HandOf(runner), <<>>}
      BY <1>1 DEF DidPass, DidPause, DidFinalize, DidBanner, DidReturn, DidStep, Elsewhere, GoesTo
    <2>2. QED BY <2>1, BufferAside
  <1>2. CASE DidPop \/ DidSignal
    <2>1. /\ Found("dequeue") /\ Kind # "batch-end" /\ Popped /\ chain' = chain /\ Local
          /\ HandOf(runner') = <<>>
      BY <1>2 DEF DidPop, DidSignal, Pops, GoesTo
    <2>2. SameChain
      BY <2>1 DEF SameChain, ChainIs
    <2>3. QED BY <2>1, <2>2, BufferPops
  <1>3. CASE DidConsume
    BY <1>3, BufferSolving DEF DidConsume, Plain
  <1>4. CASE DidSolving
    BY <1>4, BufferSolving DEF DidSolving, Plain, Found
  <1>5. CASE DidSolved
    <2> SUFFICES ASSUME Sane' PROVE BufferInv'
      BY DEF BufferInv
    <2>1. Sane /\ proc.queue # <<>> /\ Kind # "batch-end" /\ HandOf(runner') = <<>>
      BY <1>5 DEF Sane, Local, DidSolved, Plain, Found, GoesTo
    <2>2. Shape(Tail(proc.queue), chain.draining)
      BY <2>1, BufferTail
    <2>3. QED BY <1>5, <2>1, <2>2 DEF DidSolved, BufferInv, BufferOK, ProcIs, ChainIs
  <1>6. CASE DidEnd
    <2> SUFFICES ASSUME Sane' PROVE BufferInv'
      BY DEF BufferInv
    <2>1. Sane /\ proc.queue # <<>> /\ Kind = "end" /\ HandOf(runner') = <<>>
      BY <1>6 DEF Sane, Local, DidEnd, Plain, Found, GoesTo
    <2>2. Shape(Tail(proc.queue), chain.draining) /\ ~chain.draining /\ ~chain.replaying
      BY <2>1, BufferTail
    <2>3. chain'.draining = chain.draining /\ chain'.replaying = chain.replaying
          /\ chain'.buffer = <<>> /\ proc'.queue = Tail(proc.queue)
      <3>1. chain.draining \in BOOLEAN
        BY FieldsAreTyped DEF Fields
      <3>2. QED BY <3>1, <1>6, <2>2 DEF DidEnd, ProcIs, ChainIs
    <2>4. QED BY <2>1, <2>2, <2>3 DEF BufferInv, BufferOK
  <1>7. CASE DidEvent
    BY <1>7, BufferEvents DEF DidEvent, GoesTo
  <1>8. CASE DidGroup
    <2>1. Sane => chain.draining
      BY <1>8, BufferTail DEF DidGroup, Found
    <2>2. QED BY <1>8, <2>1, BufferEvents DEF DidGroup, GroupFrom
  <1>9. CASE DidStagger
    <2>1. Sane => chain.draining
      BY <1>9 DEF DidStagger, BufferInv, BufferOK
    <2>2. QED BY <1>9, <2>1, BufferEvents DEF DidStagger, GroupFrom
  <1>10. CASE DidBatchEnd
    <2> SUFFICES ASSUME Sane' PROVE BufferInv'
      BY DEF BufferInv
    <2>1. Sane /\ proc.queue # <<>> /\ Kind = "batch-end" /\ HandOf(runner') = <<>>
      BY <1>10 DEF Sane, Local, DidBatchEnd, Found, GoesTo
    <2>2. Shape(Tail(proc.queue), FALSE) /\ chain.draining
      BY <2>1, BufferTail
    <2>3. proc'.queue = Tail(proc.queue) /\ chain'.draining = FALSE /\ chain'.replaying = FALSE
          /\ chain'.buffer = chain.buffer
      BY <1>10 DEF DidBatchEnd, Popped, ProcIs, CleanedUp, ChainIs
    <2>4. chain.buffer = <<>>
      BY <2>1, <2>2 DEF BufferInv, BufferOK
    <2>5. QED BY <2>1, <2>2, <2>3, <2>4 DEF BufferInv, BufferOK
  <1>11. CASE DidPreReplay
    <2> SUFFICES ASSUME Sane' PROVE BufferInv'
      BY DEF BufferInv
    <2>1. Sane /\ chain.buffer # <<>> /\ proc.phase = "resolving" /\ HandOf(runner') = <<>>
      BY <1>11 DEF Sane, Local, DidPreReplay, Plain, Found, GoesTo
    <2>2. Shape(proc.queue, chain.draining) /\ chain.draining = FALSE
          /\ proc.queue \in Seq(Entries)
      BY <2>1, FieldsAreTyped DEF BufferInv, BufferOK, Fields
    <2>3. Shape(Batch(0) \o proc.queue, TRUE)
      <3>1. Shape(proc.queue, FALSE) /\ 0 \in Nat
        BY <2>2
      <3>2. QED BY <3>1, <2>1, <2>2, BatchShape
    <2>4. QED
      BY <1>11, <2>1, <2>3 DEF DidPreReplay, BufferInv, BufferOK, ProcIs, ChainIs
  <1>12. QED
    BY <1>1, <1>2, <1>3, <1>4, <1>5, <1>6, <1>7, <1>8, <1>9, <1>10, <1>11 DEF LoopDid

LEMMA BufferPage ==
    ASSUME TypeInv, BufferInv, PageDid
    PROVE  BufferInv'
  <1>1. CASE DidAwait \/ DidQueue \/ DidResume \/ DidLinksEnd \/ DidLinksNew \/ DidLinksSee
             \/ DidDraws \/ \E r \in overlay.resolutions : DidFinish(r)
    <2>1. /\ proc' = proc /\ HandOf(runner') = HandOf(runner) /\ races' = races
          /\ chain'.draining = chain.draining /\ chain'.replaying = chain.replaying
          /\ chain'.buffer = chain.buffer
      BY <1>1 DEF DidAwait, DidQueue, DidResume, DidLinks, DidLinksEnd, DidLinksNew, DidLinksSee,
                  DidDraws, DidFinish, Aside, SameChain, ChainIs, MayStart, Starts, Local, Ended
    <2>2. QED BY <2>1, BufferSame
  <1>2. ASSUME NEW r \in overlay.resolutions, DidReplay(r) PROVE BufferInv'
    <2> SUFFICES ASSUME Sane' PROVE BufferInv'
      BY DEF BufferInv
    <2>1. Sane /\ chain.buffer # <<>> /\ HandOf(runner') = HandOf(runner)
      BY <1>2 DEF Sane, Local, DidReplay, Replays, MayStart, Starts
    <2>2. Shape(proc.queue, chain.draining) /\ chain.draining = FALSE
          /\ proc.phase = "resolving" /\ HandOf(runner) = <<>> /\ proc.queue \in Seq(Entries)
          /\ r.id \in Nat
      BY <2>1, FieldsAreTyped DEF BufferInv, BufferOK, Fields
    <2>3. Signal \o proc.queue \in Seq(Entries) /\ Shape(Signal \o proc.queue, FALSE)
      <3>1. Shape(proc.queue, FALSE)
        BY <2>2
      <3>2. QED BY <3>1, <2>2, SignalShape
    <2>4. Shape(Batch(r.id) \o (Signal \o proc.queue), TRUE)
      BY <2>1, <2>2, <2>3, BatchShape
    <2>5. QED
      BY <1>2, <2>1, <2>2, <2>4 DEF DidReplay, Replays, BufferInv, BufferOK, ProcIs, ChainIs
  <1>3. CASE DidFire
    BY <1>3 DEF DidFire, BufferInv, Sane
  <1>4. QED BY <1>1, <1>2, <1>3 DEF PageDid

\* A message of the server goes behind the queue.
LEMMA BufferReceives ==
    ASSUME TypeInv, BufferInv, Untouched, NEW e \in Entries, ~Own(e),
           NEW q, q = Append(proc.queue, e) \/ q = proc.queue, NEW ls, NEW ph, NEW ps, NEW g,
           Receives(q, ls, ph, ps, g), proc.phase = "resolving" => ph = "resolving"
    PROVE  BufferInv'
  <1> SUFFICES ASSUME Sane' PROVE BufferInv'
    BY DEF BufferInv
  <1>1. Sane /\ runner' = runner /\ chain' = chain
    BY DEF Sane, Untouched
  <1>2. chain.draining \in BOOLEAN /\ proc.queue \in Seq(Entries)
    BY FieldsAreTyped DEF Fields
  <1>3. Shape(proc.queue, chain.draining)
    BY <1>1 DEF BufferInv, BufferOK
  <1>4. Shape(Append(proc.queue, e), chain.draining)
    BY <1>2, <1>3, ShapeAppend
  <1>5. CASE server.up
    BY <1>5, <1>1, <1>3, <1>4 DEF Receives, ProcIs, BufferInv, BufferOK
  <1>6. CASE ~server.up
    BY <1>6, <1>1 DEF Receives, BufferInv, BufferOK
  <1>7. QED BY <1>5, <1>6

LEMMA BufferReset ==
    ASSUME BufferInv, NEW ls, NEW ph, ResetTo(ls, ph)
    PROVE  BufferInv'
  BY EmptyShape DEF ResetTo, ProcIs, ChainIs, BufferInv, BufferOK, Sane

LEMMA BufferServer ==
    ASSUME TypeInv, BufferInv, ServerDid
    PROVE  BufferInv'
  <1>0. server.links \in Nat /\ server.events + 1 \in Nat
    BY FieldsAreTyped DEF Fields
  <1>1. CASE DidChaining
    <2>1. Entry("chaining", <<server.links>>) \in Entries /\ ~Own(Entry("chaining", <<server.links>>))
      BY <1>0, EntryIs
    <2>2. QED BY <1>1, <2>1, BufferReceives DEF DidChaining
  <1>2. CASE DidPrompt
    BY <1>2, EndIs, BufferReceives DEF DidPrompt
  <1>3. CASE DidSendSolving
    <2>1. /\ Entry("solving", <<server.unsolved - 1>>) \in Entries
          /\ ~Own(Entry("solving", <<server.unsolved - 1>>))
      BY <1>3, EntryIs DEF DidSendSolving
    <2>2. QED BY <1>3, <2>1, BufferReceives DEF DidSendSolving
  <1>4. CASE DidSendSolved
    <2>1. /\ Entry("solved", <<server.solving>>) \in Entries
          /\ ~Own(Entry("solved", <<server.solving>>))
      BY <1>4, EntryIs DEF DidSendSolved
    <2>2. QED BY <1>4, <2>1, BufferReceives DEF DidSendSolved
  <1>5. CASE DidSendEnd
    BY <1>5, EndIs, BufferReceives DEF DidSendEnd
  <1>6. CASE DidSendEvent
    <2>1. /\ Entry("event", <<server.events + 1>>) \in Entries
          /\ ~Own(Entry("event", <<server.events + 1>>))
      BY <1>0, EntryIs
    <2>2. QED BY <1>6, <2>1, BufferReceives DEF DidSendEvent
  <1>7. CASE DidDisconnect
    BY <1>7 DEF DidDisconnect, BufferInv, BufferOK, Sane
  <1>8. CASE DidResync
    <2>1. CASE \E ls, ph : ResetTo(ls, ph)
      BY <2>1, BufferReset
    <2>2. CASE UNCHANGED <<proc, runner, chain, draw, overlay, dirty, log, races>>
      BY <2>2 DEF BufferInv, BufferOK, Sane
    <2>3. QED BY <1>8, <2>1, <2>2 DEF DidResync
  <1>9. CASE DidFlush
    BY <1>9, BufferReset DEF DidFlush
  <1>10. QED
    BY <1>1, <1>2, <1>3, <1>4, <1>5, <1>6, <1>7, <1>8, <1>9 DEF ServerDid

LEMMA BufferKept ==
    ASSUME TypeInv, BufferInv, LoopDid \/ PageDid \/ ServerDid
    PROVE  BufferInv'
  BY BufferLoop, BufferPage, BufferServer

-----------------------------------------------------------------------------
(* The overlay's resolutions. *)

\* One resolution at most holds or pauses, the current one, in flight; the batch of a replay that
\* is in the queue is the current one's, which waits for its end.
OverlayOK(rs, inFlight, current, ends) ==
    /\ \A r, o \in rs : r.id = o.id => r = o
    /\ \A r \in rs : r.at \in {"hold", "impact"} => r.id = current /\ inFlight /\ ~r.aborted
    /\ \A n \in ends : n # 0 =>
          inFlight /\ n = current /\ \E r \in rs : r.id = n /\ r.at = "replay" /\ ~r.aborted
\* The links that the overlay has seen are the links, or its effect is due.
Seen == "links" \notin dirty => overlay.prev = proc.links
OverlayInv ==
    Sane => /\ OverlayOK(overlay.resolutions, overlay.inFlight, overlay.current, Ends(proc.queue))
            /\ Seen

LEMMA SeenKept ==
    ASSUME Seen, overlay'.prev = overlay.prev, dirty' = dirty \cup Wakes
    PROVE  Seen'
  BY WakesAre DEF Seen

\* The overlay is left alone, or its effect is due, and no batch is added.
LEMMA OverlaySame ==
    ASSUME OverlayInv, overlay' = overlay, Ends(proc'.queue) \subseteq Ends(proc.queue) \cup {0},
           "late safety timer" \in races' <=> "late safety timer" \in races,
           \/ dirty' = dirty \cup Wakes
           \/ "links" \in dirty'
           \/ proc' = proc /\ ("links" \in dirty => "links" \in dirty')
    PROVE  OverlayInv'
  <1> SUFFICES ASSUME Sane' PROVE OverlayInv'
    BY DEF OverlayInv
  <1>1. Sane
    BY DEF Sane
  <1>2. OverlayOK(overlay.resolutions, overlay.inFlight, overlay.current, Ends(proc'.queue))
    BY <1>1 DEF OverlayInv, OverlayOK
  <1>3. Seen'
    BY <1>1, SeenKept DEF OverlayInv, Seen
  <1>4. QED BY <1>2, <1>3 DEF OverlayInv

LEMMA EndsTail ==
    ASSUME TypeInv, BufferInv, Sane, proc.queue # <<>>
    PROVE  /\ Kind # "batch-end" => Ends(Tail(proc.queue)) = Ends(proc.queue)
           /\ Kind = "batch-end" => Ends(proc.queue) = {Subject} /\ Ends(Tail(proc.queue)) = {}
           /\ Awaits(Tail(proc.queue)) => Awaits(proc.queue)
           /\ NoOwn(proc.queue) => NoOwn(Tail(proc.queue)) /\ ~Own(Head(proc.queue))
           /\ ~Own(Head(proc.queue)) => NoOwn(proc.queue)
           /\ Kind = "await-signal" => Awaits(proc.queue)
           /\ proc.queue \in Seq(Entries)
  <1> DEFINE q == proc.queue
             d == chain.draining
  <1>1. q \in Seq(Entries) /\ d \in BOOLEAN /\ q # <<>>
    BY FieldsAreTyped DEF Fields
  <1>2. Shape(q, d)
    BY DEF BufferInv, BufferOK
  <1> HIDE DEF q, d
  <1>3. /\ NoOwn(q) => NoOwn(Tail(q)) /\ ~Own(Head(q))
        /\ ~Own(Head(q)) => NoOwn(q)
        /\ Head(q).kind # "batch-end" => Ends(Tail(q)) = Ends(q)
        /\ Head(q).kind = "batch-end" => Ends(q) = {Head(q).of[1]} /\ Ends(Tail(q)) = {}
        /\ Awaits(Tail(q)) => Awaits(q)
        /\ Head(q).kind = "await-signal" => Awaits(q)
    BY <1>1, <1>2, ShapeTail
  <1>4. QED BY <1>1, <1>3 DEF Kind, Subject, q

\* The banner adds no batch and no signal.
LEMMA EndsBanner ==
    ASSUME TypeInv, BufferInv, Sane, NEW q \in Seq(Entries), Shape(q, chain.draining)
    PROVE  /\ Ends(<<Entry("announcement", <<>>)>> \o q) = Ends(q)
           /\ Awaits(<<Entry("announcement", <<>>)>> \o q) <=> Awaits(q)
  BY BannerShape, FieldsAreTyped DEF Fields

\* MSG_CHAIN_SOLVING, with q left in the queue.
LEMMA EndsSolving ==
    ASSUME TypeInv, BufferInv, Sane, NEW x, NEW q, PutOff(x, q) \/ Begun(x, q),
           \/ q = proc.queue
           \/ proc.queue # <<>> /\ q = Tail(proc.queue) /\ Kind = "solving"
    PROVE  /\ Ends(proc'.queue) = Ends(proc.queue)
           /\ Awaits(proc'.queue) => Awaits(proc.queue)
  <1>1. /\ q \in Seq(Entries) /\ Shape(q, chain.draining) /\ Ends(q) = Ends(proc.queue)
        /\ Awaits(q) => Awaits(proc.queue)
    <2>1. CASE q = proc.queue
      BY <2>1, FieldsAreTyped DEF Fields, BufferInv, BufferOK
    <2>2. CASE proc.queue # <<>> /\ q = Tail(proc.queue) /\ Kind = "solving"
      BY <2>2, EndsTail, BufferTail
    <2>3. QED BY <2>1, <2>2
  <1>2. CASE PutOff(x, q)
    BY <1>1, <1>2, EndsBanner DEF PutOff, ProcIs
  <1>3. CASE Begun(x, q)
    BY <1>1, <1>3 DEF Begun, ProcIs
  <1>4. QED BY <1>2, <1>3

LEMMA OverlayBatchEnd ==
    ASSUME TypeInv, BufferInv, OverlayInv, DidBatchEnd
    PROVE  OverlayInv'
  <1> SUFFICES ASSUME Sane' PROVE OverlayInv'
    BY DEF OverlayInv
  <1>1. Sane /\ proc.queue # <<>> /\ Kind = "batch-end"
    BY DEF Sane, Local, DidBatchEnd, Found
  <1>2. Ends(proc.queue) = {Subject} /\ Ends(proc'.queue) = {}
    BY <1>1, EndsTail DEF DidBatchEnd, Popped, ProcIs
  <1>3. CASE overlay' = overlay
    BY <1>2, <1>3, OverlaySame DEF DidBatchEnd, Local
  <1>4. ASSUME NEW r \in overlay.resolutions, r.id = Subject,
               r.aborted => OverlayIs(overlay.prev, FALSE, overlay.current, Others(r)),
               ~r.aborted => OverlayIs(overlay.prev, overlay.inFlight, overlay.current,
                                        Others(r) \cup {Stage(r, "impact")})
        PROVE  OverlayInv'
    <2>1. r.id # 0
      BY FieldsAreTyped DEF Fields
    <2>2. OverlayOK(overlay.resolutions, overlay.inFlight, overlay.current, {r.id}) /\ Seen
      BY <1>1, <1>2, <1>4 DEF OverlayInv
    <2>3. /\ overlay.inFlight /\ r.id = overlay.current /\ ~r.aborted
          /\ \A o \in overlay.resolutions : o.id = r.id => o = r
      BY <2>1, <2>2 DEF OverlayOK
    <2>4. OverlayIs(overlay.prev, overlay.inFlight, overlay.current,
                    Others(r) \cup {Stage(r, "impact")})
      BY <1>4, <2>3
    <2>5. Stage(r, "impact").id = r.id /\ Stage(r, "impact").at = "impact"
          /\ Stage(r, "impact").aborted = r.aborted
      BY DEF Stage
    <2>6. OverlayOK(Others(r) \cup {Stage(r, "impact")}, overlay.inFlight, overlay.current, {})
      BY <2>2, <2>3, <2>5 DEF OverlayOK, Others
    <2>7. Seen'
      BY <2>2, <2>4, SeenKept DEF DidBatchEnd, Local, OverlayIs
    <2>8. QED BY <1>2, <2>4, <2>6, <2>7 DEF OverlayInv, OverlayIs
  <1>5. QED BY <1>3, <1>4 DEF DidBatchEnd

LEMMA OverlayLoop ==
    ASSUME TypeInv, BufferInv, OverlayInv, LoopDid
    PROVE  OverlayInv'
  <1>1. CASE DidPass \/ DidPause \/ DidFinalize \/ DidBanner \/ DidReturn
             \/ (\E pc \in Ending : DidStep(pc)) \/ DidStagger
    BY <1>1, OverlaySame DEF DidPass, DidPause, DidFinalize, DidBanner, DidReturn, DidStep, Aside,
                             Local, DidStagger
  <1>2. CASE DidPop \/ DidSignal \/ DidSolved \/ DidEnd \/ DidEvent \/ DidGroup
    <2> SUFFICES ASSUME Sane' PROVE OverlayInv'
      BY DEF OverlayInv
    <2>1. /\ overlay' = overlay /\ Local /\ Found("dequeue") /\ Kind # "batch-end"
          /\ proc'.queue = Tail(proc.queue)
      BY <1>2 DEF DidPop, DidSignal, DidSolved, DidEnd, DidEvent, DidGroup, Pops, Popped, ProcIs,
                  Plain
    <2>2. Sane /\ proc.queue # <<>>
      BY <2>1 DEF Sane, Local, Found
    <2>3. QED BY <2>1, <2>2, EndsTail, OverlaySame DEF Local
  <1>3. CASE DidConsume \/ DidSolving
    <2> SUFFICES ASSUME Sane' PROVE OverlayInv'
      BY DEF OverlayInv
    <2>1. overlay' = overlay /\ Local /\ (DidSolving => proc.queue # <<>>)
      BY <1>3 DEF DidConsume, DidSolving, Plain, Found
    <2>2. Sane
      BY <2>1 DEF Sane, Local
    <2>3. Ends(proc'.queue) = Ends(proc.queue)
      BY <1>3, <2>1, <2>2, EndsSolving DEF DidConsume, DidSolving
    <2>4. QED BY <2>1, <2>3, OverlaySame DEF Local
  <1>4. CASE DidBatchEnd
    BY <1>4, OverlayBatchEnd
  <1>5. CASE DidPreReplay
    <2> SUFFICES ASSUME Sane' PROVE OverlayInv'
      BY DEF OverlayInv
    <2>1. Sane /\ overlay' = overlay /\ Local /\ chain.buffer # <<>>
      BY <1>5 DEF DidPreReplay, Plain, Sane, Local, Found
    <2>2. Shape(proc.queue, chain.draining) /\ chain.draining = FALSE
          /\ proc.queue \in Seq(Entries)
      BY <2>1, FieldsAreTyped DEF BufferInv, BufferOK, Fields
    <2>3. Shape(proc.queue, FALSE) /\ 0 \in Nat
      BY <2>2
    <2>4. Ends(Batch(0) \o proc.queue) = {0}
      BY <2>1, <2>2, <2>3, BatchShape
    <2>5. QED BY <1>5, <2>1, <2>4, OverlaySame DEF Local, DidPreReplay, ProcIs
  <1>6. QED BY <1>1, <1>2, <1>3, <1>4, <1>5 DEF LoopDid

\* What a replay does to the queue.
LEMMA ReplayFacts ==
    ASSUME TypeInv, BufferInv, Sane, NEW r \in overlay.resolutions, DidReplay(r)
    PROVE  /\ Ends(proc'.queue) = {r.id} /\ Ends(proc.queue) = {} /\ Awaits(proc'.queue)
           /\ HandOf(runner) = <<>> /\ ~chain.draining /\ proc.phase = "resolving"
  <1>1. chain.buffer # <<>>
    BY DEF DidReplay, Replays
  <1>2. Shape(proc.queue, chain.draining) /\ chain.draining = FALSE
        /\ proc.queue \in Seq(Entries) /\ r.id \in Nat
        /\ HandOf(runner) = <<>> /\ proc.phase = "resolving"
    BY <1>1, FieldsAreTyped DEF BufferInv, BufferOK, Fields
  <1>3. Shape(proc.queue, FALSE)
    BY <1>2
  <1>4. /\ Signal \o proc.queue \in Seq(Entries) /\ Shape(Signal \o proc.queue, FALSE)
        /\ Awaits(Signal \o proc.queue)
    BY <1>2, <1>3, SignalShape
  <1>5. /\ Ends(Batch(r.id) \o (Signal \o proc.queue)) = {r.id}
        /\ Awaits(Batch(r.id) \o (Signal \o proc.queue))
    BY <1>1, <1>2, <1>4, BatchShape
  <1>6. Ends(proc.queue) = {}
    <2>1. PICK f \in BOOLEAN : f = chain.draining
      BY <1>2
    <2>2. QED BY <2>1, <1>2, ShapeFacts
  <1>7. QED BY <1>2, <1>5, <1>6 DEF DidReplay, Replays, ProcIs

LEMMA OverlayReplay ==
    ASSUME TypeInv, BufferInv, OverlayInv, NEW r \in overlay.resolutions, DidReplay(r)
    PROVE  OverlayInv'
  <1> SUFFICES ASSUME Sane' PROVE OverlayInv'
    BY DEF OverlayInv
  <1>1. Sane
    BY DEF Sane, DidReplay, Local
  <1>2. Ends(proc'.queue) = {r.id}
    BY <1>1, ReplayFacts
  <1>3. OverlayIs(overlay.prev, overlay.inFlight, overlay.current,
                  Others(r) \cup {Stage(r, "replay")})
    BY DEF DidReplay, Replays
  <1>4. /\ OverlayOK(overlay.resolutions, overlay.inFlight, overlay.current, Ends(proc.queue))
        /\ Seen /\ r.at = "hold"
    BY <1>1 DEF OverlayInv, DidReplay
  <1>5. Stage(r, "replay").id = r.id /\ Stage(r, "replay").at = "replay"
        /\ Stage(r, "replay").aborted = r.aborted
    BY DEF Stage
  <1>6. OverlayOK(Others(r) \cup {Stage(r, "replay")}, overlay.inFlight, overlay.current, {r.id})
    <2>1. r.id = overlay.current /\ overlay.inFlight /\ ~r.aborted
      BY <1>4 DEF OverlayOK
    <2>2. QED BY <1>4, <1>5, <2>1 DEF OverlayOK, Others
  <1>7. Seen'
    BY <1>3, <1>4, SeenKept DEF DidReplay, Local, OverlayIs
  <1>8. QED BY <1>2, <1>3, <1>6, <1>7 DEF OverlayInv, OverlayIs

LEMMA OverlayFinish ==
    ASSUME TypeInv, OverlayInv, NEW r \in overlay.resolutions, DidFinish(r)
    PROVE  OverlayInv'
  <1> SUFFICES ASSUME Sane' PROVE OverlayInv'
    BY DEF OverlayInv
  <1>1. Sane /\ proc' = proc
    BY DEF Sane, DidFinish, Local
  <1>2. OverlayIs(overlay.prev, FALSE, CurrentBut(r), Others(r)) /\ r.at \in {"hold", "impact"}
    BY DEF DidFinish, Ended
  <1>3. /\ OverlayOK(overlay.resolutions, overlay.inFlight, overlay.current, Ends(proc.queue))
        /\ Seen
    BY <1>1 DEF OverlayInv
  <1>4. r.id = overlay.current
    BY <1>2, <1>3 DEF OverlayOK
  <1>5. OverlayOK(Others(r), FALSE, CurrentBut(r), Ends(proc.queue))
    <2>1. \A o \in Others(r) : o.at \notin {"hold", "impact"}
      BY <1>3, <1>4 DEF OverlayOK, Others
    <2>2. \A n \in Ends(proc.queue) : n = 0
      BY <1>2, <1>3, <1>4 DEF OverlayOK
    <2>3. QED BY <1>3, <2>1, <2>2 DEF OverlayOK, Others
  <1>6. Seen'
    BY <1>2, <1>3, SeenKept DEF DidFinish, Local, OverlayIs
  <1>7. QED BY <1>1, <1>2, <1>5, <1>6 DEF OverlayInv, OverlayIs

LEMMA OverlayLinks ==
    ASSUME TypeInv, BufferInv, OverlayInv, DidLinksEnd \/ DidLinksNew \/ DidLinksSee
    PROVE  OverlayInv'
  <1> SUFFICES ASSUME Sane' PROVE OverlayInv'
    BY DEF OverlayInv
  <1>1. Sane /\ proc' = proc
    BY DEF Sane, DidLinksEnd, DidLinksNew, DidLinksSee, DidLinks
  <1>2. OverlayOK(overlay.resolutions, overlay.inFlight, overlay.current, Ends(proc.queue))
    BY <1>1 DEF OverlayInv
  <1>3. Seen'
    BY <1>1 DEF Seen, DidLinksEnd, DidLinksNew, DidLinksSee, OverlayIs
  <1>4. CASE DidLinksEnd
    <2>1. OverlayIs(proc.links, FALSE, 0, Leftover)
      BY <1>4 DEF DidLinksEnd
    <2>2. Ends(proc.queue) = {}
      <3>1. ~chain.draining /\ Shape(proc.queue, chain.draining) /\ chain.draining \in BOOLEAN
        BY <1>1, <1>4, FieldsAreTyped DEF BufferInv, BufferOK, DidLinksEnd, Fields
      <3>2. QED BY <3>1, ShapeFacts
    <2>3. \A r \in Leftover : \E o \in overlay.resolutions :
             o.id = r.id /\ r.at = o.at
             /\ (o.id = overlay.current => o.at = "replay" /\ r = Aborted(o))
             /\ (o.id # overlay.current => r = o)
      BY DEF Leftover, Aborted
    <2>4. \A r \in Leftover : r.at \notin {"hold", "impact"}
      BY <2>3, <1>2 DEF OverlayOK
    <2>5. \A r, o \in Leftover : r.id = o.id => r = o
      BY <2>3, <1>2 DEF OverlayOK
    <2>6. OverlayOK(Leftover, FALSE, 0, {})
      BY <2>4, <2>5 DEF OverlayOK
    <2>7. QED BY <1>1, <1>3, <2>1, <2>2, <2>6 DEF OverlayInv, OverlayIs
  <1>5. CASE DidLinksNew
    <2>1. PICK id \in Nat \ {0} :
             /\ \A r \in overlay.resolutions : r.id # id
             /\ OverlayIs(proc.links, TRUE, id, overlay.resolutions \cup {Newborn(id)})
      BY <1>5 DEF DidLinksNew
    <2>2. ~overlay.inFlight
      BY <1>5 DEF DidLinksNew
    <2>3. \A r \in overlay.resolutions : r.at \notin {"hold", "impact"}
      BY <1>2, <2>2 DEF OverlayOK
    <2>4. \A n \in Ends(proc.queue) : n = 0
      BY <1>2, <2>2 DEF OverlayOK
    <2>5. Newborn(id).id = id /\ ~Newborn(id).aborted
      BY DEF Newborn
    <2>6. OverlayOK(overlay.resolutions \cup {Newborn(id)}, TRUE, id, Ends(proc.queue))
      BY <1>2, <2>1, <2>3, <2>4, <2>5 DEF OverlayOK
    <2>7. QED BY <1>1, <1>3, <2>1, <2>6 DEF OverlayInv, OverlayIs
  <1>6. CASE DidLinksSee
    BY <1>1, <1>2, <1>3, <1>6 DEF DidLinksSee, OverlayInv, OverlayIs
  <1>7. QED BY <1>4, <1>5, <1>6

LEMMA OverlayPage ==
    ASSUME TypeInv, BufferInv, OverlayInv, PageDid
    PROVE  OverlayInv'
  <1>1. CASE DidAwait \/ DidQueue \/ DidResume \/ DidDraws
    <2>1. /\ overlay' = overlay /\ proc' = proc /\ races' = races
          /\ "links" \in dirty => "links" \in dirty'
      BY <1>1 DEF DidAwait, DidQueue, DidResume, DidDraws, Aside, Local
    <2>2. QED BY <2>1, OverlaySame
  <1>2. CASE DidFire
    BY <1>2 DEF DidFire, OverlayInv, Sane
  <1>3. QED BY <1>1, <1>2, OverlayLinks, OverlayFinish, OverlayReplay DEF PageDid

LEMMA OverlayReceives ==
    ASSUME TypeInv, BufferInv, OverlayInv, Untouched, NEW e \in Entries, ~Own(e),
           NEW q, q = Append(proc.queue, e) \/ q = proc.queue, NEW ls, NEW ph, NEW ps, NEW g,
           Receives(q, ls, ph, ps, g)
    PROVE  OverlayInv'
  <1> SUFFICES ASSUME Sane' PROVE OverlayInv'
    BY DEF OverlayInv
  <1>1. Sane /\ overlay' = overlay /\ races' = races /\ dirty' = dirty \cup Wakes
    BY DEF Sane, Untouched
  <1>2. chain.draining \in BOOLEAN /\ proc.queue \in Seq(Entries)
    BY FieldsAreTyped DEF Fields
  <1>3. Shape(proc.queue, chain.draining)
    BY <1>1 DEF BufferInv, BufferOK
  <1>4. Ends(Append(proc.queue, e)) = Ends(proc.queue)
    BY <1>2, <1>3, ShapeAppend
  <1>5. Ends(proc'.queue) = Ends(proc.queue)
    BY <1>4 DEF Receives, ProcIs
  <1>6. QED BY <1>1, <1>5, OverlaySame

LEMMA OverlayServer ==
    ASSUME TypeInv, BufferInv, OverlayInv, ServerDid
    PROVE  OverlayInv'
  <1>0. server.links \in Nat /\ server.events + 1 \in Nat
    BY FieldsAreTyped DEF Fields
  <1>1. CASE DidChaining
    <2>1. Entry("chaining", <<server.links>>) \in Entries /\ ~Own(Entry("chaining", <<server.links>>))
      BY <1>0, EntryIs
    <2>2. QED BY <1>1, <2>1, OverlayReceives DEF DidChaining
  <1>2. CASE DidPrompt
    BY <1>2, EndIs, OverlayReceives DEF DidPrompt
  <1>3. CASE DidSendSolving
    <2>1. /\ Entry("solving", <<server.unsolved - 1>>) \in Entries
          /\ ~Own(Entry("solving", <<server.unsolved - 1>>))
      BY <1>3, EntryIs DEF DidSendSolving
    <2>2. QED BY <1>3, <2>1, OverlayReceives DEF DidSendSolving
  <1>4. CASE DidSendSolved
    <2>1. /\ Entry("solved", <<server.solving>>) \in Entries
          /\ ~Own(Entry("solved", <<server.solving>>))
      BY <1>4, EntryIs DEF DidSendSolved
    <2>2. QED BY <1>4, <2>1, OverlayReceives DEF DidSendSolved
  <1>5. CASE DidSendEnd
    BY <1>5, EndIs, OverlayReceives DEF DidSendEnd
  <1>6. CASE DidSendEvent
    <2>1. /\ Entry("event", <<server.events + 1>>) \in Entries
          /\ ~Own(Entry("event", <<server.events + 1>>))
      BY <1>0, EntryIs
    <2>2. QED BY <1>6, <2>1, OverlayReceives DEF DidSendEvent
  <1>7. CASE DidDisconnect
    BY <1>7, OverlaySame DEF DidDisconnect
  <1>8. CASE DidResync \/ DidFlush
    <2>1. ASSUME NEW ls, NEW ph, ResetTo(ls, ph) PROVE OverlayInv'
      <3>1. Ends(proc'.queue) = {} /\ "links" \in dirty'
        BY <2>1, EmptyShape DEF ResetTo, ProcIs
      <3>2. QED BY <2>1, <3>1, OverlaySame DEF ResetTo
    <2>2. CASE UNCHANGED <<proc, runner, chain, draw, overlay, dirty, log, races>>
      BY <2>2, OverlaySame
    <2>3. QED BY <1>8, <2>1, <2>2 DEF DidResync, DidFlush
  <1>9. QED
    BY <1>1, <1>2, <1>3, <1>4, <1>5, <1>6, <1>7, <1>8 DEF ServerDid

LEMMA OverlayKept ==
    ASSUME TypeInv, BufferInv, OverlayInv, LoopDid \/ PageDid \/ ServerDid
    PROVE  OverlayInv'
  BY OverlayLoop, OverlayPage, OverlayServer

-----------------------------------------------------------------------------
(* The chain along the queue. *)

\* The chain of the server as a message leaves it: its generation counts the ends before it.
ChainOf(phase, links, unsolved, solving, gen) ==
    [phase |-> phase, links |-> links, unsolved |-> unsolved, solving |-> solving, gen |-> gen]
IsChain(x) ==
    /\ x = ChainOf(x.phase, x.links, x.unsolved, x.solving, x.gen)
    /\ x.phase \in Phases /\ x.links \in Nat /\ x.unsolved \in Nat /\ x.gen \in Nat
    /\ x.solving \in Nat \cup {NoLink}
ServerChain(g) == ChainOf(server.phase, server.links, server.unsolved, server.solving, g)

\* The messages that the server may send of the chain x, and the chain after one.
Allowed(x, e) ==
    CASE e.kind = "chaining" -> x.phase # "resolving" /\ e.of = <<x.links>>
      [] e.kind = "solving" -> x.unsolved > 0 /\ x.solving = NoLink /\ e.of = <<x.unsolved - 1>>
      [] e.kind = "solved" -> x.solving # NoLink /\ e.of = <<x.solving>>
      [] e.kind = "end" -> x.phase = "resolving" /\ x.unsolved = 0
      [] e.kind = "event" -> x.phase # "resolving" \/ x.solving # NoLink \/ x.unsolved = 0
      [] OTHER -> TRUE
After(x, e) ==
    CASE e.kind = "chaining" ->
            ChainOf("building", x.links + 1, x.unsolved + 1, x.solving, x.gen)
      [] e.kind = "solving" ->
            ChainOf("resolving", x.links, x.unsolved, x.unsolved - 1, x.gen)
      [] e.kind = "solved" -> ChainOf(x.phase, x.links, x.unsolved - 1, NoLink, x.gen)
      [] e.kind = "end" -> ChainOf("idle", 0, 0, NoLink, x.gen + 1)
      [] OTHER -> x

\* The links of x that are not solved are among the links of the page, or pending.
Known(x, links, pending) ==
    \A i \in Nat : i < x.unsolved =>
        \/ [idx |-> i, gen |-> x.gen] \in links
        \/ x.phase # "resolving" /\ [idx |-> i, gen |-> x.gen] \in pending
Good(x, links, pending) == IsChain(x) /\ WellFormed(x) /\ Known(x, links, pending)

\* The chain y may come after x: a chain that resolves loses links until it ends.
Later(x, y) ==
    /\ x.gen <= y.gen
    /\ x.gen = y.gen /\ x.phase = "resolving" => y.phase = "resolving" /\ y.unsolved <= x.unsolved

\* The queue takes the chain from s to t.
Carries(st, q, s, t, links, pending) ==
    /\ st[0] = s /\ st[Len(q)] = t
    /\ \A j \in 0 .. Len(q) : Good(st[j], links, pending)
    /\ \A i, j \in 0 .. Len(q) : i <= j => Later(st[i], st[j])
    /\ \A j \in 1 .. Len(q) : Allowed(st[j - 1], q[j]) /\ st[j] = After(st[j - 1], q[j])
Carried(q, s, t, links, pending) == \E st : Carries(st, q, s, t, links, pending)

LEMMA LaterRefl == \A x : IsChain(x) => Later(x, x)
  BY DEF IsChain, Later

LEMMA LaterTrans ==
    \A x, y, z : IsChain(x) /\ IsChain(y) /\ IsChain(z) /\ Later(x, y) /\ Later(y, z) => Later(x, z)
  BY DEF IsChain, Later

LEMMA ChainIsIt ==
    ASSUME NEW p \in Phases, NEW n \in Nat, NEW u \in Nat, NEW v \in Nat \cup {NoLink}, NEW g \in Nat
    PROVE  /\ IsChain(ChainOf(p, n, u, v, g))
           /\ ChainOf(p, n, u, v, g).phase = p /\ ChainOf(p, n, u, v, g).links = n
           /\ ChainOf(p, n, u, v, g).unsolved = u /\ ChainOf(p, n, u, v, g).solving = v
           /\ ChainOf(p, n, u, v, g).gen = g
  BY DEF ChainOf, IsChain

\* What a message does to the chain.
Turns(x, y, phase, links, unsolved, solving, gen) ==
    /\ y = ChainOf(phase, links, unsolved, solving, gen) /\ IsChain(y) /\ WellFormed(y)
    /\ y.phase = phase /\ y.links = links /\ y.unsolved = unsolved /\ y.solving = solving
    /\ y.gen = gen /\ Later(x, y)
LEMMA AfterIs ==
    ASSUME NEW x, NEW e, IsChain(x), WellFormed(x), Allowed(x, e)
    PROVE  /\ e.kind = "chaining" =>
                 /\ x.phase # "resolving" /\ x.unsolved = x.links /\ e.of = <<x.links>>
                 /\ Turns(x, After(x, e), "building", x.links + 1, x.unsolved + 1, x.solving, x.gen)
           /\ e.kind = "solving" =>
                 /\ x.unsolved > 0 /\ x.solving = NoLink /\ e.of = <<x.unsolved - 1>>
                 /\ x.unsolved - 1 \in Nat
                 /\ Turns(x, After(x, e), "resolving", x.links, x.unsolved, x.unsolved - 1, x.gen)
           /\ e.kind = "solved" =>
                 /\ x.solving # NoLink /\ e.of = <<x.solving>> /\ x.phase = "resolving"
                 /\ x.solving = x.unsolved - 1 /\ x.unsolved > 0
                 /\ Turns(x, After(x, e), x.phase, x.links, x.unsolved - 1, NoLink, x.gen)
           /\ e.kind = "end" =>
                 /\ x.phase = "resolving" /\ x.unsolved = 0 /\ x.solving = NoLink
                 /\ Turns(x, After(x, e), "idle", 0, 0, NoLink, x.gen + 1)
           /\ e.kind = "event" =>
                 /\ x.phase # "resolving" \/ x.solving # NoLink \/ x.unsolved = 0
                 /\ After(x, e) = x
           /\ e.kind \notin {"chaining", "solving", "solved", "end"} => After(x, e) = x
  <1>1. /\ x.phase \in Phases /\ x.links \in Nat /\ x.unsolved \in Nat /\ x.gen \in Nat
        /\ x.solving \in Nat \cup {NoLink} /\ NoLink = -1
    BY DEF IsChain, NoLink
  <1>2. ASSUME NEW p \in Phases, NEW n \in Nat, NEW u \in Nat, NEW v \in Nat \cup {NoLink},
               NEW g \in Nat,
               p # "resolving" => u = n /\ v = NoLink, p = "idle" => n = 0,
               v # NoLink => u > 0 /\ v = u - 1, u <= n,
               x.gen <= g,
               x.gen = g /\ x.phase = "resolving" => p = "resolving" /\ u <= x.unsolved
        PROVE  Turns(x, ChainOf(p, n, u, v, g), p, n, u, v, g)
    <2> DEFINE y == ChainOf(p, n, u, v, g)
    <2>1. IsChain(y) /\ y.phase = p /\ y.links = n /\ y.unsolved = u /\ y.solving = v /\ y.gen = g
      BY ChainIsIt
    <2> HIDE DEF y
    <2>2. WellFormed(y)
      BY <2>1, <1>2 DEF WellFormed
    <2>3. Later(x, y)
      BY <2>1, <1>2 DEF Later
    <2>4. QED BY <2>1, <2>2, <2>3 DEF Turns, y
  <1>3. ASSUME e.kind = "chaining"
        PROVE  /\ x.phase # "resolving" /\ x.unsolved = x.links /\ e.of = <<x.links>>
               /\ Turns(x, After(x, e), "building", x.links + 1, x.unsolved + 1, x.solving, x.gen)
    <2>1. x.phase # "resolving" /\ e.of = <<x.links>>
      BY <1>3 DEF Allowed
    <2>2. x.unsolved = x.links /\ x.solving = NoLink
      BY <2>1 DEF WellFormed
    <2>3. After(x, e) = ChainOf("building", x.links + 1, x.unsolved + 1, x.solving, x.gen)
      BY <1>3 DEF After
    <2>4. Turns(x, ChainOf("building", x.links + 1, x.unsolved + 1, x.solving, x.gen),
                "building", x.links + 1, x.unsolved + 1, x.solving, x.gen)
      BY <1>1, <1>2, <2>1, <2>2 DEF Phases
    <2>5. QED BY <2>1, <2>2, <2>3, <2>4
  <1>4. ASSUME e.kind = "solving"
        PROVE  /\ x.unsolved > 0 /\ x.solving = NoLink /\ e.of = <<x.unsolved - 1>>
               /\ x.unsolved - 1 \in Nat
               /\ Turns(x, After(x, e), "resolving", x.links, x.unsolved, x.unsolved - 1, x.gen)
    <2>1. x.unsolved > 0 /\ x.solving = NoLink /\ e.of = <<x.unsolved - 1>>
      BY <1>4 DEF Allowed
    <2>2. x.unsolved - 1 \in Nat /\ x.unsolved <= x.links
      BY <1>1, <2>1 DEF WellFormed
    <2>3. After(x, e) = ChainOf("resolving", x.links, x.unsolved, x.unsolved - 1, x.gen)
      BY <1>4 DEF After
    <2>4. Turns(x, ChainOf("resolving", x.links, x.unsolved, x.unsolved - 1, x.gen),
                "resolving", x.links, x.unsolved, x.unsolved - 1, x.gen)
      BY <1>1, <1>2, <2>1, <2>2 DEF Phases
    <2>5. QED BY <2>1, <2>2, <2>3, <2>4
  <1>5. ASSUME e.kind = "solved"
        PROVE  /\ x.solving # NoLink /\ e.of = <<x.solving>> /\ x.phase = "resolving"
               /\ x.solving = x.unsolved - 1 /\ x.unsolved > 0
               /\ Turns(x, After(x, e), x.phase, x.links, x.unsolved - 1, NoLink, x.gen)
    <2>1. x.solving # NoLink /\ e.of = <<x.solving>>
      BY <1>5 DEF Allowed
    <2>2. /\ x.phase = "resolving" /\ x.solving = x.unsolved - 1 /\ x.unsolved > 0
          /\ x.unsolved <= x.links /\ x.unsolved - 1 \in Nat
      BY <1>1, <2>1 DEF WellFormed
    <2>3. After(x, e) = ChainOf(x.phase, x.links, x.unsolved - 1, NoLink, x.gen)
      BY <1>5 DEF After
    <2>4. Turns(x, ChainOf(x.phase, x.links, x.unsolved - 1, NoLink, x.gen),
                x.phase, x.links, x.unsolved - 1, NoLink, x.gen)
      BY <1>1, <1>2, <2>1, <2>2 DEF Phases
    <2>5. QED BY <2>1, <2>2, <2>3, <2>4
  <1>6. ASSUME e.kind = "end"
        PROVE  /\ x.phase = "resolving" /\ x.unsolved = 0 /\ x.solving = NoLink
               /\ Turns(x, After(x, e), "idle", 0, 0, NoLink, x.gen + 1)
    <2>1. x.phase = "resolving" /\ x.unsolved = 0
      BY <1>6 DEF Allowed
    <2>2. x.solving = NoLink
      BY <1>1, <2>1 DEF WellFormed
    <2>3. After(x, e) = ChainOf("idle", 0, 0, NoLink, x.gen + 1)
      BY <1>6 DEF After
    <2>4. Turns(x, ChainOf("idle", 0, 0, NoLink, x.gen + 1), "idle", 0, 0, NoLink, x.gen + 1)
      BY <1>1, <1>2 DEF Phases
    <2>5. QED BY <2>1, <2>2, <2>3, <2>4
  <1>7. e.kind = "event" =>
           /\ x.phase # "resolving" \/ x.solving # NoLink \/ x.unsolved = 0
           /\ After(x, e) = x
    BY DEF Allowed, After
  <1>8. e.kind \notin {"chaining", "solving", "solved", "end"} => After(x, e) = x
    BY DEF After
  <1>9. QED BY <1>3, <1>4, <1>5, <1>6, <1>7, <1>8

-----------------------------------------------------------------------------
LEMMA CarriedEmpty ==
    ASSUME NEW s, NEW ls, NEW ps, Good(s, ls, ps)
    PROVE  Carried(<<>>, s, s, ls, ps)
  <1> DEFINE st == [j \in 0 .. 0 |-> s]
  <1>1. Later(s, s)
    BY LaterRefl DEF Good
  <1>2. Len(<<>>) = 0 /\ st[0] = s
    OBVIOUS
  <1>3. Carries(st, <<>>, s, s, ls, ps)
    BY <1>1, <1>2 DEF Carries
  <1>4. QED BY <1>3 DEF Carried

LEMMA CarriedEnds ==
    ASSUME NEW q \in Seq(Entries), NEW s, NEW t, NEW ls, NEW ps, Carried(q, s, t, ls, ps)
    PROVE  Good(s, ls, ps) /\ Good(t, ls, ps) /\ Later(s, t)
  <1>1. PICK st : Carries(st, q, s, t, ls, ps)
    BY DEF Carried
  <1>2. 0 \in 0 .. Len(q) /\ Len(q) \in 0 .. Len(q) /\ 0 <= Len(q)
    OBVIOUS
  <1>3. QED BY <1>1, <1>2 DEF Carries

LEMMA CarriedTail ==
    ASSUME NEW q \in Seq(Entries), q # <<>>, NEW s, NEW t, NEW ls, NEW ps,
           Carried(q, s, t, ls, ps), NEW u, u = After(s, Head(q))
    PROVE  /\ Allowed(s, Head(q)) /\ Good(s, ls, ps) /\ Good(u, ls, ps)
           /\ Carried(Tail(q), u, t, ls, ps)
  <1>1. PICK st : Carries(st, q, s, t, ls, ps)
    BY DEF Carried
  <1> DEFINE n == Len(q)
             m == Len(Tail(q))
             su == [j \in 0 .. m |-> st[j + 1]]
  <1>2. /\ m = n - 1 /\ n \in Nat /\ n > 0 /\ Head(q) = q[1]
        /\ \A j \in 1 .. n - 1 : Tail(q)[j] = q[j + 1]
    BY TailIs
  <1>3. st[0] = s /\ st[n] = t
    BY <1>1 DEF Carries
  <1>4. 0 \in 0 .. n /\ 1 \in 0 .. n /\ 1 \in 1 .. n /\ 1 - 1 = 0
    BY <1>2
  <1>5. Good(st[0], ls, ps) /\ Good(st[1], ls, ps) /\ Allowed(st[1 - 1], q[1])
        /\ st[1] = After(st[1 - 1], q[1])
    BY <1>1, <1>4 DEF Carries
  <1>6. st[1] = u
    BY <1>2, <1>3, <1>4, <1>5
  <1>7. \A j \in 0 .. m : su[j] = st[j + 1] /\ j + 1 \in 0 .. n
    BY <1>2
  <1> HIDE DEF su
  <1>8. su[0] = u /\ su[m] = t
    <2>1. 0 \in 0 .. m /\ m \in 0 .. m /\ 0 + 1 = 1 /\ m + 1 = n
      BY <1>2
    <2>2. QED BY <2>1, <1>7, <1>6, <1>3
  <1>9. \A j \in 0 .. m : Good(su[j], ls, ps)
    BY <1>1, <1>7 DEF Carries
  <1>10. \A i, j \in 0 .. m : i <= j => Later(su[i], su[j])
    <2> SUFFICES ASSUME NEW i \in 0 .. m, NEW j \in 0 .. m, i <= j PROVE Later(su[i], su[j])
      OBVIOUS
    <2>1. i + 1 \in 0 .. n /\ j + 1 \in 0 .. n /\ i + 1 <= j + 1
      BY <1>2
    <2>2. Later(st[i + 1], st[j + 1])
      BY <1>1, <2>1 DEF Carries
    <2>3. QED BY <2>2, <1>7
  <1>11. \A j \in 1 .. m : Allowed(su[j - 1], Tail(q)[j]) /\ su[j] = After(su[j - 1], Tail(q)[j])
    <2> SUFFICES ASSUME NEW j \in 1 .. m
                 PROVE  Allowed(su[j - 1], Tail(q)[j]) /\ su[j] = After(su[j - 1], Tail(q)[j])
      OBVIOUS
    <2>1. j + 1 \in 1 .. n /\ (j + 1) - 1 = j /\ j - 1 \in 0 .. m /\ (j - 1) + 1 = j /\ j \in 0 .. m
          /\ j \in 1 .. n - 1
      BY <1>2
    <2>2. Allowed(st[(j + 1) - 1], q[j + 1]) /\ st[j + 1] = After(st[(j + 1) - 1], q[j + 1])
      BY <1>1, <2>1 DEF Carries
    <2>3. su[j - 1] = st[j] /\ su[j] = st[j + 1] /\ Tail(q)[j] = q[j + 1]
      BY <1>7, <2>1, <1>2
    <2>4. QED BY <2>1, <2>2, <2>3
  <1>12. Carries(su, Tail(q), u, t, ls, ps)
    BY <1>8, <1>9, <1>10, <1>11 DEF Carries
  <1>13. QED BY <1>2, <1>3, <1>4, <1>5, <1>6, <1>12 DEF Carried

\* The links of the page change, and none that a later chain needs is lost.
LEMMA CarriedLinks ==
    ASSUME NEW q \in Seq(Entries), NEW s, NEW t, NEW ls, NEW ps, Carried(q, s, t, ls, ps),
           NEW ls2, NEW ps2,
           \A y : Later(s, y) /\ Good(y, ls, ps) => Known(y, ls2, ps2)
    PROVE  Carried(q, s, t, ls2, ps2)
  <1>1. PICK st : Carries(st, q, s, t, ls, ps)
    BY DEF Carried
  <1>2. \A j \in 0 .. Len(q) : Good(st[j], ls2, ps2)
    <2> SUFFICES ASSUME NEW j \in 0 .. Len(q) PROVE Good(st[j], ls2, ps2)
      OBVIOUS
    <2>1. 0 \in 0 .. Len(q) /\ 0 <= j
      OBVIOUS
    <2>2. st[0] = s /\ Later(st[0], st[j]) /\ Good(st[j], ls, ps)
      BY <1>1, <2>1 DEF Carries
    <2>3. QED BY <2>2 DEF Good
  <1>3. Carries(st, q, s, t, ls2, ps2)
    BY <1>1, <1>2 DEF Carries
  <1>4. QED BY <1>3 DEF Carried

\* A message goes behind the queue.
LEMMA CarriedAppend ==
    ASSUME NEW q \in Seq(Entries), NEW e \in Entries, NEW s, NEW t, NEW ls, NEW ps,
           Carried(q, s, t, ls, ps), Allowed(t, e), NEW u, u = After(t, e), Good(u, ls, ps),
           Later(t, u)
    PROVE  Carried(Append(q, e), s, u, ls, ps)
  <1>1. PICK st : Carries(st, q, s, t, ls, ps)
    BY DEF Carried
  <1> DEFINE n == Len(q)
             p == Append(q, e)
             su == [j \in 0 .. n + 1 |-> IF j = n + 1 THEN u ELSE st[j]]
  <1>2. /\ Len(p) = n + 1 /\ n \in Nat /\ p[n + 1] = e /\ \A j \in 1 .. n : p[j] = q[j]
    BY AppendIs
  <1>3. su[n + 1] = u /\ \A j \in 0 .. n : su[j] = st[j]
    BY <1>2
  <1> HIDE DEF su, p
  <1>4. st[0] = s /\ st[n] = t
    BY <1>1 DEF Carries
  <1>5. su[0] = s /\ su[Len(p)] = u
    BY <1>2, <1>3, <1>4
  <1>6. \A j \in 0 .. n : Good(su[j], ls, ps) /\ Later(su[j], t)
    <2> SUFFICES ASSUME NEW j \in 0 .. n PROVE Good(su[j], ls, ps) /\ Later(su[j], t)
      OBVIOUS
    <2>1. n \in 0 .. n /\ j <= n
      BY <1>2
    <2>2. Good(st[j], ls, ps) /\ Later(st[j], st[n])
      BY <1>1, <2>1 DEF Carries
    <2>3. QED BY <1>3, <1>4, <2>2
  <1>7. IsChain(t) /\ IsChain(u)
    BY <1>2, <1>3, <1>4, <1>6 DEF Good
  <1>8. \A j \in 0 .. n : Later(su[j], u)
    BY <1>6, <1>7, LaterTrans DEF Good
  <1>9. \A j \in 0 .. Len(p) : Good(su[j], ls, ps)
    BY <1>2, <1>3, <1>6
  <1>10. \A i, j \in 0 .. Len(p) : i <= j => Later(su[i], su[j])
    <2> SUFFICES ASSUME NEW i \in 0 .. n + 1, NEW j \in 0 .. n + 1, i <= j
                 PROVE  Later(su[i], su[j])
      BY <1>2
    <2>1. CASE j \in 0 .. n
      <3>1. i \in 0 .. n
        BY <2>1, <1>2
      <3>2. Later(st[i], st[j])
        BY <1>1, <2>1, <3>1 DEF Carries
      <3>3. QED BY <1>3, <2>1, <3>1, <3>2
    <2>2. CASE j = n + 1 /\ i \in 0 .. n
      BY <2>2, <1>3, <1>8
    <2>3. CASE j = n + 1 /\ i = n + 1
      BY <2>3, <1>3, <1>7, LaterRefl
    <2>4. QED BY <2>1, <2>2, <2>3, <1>2
  <1>11. \A j \in 1 .. Len(p) : Allowed(su[j - 1], p[j]) /\ su[j] = After(su[j - 1], p[j])
    <2> SUFFICES ASSUME NEW j \in 1 .. n + 1
                 PROVE  Allowed(su[j - 1], p[j]) /\ su[j] = After(su[j - 1], p[j])
      BY <1>2
    <2>1. CASE j \in 1 .. n
      <3>1. j - 1 \in 0 .. n /\ j \in 0 .. n
        BY <2>1, <1>2
      <3>2. Allowed(st[j - 1], q[j]) /\ st[j] = After(st[j - 1], q[j])
        BY <1>1, <2>1 DEF Carries
      <3>3. QED BY <1>2, <1>3, <2>1, <3>1, <3>2
    <2>2. CASE j = n + 1
      <3>1. j - 1 = n /\ n \in 0 .. n
        BY <2>2, <1>2
      <3>2. su[j - 1] = t /\ p[j] = e /\ su[j] = u
        BY <2>2, <3>1, <1>2, <1>3, <1>4
      <3>3. QED BY <3>2
    <2>3. QED BY <2>1, <2>2, <1>2
  <1>12. Carries(su, p, s, u, ls, ps)
    BY <1>5, <1>9, <1>10, <1>11 DEF Carries
  <1>13. QED BY <1>12 DEF Carried, p

\* An entry that is no message goes before it.
LEMMA CarriedOwn ==
    ASSUME NEW q \in Seq(Entries), NEW e \in Entries, Own(e), NEW s, NEW t, NEW ls, NEW ps,
           Carried(q, s, t, ls, ps)
    PROVE  Carried(<<e>> \o q, s, t, ls, ps)
  <1>1. PICK st : Carries(st, q, s, t, ls, ps)
    BY DEF Carried
  <1> DEFINE n == Len(q)
             p == <<e>> \o q
             su == [j \in 0 .. n + 1 |-> IF j = 0 THEN s ELSE st[j - 1]]
  <1>2. /\ Len(p) = n + 1 /\ n \in Nat /\ p[1] = e /\ \A j \in 1 .. n : p[j + 1] = q[j]
    BY ConsIs
  <1>3. su[0] = s /\ \A j \in 1 .. n + 1 : su[j] = st[j - 1]
    BY <1>2
  <1> HIDE DEF su, p
  <1>4. st[0] = s /\ st[n] = t
    BY <1>1 DEF Carries
  <1>5. su[1] = s /\ su[n + 1] = t
    <2>1. 1 \in 1 .. n + 1 /\ 1 - 1 = 0 /\ n + 1 \in 1 .. n + 1 /\ (n + 1) - 1 = n
      BY <1>2
    <2>2. QED BY <2>1, <1>3, <1>4
  <1>6. \A j \in 1 .. n + 1 : Good(su[j], ls, ps) /\ Later(su[0], su[j])
    <2> SUFFICES ASSUME NEW j \in 1 .. n + 1 PROVE Good(su[j], ls, ps) /\ Later(su[0], su[j])
      OBVIOUS
    <2>1. j - 1 \in 0 .. n /\ 0 \in 0 .. n /\ 0 <= j - 1
      BY <1>2
    <2>2. Good(st[j - 1], ls, ps) /\ Later(st[0], st[j - 1])
      BY <1>1, <2>1 DEF Carries
    <2>3. QED BY <1>3, <1>4, <2>2
  <1>7. Good(s, ls, ps) /\ Later(s, s)
    <2>1. 1 \in 1 .. n + 1
      BY <1>2
    <2>2. QED BY <1>5, <1>6, <2>1, LaterRefl DEF Good
  <1>8. \A j \in 0 .. Len(p) : Good(su[j], ls, ps)
    BY <1>2, <1>3, <1>6, <1>7
  <1>9. \A i, j \in 0 .. Len(p) : i <= j => Later(su[i], su[j])
    <2> SUFFICES ASSUME NEW i \in 0 .. n + 1, NEW j \in 0 .. n + 1, i <= j
                 PROVE  Later(su[i], su[j])
      BY <1>2
    <2>1. CASE i = 0 /\ j = 0
      BY <2>1, <1>3, <1>7
    <2>2. CASE i = 0 /\ j \in 1 .. n + 1
      BY <2>2, <1>6
    <2>3. CASE i \in 1 .. n + 1
      <3>1. i - 1 \in 0 .. n /\ j - 1 \in 0 .. n /\ i - 1 <= j - 1 /\ j \in 1 .. n + 1
        BY <2>3, <1>2
      <3>2. Later(st[i - 1], st[j - 1])
        BY <1>1, <3>1 DEF Carries
      <3>3. QED BY <1>3, <2>3, <3>1, <3>2
    <2>4. QED BY <2>1, <2>2, <2>3, <1>2
  <1>10. Allowed(s, e) /\ After(s, e) = s
    BY DEF Own, Allowed, After
  <1>11. \A j \in 1 .. Len(p) : Allowed(su[j - 1], p[j]) /\ su[j] = After(su[j - 1], p[j])
    <2> SUFFICES ASSUME NEW j \in 1 .. n + 1
                 PROVE  Allowed(su[j - 1], p[j]) /\ su[j] = After(su[j - 1], p[j])
      BY <1>2
    <2>1. CASE j = 1
      <3>1. j - 1 = 0
        BY <2>1
      <3>2. su[j - 1] = s /\ p[j] = e /\ su[j] = s
        BY <2>1, <3>1, <1>2, <1>3, <1>5
      <3>3. QED BY <3>2, <1>10
    <2>2. CASE j \in 2 .. n + 1
      <3>1. j - 1 \in 1 .. n /\ j - 1 \in 1 .. n + 1 /\ (j - 1) + 1 = j /\ j \in 1 .. n + 1
        BY <2>2, <1>2
      <3>2. Allowed(st[(j - 1) - 1], q[j - 1]) /\ st[j - 1] = After(st[(j - 1) - 1], q[j - 1])
        BY <1>1, <3>1 DEF Carries
      <3>3. su[j - 1] = st[(j - 1) - 1] /\ su[j] = st[j - 1] /\ p[j] = q[j - 1]
        BY <1>2, <1>3, <3>1
      <3>4. QED BY <3>2, <3>3
    <2>3. QED BY <2>1, <2>2, <1>2
  <1>12. Carries(su, p, s, t, ls, ps)
    BY <1>2, <1>3, <1>5, <1>8, <1>9, <1>11 DEF Carries
  <1>13. QED BY <1>12 DEF Carried, p

-----------------------------------------------------------------------------
(* The chain that the page plays, and the overlay. *)

\* No race of a reset has happened, and no reset is under way.
Fine == ~parked /\ races \cap {"late safety timer", "late flush"} = {}

\* The current resolution is at that stage; it has its batch played.
Cur(at) == \E r \in overlay.resolutions : r.id = overlay.current /\ r.at = at
Playing ==
    \E r \in overlay.resolutions :
        r.id = overlay.current /\ r.at = "replay" /\ ~r.aborted /\ r.id \in Ends(proc.queue)

\* The chain s is the one up to the head of the queue. The page resolves it once its first SOLVING
\* has begun, which the banner puts off.
Phased(s) ==
    /\ proc.phase = "resolving" => s.phase = "resolving"
    /\ chain.deferred = NoLink /\ s.phase = "resolving" => proc.phase = "resolving"
    /\ chain.deferred # NoLink =>
          /\ chain.deferred = s.solving /\ chain.deferred > 0 /\ chain.solved = 0
          /\ chain.buffer = <<>>
    /\ chain.waiting => chain.solved > 0 /\ s.solving = NoLink

\* Events are buffered while a link is solved, after the last, or while the queue waits for the
\* overlay: no SOLVING drops them. The queue waits, or a loop is about to take its turn.
Buffering(s) ==
    chain.buffer # <<>> =>
        /\ chain.deferred = NoLink
        /\ s.solving # NoLink \/ s.unsolved = 0 \/ chain.waiting
        /\ NoOwn(proc.queue) /\ ~draw.busy
        /\ chain.waiting \/ "tick" \in PcsOf(runner)
        /\ ~("ready" \in dirty /\ chain.waiting)

\* While a link is solved no batch of a resolution is in the queue. A batch with its signal means
\* that the overlay has seen the links.
Batching(s) ==
    /\ s.solving # NoLink => Ends(proc.queue) \subseteq {0} /\ ~Awaits(proc.queue)
    /\ Awaits(proc.queue) => ~Fewer /\ (~chain.ready => ~Cur("hold"))

\* The overlay that is not ready is in a resolution, which holds until a link has been solved and
\* while the queue waits.
Resolving ==
    ~chain.ready =>
        /\ proc.phase = "resolving" /\ overlay.inFlight
        /\ Cur("hold") \/ Cur("impact") \/ Playing
        /\ chain.solved = 0 \/ chain.waiting => Cur("hold")

\* In a link that has begun, the queue waits for no signal, and the overlay is ready or holds; a
\* loop that holds may find it otherwise until it goes on.
Holding(s) ==
    /\ s.solving # NoLink /\ chain.deferred = NoLink /\ "hold" \notin PcsOf(runner) =>
          ~runner.armed /\ (chain.ready \/ Cur("hold"))
    /\ ~chain.ready /\ Cur("hold") => ~runner.armed

\* The overlay's signal is not raced by a loop.
Still ==
    /\ "tick" \notin PcsOf(runner) /\ "exit" \notin PcsOf(runner)
    /\ PcsOf(runner) = {} => ~runner.armed /\ ("queue" \in dirty => proc.queue = <<>>)
Signalling(s) ==
    /\ "ready" \in dirty => Still \/ (chain.solved > 0 /\ s.solving = NoLink)
    /\ chain.ready /\ runner.armed =>
          /\ ~chain.waiting
          /\ "tick" \notin PcsOf(runner) /\ "exit" \notin PcsOf(runner)
          /\ PcsOf(runner) = {} => "queue" \notin dirty
          /\ ~Fewer \/ proc.phase # "resolving"

Coupled(s) ==
    /\ Phased(s) /\ Buffering(s) /\ Batching(s) /\ Resolving /\ Holding(s) /\ Signalling(s)

\* What is known before a step.
Context(s) ==
    /\ TypeInv /\ BufferInv /\ OverlayInv /\ Sane
    /\ IsChain(s) /\ WellFormed(s) /\ Coupled(s)

LEMMA QuietIs ==
    Quiet => /\ dirty = {} /\ ~(runner.armed /\ chain.ready)
             /\ "tick" \notin PcsOf(runner) /\ "exit" \notin PcsOf(runner)
  BY DEF Quiet, PcsOf, LiveOf, Micro

\* What wakes nobody.
LEMMA WakesNobody ==
    ASSUME dirty' = dirty \cup Wakes, proc' = proc, chain'.ready = chain.ready
    PROVE  dirty' = dirty
  <1>1. ~(chain'.ready /\ ~chain.ready)
    OBVIOUS
  <1>2. Wakes = {}
    BY <1>1, WakesAre
  <1>3. QED BY <1>2

LEMMA NotWoken ==
    ASSUME dirty' = dirty \cup Wakes, chain'.ready = chain.ready
    PROVE  "ready" \in dirty' <=> "ready" \in dirty
  <1>1. "ready" \notin Wakes
    BY WakesAre
  <1>2. QED BY <1>1

\* Nothing but the place of the live loop changes.
LEMMA AsideKeeps ==
    ASSUME Aside
    PROVE  /\ proc' = proc /\ overlay' = overlay /\ draw' = draw
           /\ chain'.solved = chain.solved /\ chain'.waiting = chain.waiting
           /\ chain'.buffer = chain.buffer /\ chain'.deferred = chain.deferred
           /\ chain'.ready = chain.ready /\ dirty' = dirty
           /\ Cur("hold")' = Cur("hold") /\ Cur("impact")' = Cur("impact")
           /\ Playing' = Playing /\ Fewer' = Fewer
  <1>1. /\ proc' = proc /\ overlay' = overlay /\ draw' = draw
        /\ chain'.solved = chain.solved /\ chain'.waiting = chain.waiting
        /\ chain'.buffer = chain.buffer /\ chain'.deferred = chain.deferred
        /\ chain'.ready = chain.ready /\ dirty' = dirty \cup Wakes
    BY DEF Aside, SameChain, ChainIs, Local
  <1>2. dirty' = dirty
    BY <1>1, WakesNobody
  <1>3. QED BY <1>1, <1>2 DEF Cur, Playing, Fewer

\* At a turn of the loop.
LEMMA AtTick ==
    ASSUME NEW s, Context(s), IsAt("tick")
    PROVE  /\ PcsOf(runner) = {"tick"}
           /\ ~(chain.ready /\ runner.armed)
           /\ "ready" \in dirty => chain.solved > 0 /\ s.solving = NoLink
  BY DEF Context, Coupled, Signalling, Still, IsAt

LEMMA CoupledPass ==
    ASSUME NEW s, Context(s), DidPass
    PROVE  Coupled(s)'
  <1>1. PcsOf(runner') = PcsOf(runner) /\ runner'.armed = runner.armed /\ Aside
    BY DEF DidPass, Elsewhere
  <1>2. QED
    BY <1>1, AsideKeeps
    DEF Context, Coupled, Phased, Buffering, Batching, Resolving, Holding, Signalling, Still

LEMMA CoupledTurnsAside ==
    ASSUME NEW s, Context(s), DidPause \/ DidFinalize
    PROVE  Coupled(s)'
  <1>1. /\ Aside /\ IsAt("tick") /\ PcsOf(runner') = {"exit"} /\ runner'.armed = runner.armed
        /\ Found("pause-external") \/ Found("finalize")
    BY DEF DidPause, DidFinalize, GoesTo, Found
  <1>2. chain.buffer # <<>> => chain.waiting
    <2>1. CASE Found("pause-external")
      BY <2>1 DEF Found, Context, Coupled, Buffering
    <2>2. CASE Found("finalize")
      BY <2>2 DEF Found, Drains, Context, BufferInv, BufferOK
    <2>3. QED BY <1>1, <2>1, <2>2
  <1>3. /\ PcsOf(runner) = {"tick"} /\ ~(chain.ready /\ runner.armed)
        /\ "ready" \in dirty => chain.solved > 0 /\ s.solving = NoLink
    BY <1>1, AtTick
  <1>4. /\ Aside /\ PcsOf(runner') = {"exit"} /\ runner'.armed = runner.armed
    BY <1>1
  <1>5. Phased(s)' /\ Batching(s)' /\ Resolving'
    BY <1>4, AsideKeeps DEF Context, Coupled, Phased, Batching, Resolving
  <1>6. Buffering(s)'
    BY <1>4, <1>2, AsideKeeps DEF Context, Coupled, Buffering
  <1>7. Holding(s)'
    BY <1>4, <1>3, AsideKeeps DEF Context, Coupled, Holding
  <1>8. Signalling(s)'
    BY <1>4, <1>3, AsideKeeps DEF Context, Coupled, Signalling
  <1>9. QED BY <1>5, <1>6, <1>7, <1>8 DEF Coupled

LEMMA CoupledReturn ==
    ASSUME NEW s, Context(s), DidReturn \/ DidBanner
    PROVE  Coupled(s)'
  <1>1. CASE DidReturn
    <2>1. /\ Aside /\ PcsOf(runner) = {"exit"} /\ PcsOf(runner') \in {{}, {"tick"}}
          /\ runner'.armed = runner.armed
      BY <1>1 DEF DidReturn, IsAt
    <2>2. QED
      BY <2>1, AsideKeeps
      DEF Context, Coupled, Phased, Buffering, Batching, Resolving, Holding, Signalling, Still
  <1>2. CASE DidBanner
    <2>1. /\ Aside /\ PcsOf(runner) = {"pre"} /\ PcsOf(runner') = {"show"}
          /\ runner'.armed = runner.armed
      BY <1>2 DEF DidBanner, IsAt, GoesTo
    <2>2. QED
      BY <2>1, AsideKeeps
      DEF Context, Coupled, Phased, Buffering, Batching, Resolving, Holding, Signalling, Still
  <1>3. QED BY <1>1, <1>2

LEMMA CoupledStep ==
    ASSUME NEW s, Context(s), NEW pc \in Ending, DidStep(pc)
    PROVE  Coupled(s)'
  <1>1. /\ Aside /\ PcsOf(runner) = {pc} /\ PcsOf(runner') = {"tick"} /\ Quiet
        /\ runner'.armed = runner.armed
    BY DEF DidStep, IsAt, GoesTo
  <1>2. dirty = {} /\ ~(runner.armed /\ chain.ready) /\ "tick" \notin PcsOf(runner)
    BY <1>1, QuietIs
  <1>3. s.solving # NoLink /\ chain.deferred = NoLink /\ pc = "hold" =>
           ~runner.armed /\ (chain.ready \/ Cur("hold"))
    <2> SUFFICES ASSUME s.solving # NoLink, pc = "hold"
                 PROVE  ~runner.armed /\ (chain.ready \/ Cur("hold"))
      OBVIOUS
    <2>1. ~Cur("impact")
      BY DEF DidStep, Cur
    <2>2. ~Playing
      <3>1. Ends(proc.queue) \subseteq {0}
        BY DEF Context, Coupled, Batching
      <3>2. \A r \in overlay.resolutions : r.id # 0
        BY FieldsAreTyped DEF Fields, Context
      <3>3. QED BY <3>1, <3>2 DEF Playing
    <2>3. QED BY <1>2, <2>1, <2>2 DEF Context, Coupled, Resolving, Holding
  <1>4. QED
    BY <1>1, <1>2, <1>3, AsideKeeps
    DEF Context, Coupled, Phased, Buffering, Batching, Resolving, Holding, Signalling, Still

LEMMA CoupledAwait ==
    ASSUME NEW s, Context(s), DidAwait
    PROVE  Coupled(s)'
  <1>1. /\ Aside /\ runner.armed /\ chain.ready /\ ~runner'.armed
        /\ PcsOf(runner') = PcsOf(runner) \/ (PcsOf(runner) = {} /\ PcsOf(runner') = {"tick"})
    BY DEF DidAwait
  <1>2. /\ ~chain.waiting /\ "tick" \notin PcsOf(runner) /\ "exit" \notin PcsOf(runner)
        /\ chain.buffer = <<>>
    BY <1>1 DEF Context, Coupled, Signalling, Buffering
  <1>3. Phased(s)' /\ Buffering(s)'
    BY <1>1, <1>2, AsideKeeps DEF Context, Coupled, Phased, Buffering
  <1>4. chain'.ready
    <2>1. chain'.ready = chain.ready
      BY <1>1, AsideKeeps
    <2>2. QED BY <2>1, <1>1
  <1>5. Batching(s)' /\ Resolving'
    BY <1>1, <1>4, AsideKeeps DEF Context, Coupled, Batching, Resolving
  <1>6. Holding(s)'
    BY <1>1, <1>4, AsideKeeps DEF Holding
  <1>7. Signalling(s)'
    <2>1. CASE PcsOf(runner) = {}
      <3>1. "ready" \in dirty => chain.solved > 0 /\ s.solving = NoLink
        BY <2>1, <1>1 DEF Context, Coupled, Signalling, Still
      <3>2. QED BY <3>1, <1>1, AsideKeeps DEF Signalling
    <2>2. CASE PcsOf(runner) # {}
      BY <2>2, <1>1, <1>2, AsideKeeps DEF Context, Coupled, Signalling, Still
    <2>3. QED BY <2>1, <2>2
  <1>8. QED BY <1>3, <1>5, <1>6, <1>7 DEF Coupled

LEMMA OwnFacts ==
    ASSUME TypeInv, BufferInv, Sane
    PROVE  NoOwn(proc.queue) => Ends(proc.queue) = {} /\ ~Awaits(proc.queue)
  <1>1. Shape(proc.queue, chain.draining) /\ chain.draining \in BOOLEAN
    BY FieldsAreTyped DEF BufferInv, BufferOK, Fields
  <1>2. QED BY <1>1, ShapeFacts

\* What a turn that takes the head of the queue knows.
LEMMA DequeueFacts ==
    ASSUME NEW s, Context(s), Found("dequeue")
    PROVE  /\ PcsOf(runner) = {"tick"} /\ ~(chain.ready /\ runner.armed)
           /\ "ready" \in dirty => chain.solved > 0 /\ s.solving = NoLink
           /\ ~chain.waiting /\ ~draw.busy /\ proc.queue # <<>>
           /\ Kind # "announcement" => chain.deferred = NoLink
           /\ Own(Head(proc.queue)) => chain.buffer = <<>>
           /\ ~Own(Head(proc.queue)) => /\ NoOwn(proc.queue) /\ NoOwn(Tail(proc.queue))
                                        /\ Ends(proc.queue) = {} /\ ~Awaits(proc.queue)
           /\ Kind # "batch-end" => Ends(Tail(proc.queue)) = Ends(proc.queue)
           /\ Kind = "batch-end" => Ends(proc.queue) = {Subject} /\ Ends(Tail(proc.queue)) = {}
           /\ Kind = "await-signal" => Awaits(proc.queue)
           /\ Awaits(Tail(proc.queue)) => Awaits(proc.queue)
  <1>1. TypeInv /\ BufferInv /\ Sane /\ Coupled(s) /\ proc.queue # <<>> /\ IsAt("tick")
    BY DEF Context, Found
  <1>2. /\ PcsOf(runner) = {"tick"} /\ ~(chain.ready /\ runner.armed)
        /\ "ready" \in dirty => chain.solved > 0 /\ s.solving = NoLink
    BY <1>1, AtTick
  <1>3. ~chain.waiting /\ ~draw.busy /\ (Kind # "announcement" => chain.deferred = NoLink)
    BY DEF Found, Kind
  <1>4. /\ Kind # "batch-end" => Ends(Tail(proc.queue)) = Ends(proc.queue)
        /\ Kind = "batch-end" => Ends(proc.queue) = {Subject} /\ Ends(Tail(proc.queue)) = {}
        /\ Awaits(Tail(proc.queue)) => Awaits(proc.queue)
        /\ NoOwn(proc.queue) => NoOwn(Tail(proc.queue)) /\ ~Own(Head(proc.queue))
        /\ ~Own(Head(proc.queue)) => NoOwn(proc.queue)
        /\ Kind = "await-signal" => Awaits(proc.queue)
    BY <1>1, EndsTail
  <1>5. NoOwn(proc.queue) => Ends(proc.queue) = {} /\ ~Awaits(proc.queue)
    BY <1>1, OwnFacts
  <1>6. Own(Head(proc.queue)) => chain.buffer = <<>>
    BY <1>1, <1>4 DEF Coupled, Buffering
  <1>7. QED BY <1>1, <1>2, <1>3, <1>4, <1>5, <1>6

LEMMA SameOverlay ==
    ASSUME overlay' = overlay, Ends(proc'.queue) = Ends(proc.queue)
    PROVE  /\ Cur("hold")' = Cur("hold") /\ Cur("impact")' = Cur("impact") /\ Playing' = Playing
           /\ proc'.links = proc.links => Fewer' = Fewer
  BY DEF Cur, Playing, Fewer

LEMMA CoupledPop ==
    ASSUME NEW s, Context(s), DidPop, Allowed(s, Head(proc.queue)),
           NEW u, u = After(s, Head(proc.queue))
    PROVE  Coupled(u)'
  <1>1. /\ Found("dequeue") /\ Kind \in {"chaining", "barrier", "announcement"}
        /\ UNCHANGED <<chain, draw, overlay>>
        /\ proc'.queue = Tail(proc.queue) /\ proc'.links = proc.links /\ proc'.phase = proc.phase
        /\ dirty' = dirty \cup Wakes /\ runner'.armed = runner.armed
        /\ Kind # "chaining" => \E pc \in {"draws", "tick", "pre"} : PcsOf(runner') = {pc}
    BY DEF DidPop, Pops, GoesTo, Popped, ProcIs, Local
  <1>2. /\ PcsOf(runner) = {"tick"} /\ ~(chain.ready /\ runner.armed)
        /\ "ready" \in dirty => chain.solved > 0 /\ s.solving = NoLink
        /\ ~chain.waiting /\ ~draw.busy
        /\ Kind # "announcement" => chain.deferred = NoLink
        /\ Own(Head(proc.queue)) => chain.buffer = <<>>
        /\ Ends(Tail(proc.queue)) = Ends(proc.queue)
        /\ Awaits(Tail(proc.queue)) => Awaits(proc.queue)
    BY <1>1, DequeueFacts
  <1>3. ("ready" \in dirty' <=> "ready" \in dirty) /\ (chain.ready <=> chain'.ready)
    BY <1>1, NotWoken
  <1>4. /\ Cur("hold")' = Cur("hold") /\ Cur("impact")' = Cur("impact") /\ Playing' = Playing
        /\ Fewer' = Fewer
    BY <1>1, <1>2, SameOverlay
  <1>5. CASE Kind = "chaining"
    <2>1. /\ s.phase # "resolving" /\ s.solving = NoLink
          /\ u.phase = "building" /\ u.solving = s.solving
      BY <1>5, AfterIs DEF Context, Kind, Turns, WellFormed
    <2>2. chain.buffer = <<>> /\ proc.phase # "resolving"
      BY <2>1 DEF Context, Coupled, Phased, BufferInv, BufferOK
    <2>3. QED
      BY <1>1, <1>2, <1>3, <1>4, <1>5, <2>1, <2>2
      DEF Context, Coupled, Phased, Buffering, Batching, Resolving, Holding, Signalling
  <1>6. CASE Kind # "chaining"
    <2>1. u = s /\ Own(Head(proc.queue))
      BY <1>1, <1>6, AfterIs DEF Context, Kind, Own
    <2>2. chain.buffer = <<>> /\ "hold" \notin PcsOf(runner')
      BY <1>1, <1>2, <1>6, <2>1
    <2>3. Phased(u)' /\ Buffering(u)' /\ Resolving'
      BY <1>1, <1>2, <1>3, <1>4, <2>1, <2>2 DEF Context, Coupled, Phased, Buffering, Resolving
    <2>4. Batching(u)' /\ Holding(u)'
      BY <1>1, <1>2, <1>3, <1>4, <2>1, <2>2 DEF Context, Coupled, Batching, Holding
    <2>5. Signalling(u)'
      BY <1>1, <1>2, <1>3, <1>4, <2>1, <2>2 DEF Context, Coupled, Signalling
    <2>6. QED BY <2>3, <2>4, <2>5 DEF Coupled
  <1>7. QED BY <1>5, <1>6

LEMMA CoupledSignal ==
    ASSUME NEW s, Context(s), DidSignal
    PROVE  Coupled(s)'
  <1>1. /\ Found("dequeue") /\ Kind = "await-signal"
        /\ UNCHANGED <<chain, draw, overlay>>
        /\ proc'.queue = Tail(proc.queue) /\ proc'.links = proc.links /\ proc'.phase = proc.phase
        /\ dirty' = dirty \cup Wakes
        /\ \/ PcsOf(runner') = {"tick"} /\ runner'.armed = runner.armed
           \/ ~chain.ready /\ PcsOf(runner') = {"exit"}
    BY DEF DidSignal, Pops, GoesTo, Popped, ProcIs, Local
  <1>2. /\ PcsOf(runner) = {"tick"} /\ ~(chain.ready /\ runner.armed)
        /\ "ready" \in dirty => chain.solved > 0 /\ s.solving = NoLink
        /\ ~chain.waiting /\ ~draw.busy
        /\ chain.deferred = NoLink
        /\ Own(Head(proc.queue)) => chain.buffer = <<>>
        /\ Ends(Tail(proc.queue)) = Ends(proc.queue)
        /\ Awaits(proc.queue)
    BY <1>1, DequeueFacts
  <1>3. ("ready" \in dirty' <=> "ready" \in dirty) /\ (chain.ready <=> chain'.ready)
    BY <1>1, NotWoken
  <1>4. /\ Cur("hold")' = Cur("hold") /\ Cur("impact")' = Cur("impact") /\ Playing' = Playing
        /\ Fewer' = Fewer
    BY <1>1, <1>2, SameOverlay
  <1>5. chain.buffer = <<>>
    BY <1>1, <1>2 DEF Own, Kind
  <1>6. s.solving = NoLink /\ ~Fewer /\ (~chain.ready => ~Cur("hold"))
    BY <1>2 DEF Context, Coupled, Batching
  <1>7. Phased(s)' /\ Buffering(s)' /\ Resolving'
    BY <1>1, <1>2, <1>3, <1>4, <1>5 DEF Context, Coupled, Phased, Buffering, Resolving
  <1>8. Batching(s)' /\ Holding(s)'
    BY <1>1, <1>2, <1>3, <1>4, <1>6 DEF Context, Coupled, Batching, Holding
  <1>9. Signalling(s)'
    BY <1>1, <1>2, <1>3, <1>4, <1>6 DEF Context, Coupled, Signalling
  <1>10. QED BY <1>7, <1>8, <1>9 DEF Coupled

\* MSG_CHAIN_SOLVING is put off behind the banner, or begins. Of the message or the deferred link,
\* u is the chain in which it is solved, of which x is.
LEMMA CoupledPutOff ==
    ASSUME NEW s, Context(s), NEW u, NEW x \in Nat, NEW q, PutOff(x, q),
           UNCHANGED <<draw, overlay>>, Local, IsAt("tick"),
           Ends(proc'.queue) = Ends(proc.queue),
           Ends(proc.queue) \subseteq {0} /\ ~Awaits(proc'.queue),
           u.phase = "resolving", u.solving = x, chain.buffer = <<>>, ~chain.waiting
    PROVE  Coupled(u)'
  <1>1. /\ chain.solved = 0 /\ x > 0
        /\ ChainIs(chain.solved, chain.waiting, chain.draining, chain.buffer, x, chain.ready,
                   chain.replaying)
        /\ proc'.links = proc.links /\ proc'.phase = proc.phase
        /\ dirty' = dirty \cup Wakes
        /\ PcsOf(runner') = {"tick"} /\ runner'.armed = runner.armed
    BY DEF PutOff, GoesTo, ProcIs, Local
  <1>2. /\ PcsOf(runner) = {"tick"} /\ ~(chain.ready /\ runner.armed)
        /\ "ready" \in dirty => chain.solved > 0 /\ s.solving = NoLink
    BY AtTick
  <1>3. "ready" \notin dirty' /\ chain'.ready = chain.ready
    BY <1>1, <1>2, NotWoken DEF ChainIs
  <1>4. /\ Cur("hold")' = Cur("hold") /\ Cur("impact")' = Cur("impact") /\ Playing' = Playing
        /\ Fewer' = Fewer
    BY <1>1, SameOverlay
  <1>5. x # NoLink
    BY DEF NoLink
  <1>6. Phased(u)' /\ Buffering(u)'
    BY <1>1, <1>2, <1>3, <1>4, <1>5 DEF Phased, Buffering, ChainIs
  <1>7. Resolving'
    BY <1>1, <1>2, <1>3, <1>4 DEF Context, Coupled, Resolving, ChainIs
  <1>8. Batching(u)'
    BY <1>1, <1>2, <1>3, <1>4 DEF Batching
  <1>9. Holding(u)'
    BY <1>1, <1>2, <1>3, <1>4, <1>5 DEF Context, Coupled, Holding, ChainIs
  <1>10. Signalling(u)'
    BY <1>1, <1>2, <1>3, <1>4 DEF Signalling, ChainIs
  <1>11. QED BY <1>6, <1>7, <1>8, <1>9, <1>10 DEF Coupled

LEMMA CoupledBegun ==
    ASSUME NEW s, Context(s), NEW u, NEW x \in Nat, NEW q, Begun(x, q),
           UNCHANGED <<draw, overlay>>, Local, IsAt("tick"),
           Ends(proc'.queue) = Ends(proc.queue),
           Ends(proc.queue) \subseteq {0} /\ ~Awaits(proc'.queue),
           u.phase = "resolving", u.solving = x, ~chain.waiting
    PROVE  Coupled(u)'
  <1>1. /\ ChainIs(chain.solved, chain.waiting, chain.draining, <<>>, NoLink, chain.ready,
                   chain.replaying)
        /\ proc'.links = proc.links /\ proc'.phase = "resolving"
        /\ dirty' = dirty \cup Wakes
        /\ PcsOf(runner') = {IF chain.solved = 0 /\ x = 0 THEN "tick" ELSE "hold"}
        /\ runner'.armed = runner.armed
    BY DEF Begun, GoesTo, ProcIs, Local
  <1>2. /\ PcsOf(runner) = {"tick"} /\ ~(chain.ready /\ runner.armed)
        /\ "ready" \in dirty => chain.solved > 0 /\ s.solving = NoLink
    BY AtTick
  <1>3. ("ready" \in dirty' <=> "ready" \in dirty) /\ chain'.ready = chain.ready
    BY <1>1, NotWoken DEF ChainIs
  <1>4. /\ Cur("hold")' = Cur("hold") /\ Cur("impact")' = Cur("impact") /\ Playing' = Playing
        /\ Fewer' = Fewer
    BY <1>1, SameOverlay
  <1>5. Phased(u)' /\ Buffering(u)'
    BY <1>1, <1>2, <1>3, <1>4 DEF Phased, Buffering, ChainIs
  <1>6. Resolving'
    BY <1>1, <1>2, <1>3, <1>4 DEF Context, Coupled, Resolving, ChainIs
  <1>7. Batching(u)'
    BY <1>1, <1>2, <1>3, <1>4 DEF Batching
  <1>8. CASE chain.solved = 0 /\ x = 0
    <2>1. PcsOf(runner') = {"tick"} /\ "ready" \notin dirty'
      BY <1>8, <1>1, <1>2, <1>3
    <2>2. ~chain.ready => Cur("hold") /\ ~runner.armed
      BY <1>8 DEF Context, Coupled, Resolving, Holding
    <2>3. ~runner.armed
      BY <1>2, <2>2
    <2>4. Holding(u)'
      BY <1>1, <1>3, <1>4, <2>2, <2>3 DEF Holding, ChainIs
    <2>5. Signalling(u)'
      BY <2>1, <1>1, <2>3 DEF Signalling
    <2>6. QED BY <1>5, <1>6, <1>7, <2>4, <2>5 DEF Coupled
  <1>9. CASE ~(chain.solved = 0 /\ x = 0)
    <2>1. PcsOf(runner') = {"hold"}
      BY <1>9, <1>1
    <2>2. Holding(u)'
      BY <2>1, <1>1, <1>3, <1>4 DEF Context, Coupled, Holding, ChainIs
    <2>3. Still'
      BY <2>1 DEF Still
    <2>4. Signalling(u)'
      BY <2>1, <2>3, <1>1, <1>2, <1>3 DEF Signalling
    <2>5. QED BY <1>5, <1>6, <1>7, <2>2, <2>4 DEF Coupled
  <1>10. QED BY <1>8, <1>9

LEMMA CoupledConsume ==
    ASSUME NEW s, Context(s), DidConsume
    PROVE  Coupled(s)'
  <1>1. /\ TypeInv /\ BufferInv /\ Sane /\ Coupled(s) /\ IsAt("tick") /\ ~chain.waiting
        /\ chain.deferred # NoLink /\ Local /\ UNCHANGED <<draw, overlay>>
    BY DEF Context, DidConsume, Found, Plain
  <1>2. /\ chain.deferred = s.solving /\ s.phase = "resolving" /\ s.solving # NoLink
        /\ chain.buffer = <<>> /\ chain.deferred \in Nat
    BY <1>1, FieldsAreTyped DEF Coupled, Phased, Context, WellFormed, Fields
  <1>3. Ends(proc.queue) \subseteq {0} /\ ~Awaits(proc.queue)
    BY <1>1, <1>2 DEF Coupled, Batching
  <1>4. Ends(proc'.queue) = Ends(proc.queue) /\ ~Awaits(proc'.queue)
    BY <1>1, <1>3, EndsSolving DEF DidConsume
  <1>5. CASE PutOff(chain.deferred, proc.queue)
    BY <1>1, <1>2, <1>3, <1>4, <1>5, CoupledPutOff
  <1>6. CASE Begun(chain.deferred, proc.queue)
    BY <1>1, <1>2, <1>3, <1>4, <1>6, CoupledBegun
  <1>7. QED BY <1>5, <1>6 DEF DidConsume

LEMMA CoupledSolving ==
    ASSUME NEW s, Context(s), DidSolving, Allowed(s, Head(proc.queue)),
           NEW u, u = After(s, Head(proc.queue))
    PROVE  Coupled(u)'
  <1>1. /\ TypeInv /\ BufferInv /\ Sane /\ Coupled(s) /\ IsAt("tick") /\ ~chain.waiting
        /\ Found("dequeue") /\ Kind = "solving" /\ Local /\ UNCHANGED <<draw, overlay>>
        /\ proc.queue # <<>> /\ Subject \in Nat
    BY DEF Context, DidSolving, Found, Plain
  <1>2. /\ s.unsolved > 0 /\ s.solving = NoLink /\ Head(proc.queue).of = <<s.unsolved - 1>>
        /\ u.phase = "resolving" /\ u.solving = s.unsolved - 1
    BY <1>1, AfterIs DEF Context, Kind, Turns
  <1>3. Subject = u.solving
    BY <1>2 DEF Subject
  <1>4. chain.buffer = <<>>
    <2>1. s.unsolved \in Nat /\ s.unsolved # 0
      BY <1>2 DEF Context, IsChain
    <2>2. QED BY <1>1, <1>2, <2>1 DEF Coupled, Buffering
  <1>5. Ends(proc.queue) = {} /\ ~Awaits(proc.queue)
    BY <1>1, DequeueFacts DEF Own, Kind
  <1>6. Ends(proc'.queue) = Ends(proc.queue) /\ ~Awaits(proc'.queue)
    BY <1>1, <1>5, EndsSolving DEF DidSolving
  <1>7. CASE PutOff(Subject, Tail(proc.queue))
    BY <1>1, <1>2, <1>3, <1>4, <1>5, <1>6, <1>7, CoupledPutOff
  <1>8. CASE Begun(Subject, Tail(proc.queue))
    BY <1>1, <1>2, <1>3, <1>4, <1>5, <1>6, <1>8, CoupledBegun
  <1>9. QED BY <1>7, <1>8 DEF DidSolving

LEMMA CoupledSolved ==
    ASSUME NEW s, Context(s), DidSolved, Allowed(s, Head(proc.queue)),
           Known(s, proc.links, proc.pending), proc.ends = s.gen,
           NEW u, u = After(s, Head(proc.queue))
    PROVE  Coupled(u)'
  <1>1. /\ Found("dequeue") /\ Kind = "solved" /\ UNCHANGED <<draw, overlay>>
        /\ proc'.queue = Tail(proc.queue) /\ proc'.phase = proc.phase
        /\ ChainIs(chain.solved + 1, LinksBut(Subject) # proc.links, chain.draining, chain.buffer,
                   chain.deferred, chain.ready, chain.replaying)
        /\ dirty' = dirty \cup Wakes /\ runner'.armed = runner.armed
    BY DEF DidSolved, Plain, GoesTo, ProcIs, Local
  <1>2. /\ s.solving # NoLink /\ Head(proc.queue).of = <<s.solving>> /\ s.phase = "resolving"
        /\ s.solving = s.unsolved - 1 /\ s.unsolved > 0
        /\ u.phase = s.phase /\ u.solving = NoLink
    BY <1>1, AfterIs DEF Context, Kind, Turns
  <1>3. /\ PcsOf(runner) = {"tick"} /\ ~(chain.ready /\ runner.armed)
        /\ "ready" \in dirty => chain.solved > 0 /\ s.solving = NoLink
        /\ ~chain.waiting /\ ~draw.busy /\ chain.deferred = NoLink
        /\ Ends(Tail(proc.queue)) = Ends(proc.queue) /\ ~Awaits(proc.queue)
        /\ Awaits(Tail(proc.queue)) => Awaits(proc.queue)
        /\ NoOwn(Tail(proc.queue))
    BY <1>1, DequeueFacts DEF Own, Kind
  <1>4. LinksBut(Subject) # proc.links
    <2> DEFINE k == [idx |-> s.solving, gen |-> s.gen]
    <2>1. s.solving \in Nat /\ s.unsolved \in Nat /\ s.solving < s.unsolved
      BY <1>2 DEF Context, IsChain
    <2>2. k \in proc.links
      BY <2>1, <1>2 DEF Known
    <2>3. Subject = s.solving
      BY <1>2 DEF Subject
    <2>4. k \notin LinksBut(Subject)
      BY <2>3 DEF LinksBut
    <2>5. QED BY <2>2, <2>4
  <1>5. PcsOf(runner') = {"exit"}
    BY <1>4 DEF DidSolved, GoesTo
  <1>6. /\ "ready" \notin dirty' /\ chain'.ready = chain.ready /\ chain'.waiting
        /\ chain'.solved = chain.solved + 1 /\ chain'.buffer = chain.buffer
        /\ chain'.deferred = NoLink
    BY <1>1, <1>2, <1>3, <1>4, NotWoken DEF ChainIs
  <1>7. /\ Cur("hold")' = Cur("hold") /\ Cur("impact")' = Cur("impact") /\ Playing' = Playing
    BY <1>1, <1>3, SameOverlay
  <1>8. chain'.solved > 0 /\ chain'.solved # 0
    <2>1. chain.solved \in Nat
      BY FieldsAreTyped DEF Fields, Context
    <2>2. QED BY <1>6, <2>1
  <1>9. ~runner.armed /\ (chain.ready \/ Cur("hold"))
    BY <1>2, <1>3 DEF Context, Coupled, Holding
  <1>10. Phased(u)' /\ Buffering(u)'
    BY <1>1, <1>2, <1>3, <1>6, <1>8 DEF Context, Coupled, Phased, Buffering
  <1>11. Resolving'
    BY <1>1, <1>6, <1>7, <1>9 DEF Context, Coupled, Resolving
  <1>12. Batching(u)' /\ Holding(u)'
    BY <1>1, <1>2, <1>3, <1>9 DEF Batching, Holding
  <1>13. Signalling(u)'
    BY <1>1, <1>6, <1>9 DEF Signalling
  <1>14. QED BY <1>10, <1>11, <1>12, <1>13 DEF Coupled

LEMMA CoupledEnd ==
    ASSUME NEW s, Context(s), DidEnd, Allowed(s, Head(proc.queue)),
           NEW u, u = After(s, Head(proc.queue))
    PROVE  Coupled(u)'
  <1>1. /\ Found("dequeue") /\ Kind = "end" /\ UNCHANGED <<draw, overlay>>
        /\ proc'.queue = Tail(proc.queue) /\ proc'.phase # "resolving"
        /\ ChainIs(0, FALSE, FALSE, <<>>, NoLink, TRUE, chain.replaying)
        /\ PcsOf(runner') = {"settle"}
    BY DEF DidEnd, Plain, GoesTo, ProcIs
  <1>2. u.phase = "idle" /\ u.solving = NoLink
    BY <1>1, AfterIs DEF Context, Kind, Turns
  <1>3. ~Awaits(Tail(proc.queue))
    BY <1>1, DequeueFacts DEF Own, Kind
  <1>4. /\ ~chain'.waiting /\ chain'.buffer = <<>> /\ chain'.deferred = NoLink /\ chain'.ready
    BY <1>1 DEF ChainIs
  <1>5. Still'
    BY <1>1 DEF Still
  <1>6. QED
    BY <1>1, <1>2, <1>3, <1>4, <1>5
    DEF Coupled, Phased, Buffering, Batching, Resolving, Holding, Signalling

\* An event, alone or of a group, is buffered or played.
LEMMA PlayedOrBuffered ==
    ASSUME TypeInv, BufferInv, Sane, NEW e, Buffers(e) \/ Plays(e)
    PROVE  /\ Buffers(e) => proc.phase = "resolving" /\ ~chain.draining
           /\ Plays(e) => chain.buffer = <<>>
  BY DEF Buffers, Plays, ShouldBuffer, BufferInv, BufferOK

LEMMA CoupledEvent ==
    ASSUME NEW s, Context(s), DidEvent, Allowed(s, Head(proc.queue))
    PROVE  Coupled(s)'
  <1>1. /\ Found("dequeue") /\ Kind = "event" /\ overlay' = overlay
        /\ proc'.queue = Tail(proc.queue) /\ proc'.links = proc.links /\ proc'.phase = proc.phase
        /\ dirty' = dirty \cup Wakes /\ runner'.armed = runner.armed
        /\ \/ Buffers(Subject) /\ PcsOf(runner') = {"tick"}
           \/ Plays(Subject) /\ "hold" \notin PcsOf(runner')
        /\ TypeInv /\ BufferInv /\ Sane
    BY DEF DidEvent, GoesTo, Popped, ProcIs, Local, Context
  <1>2. /\ PcsOf(runner) = {"tick"} /\ ~(chain.ready /\ runner.armed)
        /\ "ready" \in dirty => chain.solved > 0 /\ s.solving = NoLink
        /\ ~chain.waiting /\ ~draw.busy
        /\ chain.deferred = NoLink
        /\ Ends(Tail(proc.queue)) = Ends(proc.queue)
        /\ Awaits(Tail(proc.queue)) => Awaits(proc.queue)
        /\ NoOwn(Tail(proc.queue))
    BY <1>1, DequeueFacts DEF Own, Kind
  <1>3. /\ chain'.solved = chain.solved /\ chain'.waiting = chain.waiting
        /\ chain'.deferred = chain.deferred /\ chain'.ready = chain.ready
        /\ chain'.buffer = <<>>
           \/ (PcsOf(runner') = {"tick"} /\ proc.phase = "resolving" /\ draw' = draw)
    <2>1. CASE Buffers(Subject) /\ PcsOf(runner') = {"tick"}
      BY <1>1, <2>1, PlayedOrBuffered DEF Buffers, ChainIs
    <2>2. CASE Plays(Subject)
      BY <1>1, <2>2, PlayedOrBuffered DEF Plays, SameChain, ChainIs
    <2>3. QED BY <1>1, <2>1, <2>2
  <1>4. "ready" \in dirty' <=> "ready" \in dirty
    BY <1>1, <1>3, NotWoken
  <1>5. /\ Cur("hold")' = Cur("hold") /\ Cur("impact")' = Cur("impact") /\ Playing' = Playing
        /\ Fewer' = Fewer
    BY <1>1, <1>2, SameOverlay
  <1>6. s.phase # "resolving" \/ s.solving # NoLink \/ s.unsolved = 0
    BY <1>1, AfterIs DEF Context, Kind
  <1>7. Phased(s)'
    BY <1>1, <1>2, <1>3 DEF Context, Coupled, Phased
  <1>8. Buffering(s)'
    <2>1. CASE chain'.buffer = <<>>
      BY <2>1 DEF Buffering
    <2>2. CASE PcsOf(runner') = {"tick"} /\ proc.phase = "resolving" /\ draw' = draw
      BY <2>2, <1>1, <1>2, <1>3, <1>6 DEF Context, Coupled, Phased, Buffering
    <2>3. QED BY <1>3, <2>1, <2>2
  <1>9. Resolving' /\ Batching(s)'
    BY <1>1, <1>2, <1>3, <1>5 DEF Context, Coupled, Resolving, Batching
  <1>10. Holding(s)'
    BY <1>1, <1>2, <1>3, <1>5 DEF Context, Coupled, Holding
  <1>11. Signalling(s)'
    BY <1>1, <1>2, <1>3, <1>4 DEF Context, Coupled, Signalling
  <1>12. QED BY <1>7, <1>8, <1>9, <1>10, <1>11 DEF Coupled

\* A group is of a batch: its events are played.
LEMMA CoupledGroup ==
    ASSUME NEW s, Context(s), DidGroup \/ DidStagger
    PROVE  Coupled(s)'
  <1>1. TypeInv /\ BufferInv /\ Sane
    BY DEF Context
  <1>2. chain.draining
    <2>1. CASE DidGroup
      BY <1>1, <2>1, BufferTail DEF DidGroup, Found
    <2>2. CASE DidStagger
      BY <1>1, <2>2 DEF DidStagger, BufferInv, BufferOK
    <2>3. QED BY <2>1, <2>2
  <1>3. \E es : GroupFrom(es)
    BY DEF DidGroup, DidStagger
  <1>4. /\ SameChain /\ chain.buffer = <<>> /\ runner'.armed = runner.armed
        /\ PcsOf(runner') \in {{"group"}, {"landing"}}
    BY <1>1, <1>2, <1>3, PlayedOrBuffered DEF GroupFrom, Plays
  <1>5. /\ chain'.solved = chain.solved /\ chain'.waiting = chain.waiting
        /\ chain'.deferred = chain.deferred /\ chain'.ready = chain.ready
        /\ chain'.buffer = <<>>
    BY <1>4 DEF SameChain, ChainIs
  <1>6. overlay' = overlay /\ dirty' = dirty \cup Wakes
    BY DEF DidGroup, DidStagger, Local
  <1>7. ("ready" \in dirty' <=> "ready" \in dirty) /\ (chain.ready <=> chain'.ready)
    BY <1>5, <1>6, NotWoken
  <1>8. /\ "hold" \notin PcsOf(runner) /\ ~(chain.ready /\ runner.armed)
        /\ "ready" \in dirty => chain.solved > 0 /\ s.solving = NoLink
        /\ Ends(proc'.queue) = Ends(proc.queue)
        /\ Awaits(proc'.queue) => Awaits(proc.queue)
        /\ proc'.links = proc.links /\ proc'.phase = proc.phase
    <2>1. CASE DidGroup
      <3>1. Found("dequeue") /\ Kind = "group" /\ proc'.queue = Tail(proc.queue)
            /\ proc'.links = proc.links /\ proc'.phase = proc.phase
        BY <2>1 DEF DidGroup, Popped, ProcIs
      <3>2. QED BY <3>1, DequeueFacts
    <2>2. CASE DidStagger
      <3>1. dirty = {} /\ ~(chain.ready /\ runner.armed) /\ PcsOf(runner) = {"group"}
            /\ proc' = proc
        BY <2>2, QuietIs DEF DidStagger
      <3>2. QED BY <3>1
    <2>3. QED BY <2>1, <2>2
  <1>9. /\ Cur("hold")' = Cur("hold") /\ Cur("impact")' = Cur("impact") /\ Playing' = Playing
        /\ Fewer' = Fewer
    BY <1>6, <1>8, SameOverlay
  <1>10. Phased(s)' /\ Buffering(s)'
    BY <1>5, <1>8 DEF Context, Coupled, Phased, Buffering
  <1>11. Resolving' /\ Batching(s)'
    BY <1>5, <1>6, <1>8, <1>9 DEF Context, Coupled, Resolving, Batching
  <1>12. Holding(s)'
    BY <1>4, <1>5, <1>8, <1>9 DEF Context, Coupled, Holding
  <1>13. Signalling(s)'
    BY <1>4, <1>5, <1>7, <1>8 DEF Context, Coupled, Signalling
  <1>14. QED BY <1>10, <1>11, <1>12, <1>13 DEF Coupled

LEMMA CoupledBatchEnd ==
    ASSUME NEW s, Context(s), DidBatchEnd
    PROVE  Coupled(s)'
  <1>1. /\ Found("dequeue") /\ Kind = "batch-end" /\ draw' = draw /\ CleanedUp
        /\ proc'.queue = Tail(proc.queue) /\ proc'.links = proc.links /\ proc'.phase = proc.phase
        /\ dirty' = dirty \cup Wakes /\ runner'.armed = runner.armed
        /\ PcsOf(runner') = {"tick"}
    BY DEF DidBatchEnd, Popped, ProcIs, GoesTo, Local
  <1>2. /\ PcsOf(runner) = {"tick"} /\ ~(chain.ready /\ runner.armed)
        /\ "ready" \in dirty => chain.solved > 0 /\ s.solving = NoLink
        /\ ~chain.waiting /\ ~draw.busy /\ chain.buffer = <<>>
        /\ Ends(proc.queue) = {Subject} /\ Ends(Tail(proc.queue)) = {}
        /\ Awaits(Tail(proc.queue)) => Awaits(proc.queue)
    BY <1>1, DequeueFacts DEF Own, Kind
  <1>3. /\ chain'.solved = chain.solved /\ chain'.waiting = chain.waiting
        /\ chain'.deferred = chain.deferred /\ chain'.ready = chain.ready
        /\ chain'.buffer = chain.buffer
    BY <1>1 DEF CleanedUp, ChainIs
  <1>4. "ready" \in dirty' <=> "ready" \in dirty
    BY <1>1, <1>3, NotWoken
  <1>5. /\ Cur("hold")' = Cur("hold") /\ Fewer' = Fewer
        /\ overlay.inFlight => overlay'.inFlight
        /\ Cur("hold") \/ Cur("impact") \/ Playing => Cur("hold")' \/ Cur("impact")'
    <2>1. CASE (\A r \in overlay.resolutions : r.id # Subject) /\ overlay' = overlay
      <3>1. ~Playing
        BY <2>1, <1>2 DEF Playing
      <3>2. QED BY <2>1, <3>1, <1>1 DEF Cur, Fewer
    <2>2. ASSUME NEW r \in overlay.resolutions, r.id = Subject,
                 r.aborted => OverlayIs(overlay.prev, FALSE, overlay.current, Others(r)),
                 ~r.aborted => OverlayIs(overlay.prev, overlay.inFlight, overlay.current,
                                         Others(r) \cup {Stage(r, "impact")})
          PROVE  /\ Cur("hold")' = Cur("hold") /\ Fewer' = Fewer
                 /\ overlay.inFlight => overlay'.inFlight
                 /\ Cur("hold") \/ Cur("impact") \/ Playing => Cur("hold")' \/ Cur("impact")'
      <3>1. r.id # 0
        BY FieldsAreTyped DEF Fields, Context
      <3>2. OverlayOK(overlay.resolutions, overlay.inFlight, overlay.current, {r.id})
        BY <1>2, <2>2 DEF OverlayInv, Context
      <3>3. /\ r.id = overlay.current /\ ~r.aborted /\ r.at = "replay"
            /\ \A o \in overlay.resolutions : o.id = r.id => o = r
        BY <3>1, <3>2 DEF OverlayOK
      <3>4. /\ overlay'.prev = overlay.prev /\ overlay'.inFlight = overlay.inFlight
            /\ overlay'.current = overlay.current
            /\ overlay'.resolutions = Others(r) \cup {Stage(r, "impact")}
        BY <2>2, <3>3 DEF OverlayIs
      <3>5. Stage(r, "impact").id = r.id /\ Stage(r, "impact").at = "impact"
        BY DEF Stage
      <3>6. Cur("impact")'
        BY <3>3, <3>4, <3>5 DEF Cur
      <3>7. ~Cur("hold")
        BY <3>3 DEF Cur
      <3>8. ~Cur("hold")'
        BY <3>3, <3>4, <3>5 DEF Cur, Others
      <3>9. Fewer' = Fewer
        BY <3>4, <1>1 DEF Fewer
      <3>10. Cur("hold")' = Cur("hold")
        BY <3>7, <3>8 DEF Cur
      <3>11. QED BY <3>4, <3>6, <3>9, <3>10
    <2>3. QED BY <2>1, <2>2 DEF DidBatchEnd
  <1>6. Phased(s)' /\ Buffering(s)'
    BY <1>1, <1>2, <1>3 DEF Context, Coupled, Phased, Buffering
  <1>7. Resolving' /\ Batching(s)'
    BY <1>1, <1>2, <1>3, <1>5 DEF Context, Coupled, Resolving, Batching
  <1>8. Holding(s)'
    BY <1>1, <1>2, <1>3, <1>5 DEF Context, Coupled, Holding
  <1>9. Signalling(s)'
    BY <1>1, <1>2, <1>3, <1>4 DEF Context, Coupled, Signalling
  <1>10. QED BY <1>6, <1>7, <1>8, <1>9 DEF Coupled

LEMMA CoupledPreReplay ==
    ASSUME NEW s, Context(s), DidPreReplay
    PROVE  Coupled(s)'
  <1>1. /\ IsAt("tick") /\ ~chain.waiting /\ ~draw.busy /\ chain.buffer # <<>>
        /\ chain.deferred = NoLink /\ UNCHANGED <<draw, overlay>>
        /\ proc'.queue = Batch(0) \o proc.queue /\ proc'.links = proc.links
        /\ proc'.phase = proc.phase
        /\ ChainIs(chain.solved, FALSE, TRUE, <<>>, chain.deferred, chain.ready, TRUE)
        /\ dirty' = dirty \cup Wakes /\ runner'.armed = runner.armed
        /\ PcsOf(runner') = {"tick"}
    BY DEF DidPreReplay, Found, Plain, ProcIs, GoesTo, Local
  <1>2. /\ PcsOf(runner) = {"tick"} /\ ~(chain.ready /\ runner.armed)
        /\ "ready" \in dirty => chain.solved > 0 /\ s.solving = NoLink
    BY <1>1, AtTick
  <1>3. /\ chain'.solved = chain.solved /\ ~chain'.waiting
        /\ chain'.deferred = chain.deferred /\ chain'.ready = chain.ready
        /\ chain'.buffer = <<>>
    BY <1>1 DEF ChainIs
  <1>4. "ready" \in dirty' <=> "ready" \in dirty
    BY <1>1, <1>3, NotWoken
  <1>5. Ends(proc.queue) = {} /\ ~Awaits(proc.queue)
    BY <1>1, OwnFacts DEF Context, Coupled, Buffering
  <1>6. Ends(proc'.queue) = {0} /\ ~Awaits(proc'.queue)
    <2>1. Shape(proc.queue, chain.draining) /\ chain.draining = FALSE
          /\ proc.queue \in Seq(Entries)
      BY <1>1, FieldsAreTyped DEF BufferInv, BufferOK, Fields, Context
    <2>2. Shape(proc.queue, FALSE) /\ 0 \in Nat
      BY <2>1
    <2>3. /\ Ends(Batch(0) \o proc.queue) = {0}
          /\ Awaits(Batch(0) \o proc.queue) <=> Awaits(proc.queue)
      BY <1>1, <2>1, <2>2, BatchShape DEF Context
    <2>4. QED BY <1>1, <1>5, <2>3
  <1>7. ~Playing
    BY <1>5 DEF Playing
  <1>8. Cur("hold")' = Cur("hold") /\ Cur("impact")' = Cur("impact")
    BY <1>1 DEF Cur
  <1>9. Phased(s)' /\ Buffering(s)'
    BY <1>1, <1>3 DEF Context, Coupled, Phased, Buffering
  <1>10. Resolving' /\ Batching(s)'
    BY <1>1, <1>3, <1>6, <1>7, <1>8 DEF Context, Coupled, Resolving, Batching
  <1>11. Holding(s)'
    BY <1>1, <1>2, <1>3, <1>8 DEF Context, Coupled, Holding
  <1>12. Signalling(s)'
    BY <1>1, <1>2, <1>3, <1>4 DEF Context, Coupled, Signalling
  <1>13. QED BY <1>9, <1>10, <1>11, <1>12 DEF Coupled

LEMMA CoupledQueue ==
    ASSUME NEW s, Context(s), DidQueue
    PROVE  Coupled(s)'
  <1>1. /\ UNCHANGED <<proc, chain, draw, overlay>> /\ dirty' = dirty \ {"queue"}
        /\ "queue" \in dirty /\ runner'.armed = runner.armed
        /\ \/ PcsOf(runner') = PcsOf(runner)
           \/ PcsOf(runner) = {} /\ PcsOf(runner') = {"tick"} /\ proc.queue # <<>>
    BY DEF DidQueue, MayStart, Starts
  <1>2. /\ Cur("hold")' = Cur("hold") /\ Cur("impact")' = Cur("impact") /\ Playing' = Playing
        /\ Fewer' = Fewer
    BY <1>1, SameOverlay
  <1>3. ("ready" \in dirty' <=> "ready" \in dirty) /\ "queue" \notin dirty'
    BY <1>1
  <1>4. Phased(s)' /\ Buffering(s)' /\ Resolving' /\ Batching(s)'
    BY <1>1, <1>2, <1>3 DEF Context, Coupled, Phased, Buffering, Resolving, Batching
  <1>5. Holding(s)'
    BY <1>1, <1>2 DEF Context, Coupled, Holding
  <1>6. Signalling(s)'
    <2>1. CASE PcsOf(runner') = PcsOf(runner)
      BY <2>1, <1>1, <1>2, <1>3 DEF Context, Coupled, Signalling, Still
    <2>2. CASE PcsOf(runner) = {} /\ proc.queue # <<>>
      <3>1. "ready" \in dirty => chain.solved > 0 /\ s.solving = NoLink
        BY <2>2, <1>1 DEF Context, Coupled, Signalling, Still
      <3>2. ~(chain.ready /\ runner.armed)
        BY <2>2, <1>1 DEF Context, Coupled, Signalling
      <3>3. QED BY <3>1, <3>2, <1>1, <1>3 DEF Signalling
    <2>3. QED BY <1>1, <2>1, <2>2
  <1>7. QED BY <1>4, <1>5, <1>6 DEF Coupled

LEMMA CoupledResume ==
    ASSUME NEW s, Context(s), DidResume
    PROVE  Coupled(s)'
  <1>1. /\ UNCHANGED <<proc, draw, overlay>> /\ dirty' = dirty \ {"ready"}
        /\ "ready" \in dirty /\ runner'.armed = runner.armed
        /\ PcsOf(runner') = PcsOf(runner) \/ (PcsOf(runner) = {} /\ PcsOf(runner') = {"tick"})
        /\ ~(chain.ready /\ chain.waiting) => runner' = runner
    BY DEF DidResume, MayStart, Starts
  <1>2. /\ chain'.solved = chain.solved /\ chain'.buffer = chain.buffer
        /\ chain'.deferred = chain.deferred /\ chain'.ready = chain.ready
        /\ chain'.waiting = (chain.waiting /\ ~chain.ready)
    BY DEF DidResume, ChainIs
  <1>3. /\ Cur("hold")' = Cur("hold") /\ Cur("impact")' = Cur("impact") /\ Playing' = Playing
        /\ Fewer' = Fewer
    BY <1>1, SameOverlay
  <1>4. chain'.waiting => chain.waiting /\ ~chain.ready
    BY <1>2
  <1>5. Phased(s)'
    BY <1>1, <1>2, <1>4 DEF Context, Coupled, Phased
  <1>6. Buffering(s)'
    <2> SUFFICES ASSUME chain.buffer # <<>> PROVE Buffering(s)'
      BY <1>2 DEF Buffering
    <2>1. ~chain.waiting
      BY <1>1 DEF Context, Coupled, Buffering
    <2>2. QED
      BY <2>1, <1>1, <1>2, <1>4 DEF Context, Coupled, Buffering
  <1>7. Resolving' /\ Batching(s)'
    BY <1>1, <1>2, <1>3, <1>4 DEF Context, Coupled, Resolving, Batching
  <1>8. Holding(s)'
    BY <1>1, <1>2, <1>3 DEF Context, Coupled, Holding
  <1>9. Signalling(s)'
    <2> SUFFICES ASSUME chain.ready, runner.armed PROVE Signalling(s)'
      BY <1>1, <1>2 DEF Signalling
    <2>1. ~chain.waiting
      BY DEF Context, Coupled, Signalling
    <2>2. QED
      BY <2>1, <1>1, <1>2, <1>3, <1>4 DEF Context, Coupled, Signalling
  <1>10. QED BY <1>5, <1>6, <1>7, <1>8, <1>9 DEF Coupled

\* Once the overlay has seen the links it has seen as many.
LEMMA SeenIsNotFewer ==
    ASSUME TypeInv
    PROVE  overlay.prev = proc.links => ~Fewer
  <1>1. Cardinality(proc.links) \in Nat
    BY FieldsAreTyped, FS_CardinalityType DEF Fields
  <1>2. QED BY <1>1 DEF Fewer

LEMMA CoupledLinks ==
    ASSUME NEW s, Context(s), DidLinksEnd \/ DidLinksSee
    PROVE  Coupled(s)'
  <1>1. /\ UNCHANGED <<proc, runner, draw>> /\ dirty' = dirty \ {"links"} /\ TypeInv'
        /\ overlay'.prev = proc'.links /\ SameChain
    BY DEF DidLinksEnd, DidLinksSee, DidLinks, OverlayIs
  <1>2. ~Fewer'
    <2>1. Cardinality(proc.links) \in Nat
      BY FieldsAreTyped, FS_CardinalityType DEF Fields, Context
    <2>2. QED BY <1>1, <2>1 DEF Fewer
  <1>3. /\ chain'.solved = chain.solved /\ chain'.buffer = chain.buffer
        /\ chain'.deferred = chain.deferred /\ chain'.ready = chain.ready
        /\ chain'.waiting = chain.waiting
    BY <1>1 DEF SameChain, ChainIs
  <1>4. ("ready" \in dirty' <=> "ready" \in dirty) /\ ("queue" \in dirty' <=> "queue" \in dirty)
    BY <1>1
  <1>5. Phased(s)' /\ Buffering(s)'
    BY <1>1, <1>3, <1>4 DEF Context, Coupled, Phased, Buffering
  <1>6. Signalling(s)'
    BY <1>1, <1>2, <1>3, <1>4 DEF Context, Coupled, Signalling, Still
  <1>7. CASE DidLinksEnd
    <2>1. chain.ready
      BY <1>7 DEF DidLinksEnd, Context, Coupled, Resolving
    <2>2. chain'.ready
      BY <2>1, <1>3
    <2>3. Resolving' /\ Batching(s)'
      BY <2>2, <1>1, <1>2 DEF Context, Coupled, Resolving, Batching
    <2>4. ~(s.solving # NoLink /\ chain.deferred = NoLink)
      BY <1>7 DEF DidLinksEnd, Context, Coupled, Phased, WellFormed
    <2>5. Holding(s)'
      BY <2>2, <2>4, <1>3 DEF Holding
    <2>6. QED BY <1>5, <1>6, <2>3, <2>5 DEF Coupled
  <1>8. CASE DidLinksSee
    <2>1. OverlayIs(overlay.prev', overlay.inFlight, overlay.current, overlay.resolutions)
      BY <1>8 DEF DidLinksSee, OverlayIs
    <2>2. /\ Cur("hold")' = Cur("hold") /\ Cur("impact")' = Cur("impact") /\ Playing' = Playing
          /\ overlay'.inFlight = overlay.inFlight
      BY <2>1, <1>1 DEF OverlayIs, Cur, Playing
    <2>3. Resolving' /\ Batching(s)'
      BY <2>2, <1>1, <1>2, <1>3 DEF Context, Coupled, Resolving, Batching
    <2>4. Holding(s)'
      BY <2>2, <1>1, <1>3 DEF Context, Coupled, Holding
    <2>5. QED BY <1>5, <1>6, <2>3, <2>4 DEF Coupled
  <1>9. QED BY <1>7, <1>8

LEMMA CoupledLinksNew ==
    ASSUME NEW s, Context(s), DidLinksNew
    PROVE  Coupled(s)'
  <1>1. /\ UNCHANGED <<proc, runner, draw>> /\ dirty' = dirty \ {"links"}
        /\ proc.phase = "resolving" /\ Fewer /\ ~overlay.inFlight
    BY DEF DidLinksNew, DidLinks
  <1>2. /\ chain'.solved = chain.solved /\ chain'.buffer = chain.buffer
        /\ chain'.deferred = chain.deferred /\ chain'.waiting = chain.waiting
        /\ chain'.ready = FALSE
    BY DEF DidLinksNew, ChainIs
  <1>3. overlay'.inFlight /\ Cur("hold")'
    <2>1. PICK id \in Nat \ {0} : OverlayIs(proc.links, TRUE, id, overlay.resolutions \cup {Newborn(id)})
      BY DEF DidLinksNew
    <2>2. Newborn(id).id = id /\ Newborn(id).at = "hold"
      BY DEF Newborn
    <2>3. QED BY <2>1, <2>2 DEF OverlayIs, Cur
  <1>4. ("ready" \in dirty' <=> "ready" \in dirty) /\ ("queue" \in dirty' <=> "queue" \in dirty)
    BY <1>1
  <1>5. chain.ready
    BY <1>1 DEF Context, Coupled, Resolving
  <1>6. ~runner.armed /\ ~Awaits(proc.queue)
    BY <1>1, <1>5 DEF Context, Coupled, Signalling, Batching
  <1>7. Phased(s)' /\ Buffering(s)'
    BY <1>1, <1>2, <1>4 DEF Context, Coupled, Phased, Buffering
  <1>8. Resolving' /\ Batching(s)'
    BY <1>1, <1>3, <1>6 DEF Context, Coupled, Resolving, Batching
  <1>9. Holding(s)'
    BY <1>1, <1>3, <1>6 DEF Holding
  <1>10. Signalling(s)'
    BY <1>1, <1>2, <1>4, <1>6 DEF Context, Coupled, Signalling, Still
  <1>11. QED BY <1>7, <1>8, <1>9, <1>10 DEF Coupled

\* The current resolution is the only one of its number.
LEMMA CurrentIs ==
    ASSUME OverlayInv, Sane, NEW r \in overlay.resolutions, r.at \in {"hold", "impact"}
    PROVE  /\ r.id = overlay.current /\ ~r.aborted
           /\ \A at : Cur(at) => r.at = at
           /\ \A o \in overlay.resolutions : o.id = r.id => o = r
  BY DEF OverlayInv, OverlayOK, Cur

LEMMA CoupledFinish ==
    ASSUME NEW s, Context(s), NEW r \in overlay.resolutions, DidFinish(r)
    PROVE  Coupled(s)'
  <1>1. /\ UNCHANGED <<proc, runner, draw>> /\ dirty' = dirty \cup Wakes /\ Quiet
        /\ r.at \in {"hold", "impact"} /\ (r.at = "hold" => chain.buffer = <<>>)
        /\ overlay'.prev = overlay.prev
    BY DEF DidFinish, Local, Ended, OverlayIs
  <1>2. /\ chain'.solved = chain.solved /\ chain'.buffer = chain.buffer
        /\ chain'.deferred = chain.deferred /\ chain'.waiting = chain.waiting
        /\ chain'.ready
    BY DEF DidFinish, Ended, ChainIs
  <1>3. /\ dirty = {} /\ ~(runner.armed /\ chain.ready)
        /\ "tick" \notin PcsOf(runner) /\ "exit" \notin PcsOf(runner)
    BY <1>1, QuietIs
  <1>4. "queue" \notin dirty' /\ ("ready" \in dirty' => ~chain.ready)
    BY <1>1, <1>3, WakesAre
  <1>5. Cur("hold") => r.at = "hold"
    BY <1>1, CurrentIs DEF Context
  <1>6. ~Fewer /\ (Fewer' = Fewer)
    <2>1. overlay.prev = proc.links
      BY <1>3 DEF Context, OverlayInv, Seen
    <2>2. QED BY <2>1, <1>1, SeenIsNotFewer DEF Context, Fewer
  <1>7. chain.waiting /\ ~chain.ready => Cur("hold") /\ ~runner.armed
    BY DEF Context, Coupled, Resolving, Holding
  <1>8. Phased(s)'
    BY <1>1, <1>2 DEF Context, Coupled, Phased
  <1>9. Buffering(s)'
    <2> SUFFICES ASSUME chain.buffer # <<>> PROVE Buffering(s)'
      BY <1>2 DEF Buffering
    <2>1. ~(chain.waiting /\ ~chain.ready)
      BY <1>1, <1>5, <1>7
    <2>2. ~("ready" \in dirty' /\ chain'.waiting)
      BY <2>1, <1>2, <1>4
    <2>3. QED BY <2>2, <1>1, <1>2 DEF Context, Coupled, Buffering
  <1>10. Resolving' /\ Batching(s)'
    BY <1>1, <1>2, <1>6 DEF Context, Coupled, Resolving, Batching
  <1>11. Holding(s)'
    BY <1>1, <1>2 DEF Context, Coupled, Holding
  <1>12. ~chain.ready /\ PcsOf(runner) = {} =>
            ~runner.armed \/ (chain.solved > 0 /\ s.solving = NoLink)
    <2> SUFFICES ASSUME ~chain.ready, PcsOf(runner) = {}
                 PROVE  ~runner.armed \/ (chain.solved > 0 /\ s.solving = NoLink)
      OBVIOUS
    <2>1. chain.solved \in Nat
      BY FieldsAreTyped DEF Fields, Context
    <2>2. chain.solved = 0 => ~runner.armed
      BY DEF Context, Coupled, Resolving, Holding
    <2>3. chain.solved > 0 /\ s.solving # NoLink => ~runner.armed
      BY DEF Context, Coupled, Phased, Holding
    <2>4. QED BY <2>1, <2>2, <2>3
  <1>13. Signalling(s)'
    <2>1. "ready" \in dirty' => Still' \/ (chain'.solved > 0 /\ s.solving = NoLink)
      BY <1>1, <1>2, <1>3, <1>4, <1>12 DEF Still
    <2>2. runner.armed => ~chain.waiting
      BY <1>3, <1>7
    <2>3. QED BY <2>1, <2>2, <1>1, <1>2, <1>3, <1>4, <1>6 DEF Signalling
  <1>14. QED BY <1>8, <1>9, <1>10, <1>11, <1>13 DEF Coupled

LEMMA CoupledReplay ==
    ASSUME NEW s, Context(s), NEW r \in overlay.resolutions, DidReplay(r)
    PROVE  Coupled(s)'
  <1>1. /\ UNCHANGED draw /\ dirty' = dirty \cup Wakes /\ Quiet /\ r.at = "hold"
        /\ chain.buffer # <<>> /\ proc'.links = proc.links /\ proc'.phase = proc.phase
        /\ runner'.armed = runner.armed
    BY DEF DidReplay, Local, Replays, ProcIs, MayStart, Starts
  <1>2. /\ chain'.solved = chain.solved /\ ~chain'.waiting /\ chain'.buffer = <<>>
        /\ chain'.deferred = chain.deferred /\ chain'.ready = chain.ready
    BY DEF DidReplay, Replays, ChainIs
  <1>3. /\ overlay'.prev = overlay.prev /\ overlay'.inFlight = overlay.inFlight
        /\ overlay'.current = overlay.current
        /\ overlay'.resolutions = Others(r) \cup {Stage(r, "replay")}
    BY DEF DidReplay, Replays, OverlayIs
  <1>4. /\ Ends(proc'.queue) = {r.id} /\ Awaits(proc'.queue)
    BY ReplayFacts DEF Context
  <1>5. /\ dirty = {} /\ ~(runner.armed /\ chain.ready) /\ "tick" \notin PcsOf(runner)
    BY <1>1, QuietIs
  <1>6. chain.waiting /\ chain.deferred = NoLink
    BY <1>1, <1>5 DEF Context, Coupled, Buffering
  <1>7. chain.solved > 0 /\ s.solving = NoLink
    BY <1>6 DEF Context, Coupled, Phased
  <1>8. "ready" \notin dirty'
    <2>1. "ready" \notin Wakes
      BY <1>2, WakesAre
    <2>2. QED BY <1>1, <1>5, <2>1
  <1>9. /\ r.id = overlay.current /\ ~r.aborted
        /\ \A o \in overlay.resolutions : o.id = r.id => o = r
    BY <1>1, CurrentIs DEF Context
  <1>10. Stage(r, "replay").id = r.id /\ Stage(r, "replay").at = "replay"
         /\ Stage(r, "replay").aborted = r.aborted
    BY DEF Stage
  <1>11. Playing'
    BY <1>3, <1>4, <1>9, <1>10 DEF Playing
  <1>12. ~Cur("hold")'
    BY <1>3, <1>9, <1>10 DEF Cur, Others
  <1>13. ~Fewer'
    <2>1. overlay.prev = proc.links
      BY <1>5 DEF Context, OverlayInv, Seen
    <2>2. ~Fewer
      BY <2>1, SeenIsNotFewer DEF Context
    <2>3. QED BY <2>2, <1>1, <1>3 DEF Fewer
  <1>14. Phased(s)' /\ Buffering(s)'
    BY <1>1, <1>2 DEF Context, Coupled, Phased, Buffering
  <1>15. chain'.solved # 0
    BY <1>2, <1>7
  <1>16. Resolving'
    BY <1>1, <1>2, <1>3, <1>11, <1>15 DEF Context, Coupled, Resolving
  <1>17. Batching(s)' /\ Holding(s)'
    BY <1>7, <1>12, <1>13 DEF Batching, Holding
  <1>18. Signalling(s)'
    BY <1>1, <1>2, <1>5, <1>8 DEF Signalling
  <1>19. QED BY <1>14, <1>16, <1>17, <1>18 DEF Coupled

LEMMA CoupledDraws ==
    ASSUME NEW s, Context(s), DidDraws
    PROVE  Coupled(s)'
  <1>1. /\ UNCHANGED <<proc, chain, overlay>> /\ dirty' = dirty \cup Wakes /\ Quiet /\ ~draw'.busy
        /\ runner'.armed = runner.armed
        /\ \/ PcsOf(runner') = PcsOf(runner)
           \/ PcsOf(runner) \in {{}, {"draws"}} /\ PcsOf(runner') = {"tick"}
    BY DEF DidDraws, Local
  <1>2. dirty = {} /\ ~(runner.armed /\ chain.ready)
    BY <1>1, QuietIs
  <1>3. dirty' = {}
    BY <1>1, <1>2, WakesNobody
  <1>4. /\ Cur("hold")' = Cur("hold") /\ Cur("impact")' = Cur("impact") /\ Playing' = Playing
        /\ Fewer' = Fewer
    BY <1>1, SameOverlay
  <1>5. Phased(s)' /\ Buffering(s)'
    BY <1>1, <1>3 DEF Context, Coupled, Phased, Buffering
  <1>6. Resolving' /\ Batching(s)'
    BY <1>1, <1>4 DEF Context, Coupled, Resolving, Batching
  <1>7. Holding(s)'
    BY <1>1, <1>4 DEF Context, Coupled, Holding
  <1>8. Signalling(s)'
    BY <1>1, <1>2, <1>3 DEF Signalling
  <1>9. QED BY <1>5, <1>6, <1>7, <1>8 DEF Coupled

\* A message puts an entry of its own behind the queue, and only adds links.
LEMMA CoupledSend ==
    ASSUME NEW s, Context(s), Quiet, Untouched, TypeInv',
           NEW e, e \in Entries /\ ~Own(e),
           proc'.queue = proc.queue \/ proc'.queue = Append(proc.queue, e),
           proc.links \subseteq proc'.links,
           proc'.phase = proc.phase \/ (proc.phase = "idle" /\ proc'.phase = "building")
    PROVE  Coupled(s)'
  <1>1. UNCHANGED <<runner, chain, draw, overlay>> /\ dirty' = dirty \cup Wakes
    BY DEF Untouched
  <1>2. dirty = {} /\ ~(runner.armed /\ chain.ready)
    BY QuietIs
  <1>3. "ready" \notin dirty'
    BY <1>1, <1>2, WakesAre
  <1>4. /\ Ends(proc'.queue) = Ends(proc.queue) /\ (Awaits(proc'.queue) <=> Awaits(proc.queue))
        /\ NoOwn(proc.queue) => NoOwn(proc'.queue)
    <2>1. CASE proc'.queue = proc.queue
      BY <2>1
    <2>2. CASE proc'.queue = Append(proc.queue, e)
      <3>1. Shape(proc.queue, chain.draining) /\ chain.draining \in BOOLEAN
            /\ proc.queue \in Seq(Entries)
        BY FieldsAreTyped DEF BufferInv, BufferOK, Fields, Context
      <3>2. /\ Ends(Append(proc.queue, e)) = Ends(proc.queue)
            /\ Awaits(Append(proc.queue, e)) <=> Awaits(proc.queue)
            /\ NoOwn(proc.queue) => NoOwn(Append(proc.queue, e))
        BY <3>1, ShapeAppend
      <3>3. QED BY <2>2, <3>2
    <2>3. QED BY <2>1, <2>2
  <1>5. /\ Cur("hold")' = Cur("hold") /\ Cur("impact")' = Cur("impact") /\ Playing' = Playing
    BY <1>1, <1>4, SameOverlay
  <1>6. ~Fewer => ~Fewer'
    <2>1. IsFiniteSet(proc'.links)
      <3>1. Fields'
        BY FieldsAreTyped, PTL
      <3>2. QED BY <3>1 DEF Fields
    <2>2. /\ Cardinality(proc'.links) \in Nat /\ Cardinality(proc.links) \in Nat
          /\ Cardinality(proc.links) <= Cardinality(proc'.links)
      BY <2>1, FS_Subset, FS_CardinalityType
    <2>3. Cardinality(overlay.prev) \in Nat
      <3>1. overlay.prev = proc.links
        BY <1>2 DEF Context, OverlayInv, Seen
      <3>2. QED BY <2>2, <3>1
    <2>4. QED BY <1>1, <2>2, <2>3 DEF Fewer
  <1>7. Phased(s)' /\ Buffering(s)'
    BY <1>1, <1>3, <1>4 DEF Context, Coupled, Phased, Buffering
  <1>8. Resolving'
    BY <1>1, <1>5 DEF Context, Coupled, Resolving
  <1>9. Batching(s)'
    BY <1>1, <1>4, <1>5, <1>6 DEF Context, Coupled, Batching
  <1>10. Holding(s)'
    BY <1>1, <1>5 DEF Context, Coupled, Holding
  <1>11. Signalling(s)'
    BY <1>1, <1>2, <1>3 DEF Signalling
  <1>12. QED BY <1>7, <1>8, <1>9, <1>10, <1>11 DEF Coupled

LEMMA CoupledUntouched ==
    ASSUME NEW s, Context(s), UNCHANGED <<proc, runner, chain, draw, overlay, dirty>>
    PROVE  Coupled(s)'
  <1>1. /\ Cur("hold")' = Cur("hold") /\ Cur("impact")' = Cur("impact") /\ Playing' = Playing
        /\ Fewer' = Fewer
    BY SameOverlay
  <1>2. Phased(s)' /\ Buffering(s)' /\ Resolving' /\ Batching(s)' /\ Holding(s)'
    BY <1>1 DEF Context, Coupled, Phased, Buffering, Resolving, Batching, Holding
  <1>3. Signalling(s)'
    BY <1>1 DEF Context, Coupled, Signalling, Still
  <1>4. QED BY <1>2, <1>3 DEF Coupled

\* A page that has just been reset is at the chain of its phase.
LEMMA CoupledReset ==
    ASSUME NEW ls, NEW ph, ResetTo(ls, ph), NEW s, s.phase = ph
    PROVE  Coupled(s)'
  <1>1. /\ proc'.queue = <<>> /\ proc'.phase = ph
        /\ PcsOf(runner') = {} /\ ~runner'.armed
    BY DEF ResetTo, ProcIs
  <1>2. /\ chain'.deferred = NoLink /\ ~chain'.waiting /\ chain'.buffer = <<>> /\ chain'.ready
    BY DEF ResetTo, ChainIs
  <1>3. Ends(proc'.queue) = {} /\ ~Awaits(proc'.queue)
    BY <1>1, EmptyShape
  <1>4. Still'
    BY <1>1 DEF Still
  <1>5. QED
    BY <1>1, <1>2, <1>3, <1>4
    DEF Coupled, Phased, Buffering, Batching, Resolving, Holding, Signalling

-----------------------------------------------------------------------------
(* The queue takes the chain of the page to the chain of the server. *)

PathInv(s, t) ==
    /\ Carried(proc.queue, s, t, proc.links, proc.pending)
    /\ proc.gen = t.gen /\ proc.ends = s.gen
    /\ server.up => t = ServerChain(proc.gen)

\* Without a race of a reset, the page has the chain of the queue's head.
LinkInv == Fine => \E s, t : PathInv(s, t) /\ Coupled(s)

LEMMA AlongThePath ==
    ASSUME TypeInv, BufferInv, OverlayInv, Fine, NEW s, NEW t, PathInv(s, t), Coupled(s)
    PROVE  /\ Context(s) /\ Sane /\ Good(s, proc.links, proc.pending)
           /\ Known(s, proc.links, proc.pending) /\ proc.ends = s.gen
           /\ Good(t, proc.links, proc.pending)
           /\ proc.queue # <<>> => Allowed(s, Head(proc.queue))
  <1>1. Sane
    BY DEF Fine, Sane
  <1>2. proc.queue \in Seq(Entries)
    BY FieldsAreTyped DEF Fields
  <1>3. Good(s, proc.links, proc.pending) /\ Good(t, proc.links, proc.pending)
    BY <1>2, CarriedEnds DEF PathInv
  <1>4. proc.queue # <<>> => Allowed(s, Head(proc.queue))
    BY <1>2, CarriedTail DEF PathInv
  <1>5. QED BY <1>1, <1>3, <1>4 DEF Context, Good, PathInv

LEMMA PathStays ==
    ASSUME NEW s, NEW t, PathInv(s, t), proc' = proc, server' = server
    PROVE  PathInv(s, t)'
  BY DEF PathInv, ServerChain

\* The head of the queue is taken; the links that a later chain needs stay.
LEMMA PathPops ==
    ASSUME NEW s, NEW t, PathInv(s, t), TypeInv, proc.queue # <<>>, server' = server,
           NEW u, u = After(s, Head(proc.queue)),
           NEW ls, NEW ph,
           ProcIs(Tail(proc.queue), ls, ph, proc.pending, proc.gen, u.gen),
           \A y : Later(u, y) /\ Good(y, proc.links, proc.pending) => Known(y, ls, proc.pending)
    PROVE  PathInv(u, t)'
  <1>1. proc.queue \in Seq(Entries) /\ Tail(proc.queue) \in Seq(Entries)
    BY FieldsAreTyped, TailIs DEF Fields
  <1>2. Carried(Tail(proc.queue), u, t, proc.links, proc.pending)
    BY <1>1, CarriedTail DEF PathInv
  <1>3. Carried(Tail(proc.queue), u, t, ls, proc.pending)
    BY <1>1, <1>2, CarriedLinks
  <1>4. QED BY <1>3 DEF PathInv, ProcIs, ServerChain

\* An entry that is no message goes before the queue q, and the links stay.
LEMMA PathOwn ==
    ASSUME NEW q \in Seq(Entries), NEW s, NEW t, NEW ls, NEW ps, Carried(q, s, t, ls, ps),
           NEW kind \in {"announcement", "await-signal"}
    PROVE  /\ <<Entry(kind, <<>>)>> \o q \in Seq(Entries)
           /\ Carried(<<Entry(kind, <<>>)>> \o q, s, t, ls, ps)
  <1> DEFINE e == Entry(kind, <<>>)
  <1>1. e \in Entries /\ Own(e)
    BY DEF Entry, Entries, Kinds, Own
  <1> HIDE DEF e
  <1>2. <<e>> \o q \in Seq(Entries) /\ Carried(<<e>> \o q, s, t, ls, ps)
    BY <1>1, ConsIs, CarriedOwn
  <1>3. QED BY <1>2 DEF e

LEMMA PathBatch ==
    ASSUME TypeInv, chain.buffer # <<>>, NEW id \in Nat, NEW q \in Seq(Entries),
           NEW s, NEW t, NEW ls, NEW ps, Carried(q, s, t, ls, ps)
    PROVE  Carried(Batch(id) \o q, s, t, ls, ps)
  <1> DEFINE g == Entry("group", chain.buffer)
             b == Entry("barrier", <<>>)
             e == Entry("batch-end", <<id>>)
  <1>1. /\ g \in Entries /\ b \in Entries /\ e \in Entries
        /\ Batch(id) \o q = <<g>> \o (<<b>> \o (<<e>> \o q))
    BY BatchIs
  <1>2. Own(g) /\ Own(b) /\ Own(e)
    BY DEF Entry, Own
  <1> HIDE DEF g, b, e
  <1>3. <<e>> \o q \in Seq(Entries) /\ <<b>> \o (<<e>> \o q) \in Seq(Entries)
    BY <1>1, ConsIs
  <1>4. Carried(<<e>> \o q, s, t, ls, ps)
    BY <1>1, <1>2, CarriedOwn
  <1>5. Carried(<<b>> \o (<<e>> \o q), s, t, ls, ps)
    BY <1>1, <1>2, <1>3, <1>4, CarriedOwn
  <1>6. Carried(<<g>> \o (<<b>> \o (<<e>> \o q)), s, t, ls, ps)
    BY <1>1, <1>2, <1>3, <1>5, CarriedOwn
  <1>7. QED BY <1>1, <1>6

\* A message of the server: e is what the chain t allows.
LEMMA PathSends ==
    ASSUME NEW s, NEW t, PathInv(s, t), TypeInv, server.up,
           NEW e \in Entries, NEW u, u = After(t, e), Allowed(t, e), Later(t, u),
           NEW ls, NEW ph, NEW ps, ProcIs(Append(proc.queue, e), ls, ph, ps, u.gen, proc.ends),
           \A y : Good(y, proc.links, proc.pending) => Known(y, ls, ps),
           Good(u, ls, ps), u = ServerChain(u.gen)'
    PROVE  PathInv(s, u)'
  <1>1. proc.queue \in Seq(Entries)
    BY FieldsAreTyped DEF Fields
  <1>2. Carried(proc.queue, s, t, ls, ps)
    BY <1>1, CarriedLinks DEF PathInv
  <1>3. Carried(Append(proc.queue, e), s, u, ls, ps)
    BY <1>1, <1>2, CarriedAppend
  <1>4. proc'.gen = u.gen /\ proc'.ends = s.gen
    BY DEF PathInv, ProcIs
  <1>5. Carried(proc.queue, s, u, proc.links, proc.pending)'
    BY <1>3 DEF ProcIs
  <1>6. QED BY <1>4, <1>5 DEF PathInv, ServerChain

-----------------------------------------------------------------------------
(* The link of the page and the queue is kept by each step. *)

LEMMA LinkStays ==
    ASSUME NEW s, NEW t, PathInv(s, t), proc' = proc, server' = server, Coupled(s)'
    PROVE  LinkInv'
  <1>1. PathInv(s, t)'
    BY PathStays
  <1>2. QED BY <1>1 DEF LinkInv

LEMMA LinkLoopStays ==
    ASSUME TypeInv, NEW s, Context(s), NEW t, PathInv(s, t),
           \/ DidPass \/ DidPause \/ DidFinalize \/ DidBanner \/ DidReturn
           \/ (\E pc \in Ending : DidStep(pc)) \/ DidStagger
    PROVE  LinkInv'
  <1>1. proc' = proc /\ server' = server
    BY DEF DidPass, DidPause, DidFinalize, DidBanner, DidReturn, DidStep, DidStagger, Aside, Local
  <1>2. Coupled(s)'
    BY CoupledPass, CoupledTurnsAside, CoupledReturn, CoupledStep, CoupledGroup
  <1>3. QED BY <1>1, <1>2, LinkStays

LEMMA LinkPops ==
    ASSUME TypeInv, NEW s, Context(s), NEW t, PathInv(s, t),
           Good(s, proc.links, proc.pending), Allowed(s, Head(proc.queue)), proc.ends = s.gen,
           DidPop \/ DidSignal \/ DidEvent \/ DidGroup \/ DidBatchEnd
    PROVE  LinkInv'
  <1>0. PICK u : u = After(s, Head(proc.queue))
    OBVIOUS
  <1>1. /\ Popped /\ server' = server /\ proc.queue # <<>>
        /\ Kind \notin {"solving", "solved", "end"}
    BY DEF DidPop, DidSignal, DidEvent, DidGroup, DidBatchEnd, Pops, Found, Local
  <1>2. u.gen = s.gen
    BY <1>0, <1>1, AfterIs DEF Context, Kind, Turns
  <1>3. Kind \notin {"chaining", "solving", "solved", "end"} => u = s
    BY <1>0, AfterIs DEF Context, Kind
  <1>4. ProcIs(Tail(proc.queue), proc.links, proc.phase, proc.pending, proc.gen, u.gen)
    BY <1>1, <1>2 DEF Popped
  <1>5. PathInv(u, t)'
    <2>1. \A y : Later(u, y) /\ Good(y, proc.links, proc.pending)
                    => Known(y, proc.links, proc.pending)
      BY DEF Good
    <2>2. QED BY <1>0, <1>1, <1>4, <2>1, PathPops
  <1>6. Coupled(u)'
    <2>1. CASE DidPop
      BY <2>1, <1>0, CoupledPop
    <2>2. CASE DidSignal
      <3>1. u = s
        BY <2>2, <1>3 DEF DidSignal, Pops
      <3>2. Coupled(s)'
        BY <2>2, CoupledSignal
      <3>3. QED BY <3>1, <3>2
    <2>3. CASE DidEvent
      <3>1. u = s
        BY <2>3, <1>3 DEF DidEvent
      <3>2. Coupled(s)'
        BY <2>3, CoupledEvent
      <3>3. QED BY <3>1, <3>2
    <2>4. CASE DidGroup
      <3>1. u = s
        BY <2>4, <1>3 DEF DidGroup
      <3>2. Coupled(s)'
        BY <2>4, CoupledGroup
      <3>3. QED BY <3>1, <3>2
    <2>5. CASE DidBatchEnd
      <3>1. u = s
        BY <2>5, <1>3 DEF DidBatchEnd
      <3>2. Coupled(s)'
        BY <2>5, CoupledBatchEnd
      <3>3. QED BY <3>1, <3>2
    <2>6. QED BY <2>1, <2>2, <2>3, <2>4, <2>5
  <1>7. QED BY <1>5, <1>6 DEF LinkInv

LEMMA LinkConsume ==
    ASSUME TypeInv, NEW s, Context(s), NEW t, PathInv(s, t), DidConsume
    PROVE  LinkInv'
  <1>1. server' = server
    BY DEF DidConsume, Plain, Local
  <1>2. Coupled(s)'
    BY CoupledConsume
  <1>3. proc.queue \in Seq(Entries) /\ Carried(proc.queue, s, t, proc.links, proc.pending)
    BY FieldsAreTyped DEF Fields, PathInv
  <1>4. Carried(<<Entry("announcement", <<>>)>> \o proc.queue, s, t, proc.links, proc.pending)
    BY <1>3, PathOwn
  <1>5. /\ proc'.links = proc.links /\ proc'.pending = proc.pending /\ proc'.gen = proc.gen
        /\ proc'.ends = proc.ends
        /\ proc'.queue = proc.queue \/ proc'.queue = <<Entry("announcement", <<>>)>> \o proc.queue
    BY DEF DidConsume, PutOff, Begun, ProcIs
  <1>6. PathInv(s, t)'
    BY <1>1, <1>3, <1>4, <1>5 DEF PathInv, ServerChain
  <1>7. QED BY <1>2, <1>6 DEF LinkInv

LEMMA LinkSolving ==
    ASSUME TypeInv, NEW s, Context(s), NEW t, PathInv(s, t),
           Allowed(s, Head(proc.queue)), DidSolving
    PROVE  LinkInv'
  <1>0. PICK u : u = After(s, Head(proc.queue))
    OBVIOUS
  <1>1. server' = server /\ proc.queue # <<>> /\ Kind = "solving"
    BY DEF DidSolving, Plain, Local, Found
  <1>2. u.gen = s.gen
    BY <1>0, <1>1, AfterIs DEF Context, Kind, Turns
  <1>3. Coupled(u)'
    BY <1>0, CoupledSolving
  <1>4. /\ Tail(proc.queue) \in Seq(Entries)
        /\ Carried(Tail(proc.queue), u, t, proc.links, proc.pending)
    BY <1>0, <1>1, FieldsAreTyped, TailIs, CarriedTail DEF Fields, PathInv
  <1>5. Carried(<<Entry("announcement", <<>>)>> \o Tail(proc.queue), u, t, proc.links, proc.pending)
    BY <1>4, PathOwn
  <1>6. /\ proc'.links = proc.links /\ proc'.pending = proc.pending /\ proc'.gen = proc.gen
        /\ proc'.ends = proc.ends
        /\ \/ proc'.queue = Tail(proc.queue)
           \/ proc'.queue = <<Entry("announcement", <<>>)>> \o Tail(proc.queue)
    BY DEF DidSolving, PutOff, Begun, ProcIs
  <1>7. PathInv(u, t)'
    BY <1>1, <1>2, <1>4, <1>5, <1>6 DEF PathInv, ServerChain
  <1>8. QED BY <1>3, <1>7 DEF LinkInv

\* The link that has been solved is of no later chain.
LEMMA LinkSolved ==
    ASSUME TypeInv, NEW s, Context(s), NEW t, PathInv(s, t),
           Good(s, proc.links, proc.pending), Allowed(s, Head(proc.queue)), proc.ends = s.gen,
           DidSolved
    PROVE  LinkInv'
  <1>0. PICK u : u = After(s, Head(proc.queue))
    OBVIOUS
  <1>1. /\ server' = server /\ proc.queue # <<>> /\ Kind = "solved"
        /\ ProcIs(Tail(proc.queue), LinksBut(Subject), proc.phase, proc.pending, proc.gen,
                  proc.ends)
    BY DEF DidSolved, Plain, Local, Found
  <1>2. /\ s.solving # NoLink /\ Head(proc.queue).of = <<s.solving>> /\ s.phase = "resolving"
        /\ s.solving = s.unsolved - 1 /\ s.unsolved > 0
        /\ u.gen = s.gen /\ u.phase = s.phase /\ u.unsolved = s.unsolved - 1
    BY <1>0, <1>1, AfterIs DEF Context, Kind, Turns
  <1>3. s.unsolved \in Nat /\ Subject = s.unsolved - 1
    BY <1>2 DEF Context, IsChain, Subject
  <1>4. Coupled(u)'
    BY <1>0, CoupledSolved DEF Good
  <1>5. \A y : Later(u, y) /\ Good(y, proc.links, proc.pending)
                  => Known(y, LinksBut(Subject), proc.pending)
    <2> SUFFICES ASSUME NEW y, Later(u, y), Good(y, proc.links, proc.pending),
                        NEW i \in Nat, i < y.unsolved, [idx |-> i, gen |-> y.gen] \in proc.links
                 PROVE  [idx |-> i, gen |-> y.gen] \in LinksBut(Subject)
      BY DEF Good, Known
    <2>1. y.gen = u.gen => y.unsolved <= u.unsolved
      BY <1>2 DEF Later
    <2>2. y.unsolved \in Nat
      BY DEF Good, IsChain
    <2>3. ~(i = Subject /\ y.gen = proc.ends)
      BY <1>2, <1>3, <2>1, <2>2
    <2>4. QED BY <2>3 DEF LinksBut
  <1>6. ProcIs(Tail(proc.queue), LinksBut(Subject), proc.phase, proc.pending, proc.gen, u.gen)
    BY <1>1, <1>2
  <1>7. PathInv(u, t)'
    BY <1>0, <1>1, <1>5, <1>6, PathPops
  <1>8. QED BY <1>4, <1>7 DEF LinkInv

\* The links of the chain that ends are of no later chain.
LEMMA LinkEnd ==
    ASSUME TypeInv, NEW s, Context(s), NEW t, PathInv(s, t),
           Allowed(s, Head(proc.queue)), proc.ends = s.gen, DidEnd
    PROVE  LinkInv'
  <1>0. PICK u : u = After(s, Head(proc.queue))
    OBVIOUS
  <1> DEFINE left == {k \in proc.links : k.gen > proc.ends}
  <1>1. server' = server /\ proc.queue # <<>> /\ Kind = "end"
    BY DEF DidEnd, Plain, Local, Found
  <1>2. u.gen = s.gen + 1 /\ s.gen \in Nat
    BY <1>0, <1>1, AfterIs DEF Context, Kind, Turns, IsChain
  <1>3. PICK ph : ProcIs(Tail(proc.queue), left, ph, proc.pending, proc.gen, proc.ends + 1)
    BY DEF DidEnd
  <1>4. Coupled(u)'
    BY <1>0, CoupledEnd
  <1>5. \A y : Later(u, y) /\ Good(y, proc.links, proc.pending) => Known(y, left, proc.pending)
    <2> SUFFICES ASSUME NEW y, Later(u, y), Good(y, proc.links, proc.pending),
                        NEW i \in Nat, i < y.unsolved, [idx |-> i, gen |-> y.gen] \in proc.links
                 PROVE  [idx |-> i, gen |-> y.gen] \in left
      BY DEF Good, Known
    <2>1. y.gen > proc.ends
      BY <1>2 DEF Later, Good, IsChain
    <2>2. QED BY <2>1
  <1> HIDE DEF left
  <1>6. ProcIs(Tail(proc.queue), left, ph, proc.pending, proc.gen, u.gen)
    BY <1>2, <1>3
  <1>7. PathInv(u, t)'
    BY <1>0, <1>1, <1>5, <1>6, PathPops
  <1>8. QED BY <1>4, <1>7 DEF LinkInv

LEMMA LinkReplays ==
    ASSUME TypeInv, NEW s, Context(s), NEW t, PathInv(s, t),
           DidPreReplay \/ \E r \in overlay.resolutions : DidReplay(r)
    PROVE  LinkInv'
  <1>1. proc.queue \in Seq(Entries) /\ Carried(proc.queue, s, t, proc.links, proc.pending)
    BY FieldsAreTyped DEF Fields, PathInv
  <1>2. CASE DidPreReplay
    <2>1. /\ server' = server /\ chain.buffer # <<>>
          /\ ProcIs(Batch(0) \o proc.queue, proc.links, proc.phase, proc.pending, proc.gen,
                    proc.ends)
      BY <1>2 DEF DidPreReplay, Plain, Local, Found
    <2>2. Carried(Batch(0) \o proc.queue, s, t, proc.links, proc.pending)
      BY <1>1, <2>1, PathBatch
    <2>3. PathInv(s, t)'
      BY <2>1, <2>2 DEF PathInv, ProcIs, ServerChain
    <2>4. Coupled(s)'
      BY <1>2, CoupledPreReplay
    <2>5. QED BY <2>3, <2>4 DEF LinkInv
  <1>3. ASSUME NEW r \in overlay.resolutions, DidReplay(r) PROVE LinkInv'
    <2>1. /\ server' = server /\ chain.buffer # <<>> /\ r.id \in Nat
          /\ ProcIs(Batch(r.id) \o (Signal \o proc.queue), proc.links, proc.phase, proc.pending,
                    proc.gen, proc.ends)
      BY <1>3, FieldsAreTyped DEF DidReplay, Replays, Local, Fields
    <2>2. /\ Signal \o proc.queue \in Seq(Entries)
          /\ Carried(Signal \o proc.queue, s, t, proc.links, proc.pending)
      BY <1>1, PathOwn DEF Signal
    <2>3. Carried(Batch(r.id) \o (Signal \o proc.queue), s, t, proc.links, proc.pending)
      BY <2>1, <2>2, PathBatch
    <2>4. PathInv(s, t)'
      BY <2>1, <2>3 DEF PathInv, ProcIs, ServerChain
    <2>5. Coupled(s)'
      BY <1>3, CoupledReplay
    <2>6. QED BY <2>4, <2>5 DEF LinkInv
  <1>4. QED BY <1>2, <1>3

LEMMA LinkPage ==
    ASSUME TypeInv, NEW s, Context(s), NEW t, PathInv(s, t),
           \/ DidAwait \/ DidQueue \/ DidResume \/ DidLinksEnd \/ DidLinksNew \/ DidLinksSee
           \/ (\E r \in overlay.resolutions : DidFinish(r)) \/ DidDraws \/ DidDisconnect
    PROVE  LinkInv'
  <1>1. CASE DidDisconnect
    <2>1. proc' = proc /\ ~server'.up
      BY <1>1 DEF DidDisconnect, ServerIs
    <2>2. PathInv(s, t)'
      BY <2>1 DEF PathInv
    <2>3. Coupled(s)'
      BY <1>1, CoupledUntouched DEF DidDisconnect
    <2>4. QED BY <2>2, <2>3 DEF LinkInv
  <1>2. CASE ~DidDisconnect
    <2>1. proc' = proc /\ server' = server
      BY <1>2 DEF DidAwait, DidQueue, DidResume, DidLinksEnd, DidLinksNew, DidLinksSee, DidLinks,
                  DidFinish, DidDraws, Aside, Local
    <2>2. Coupled(s)'
      BY <1>2, CoupledAwait, CoupledQueue, CoupledResume, CoupledLinks, CoupledLinksNew,
         CoupledFinish, CoupledDraws
    <2>3. QED BY <2>1, <2>2, LinkStays
  <1>3. QED BY <1>1, <1>2

\* What the server sends when the socket is down does not arrive.
LEMMA LinkMissed ==
    ASSUME TypeInv, NEW s, Context(s), NEW t, PathInv(s, t), Quiet, Untouched, TypeInv',
           proc' = proc, ~server'.up
    PROVE  LinkInv'
  <1>1. PathInv(s, t)'
    BY DEF PathInv
  <1>2. Coupled(s)'
    BY EndIs, CoupledSend
  <1>3. QED BY <1>1, <1>2 DEF LinkInv

\* The phase and the links of the page after a message.
LEMMA LinkReceived ==
    ASSUME TypeInv, NEW s, Context(s), NEW t, PathInv(s, t), Quiet, Untouched, TypeInv',
           server.up, NEW e, e \in Entries /\ ~Own(e), NEW u, u = After(t, e), Allowed(t, e),
           Later(t, u), NEW ls, proc.links \subseteq ls, NEW ps,
           NEW ph, ph = proc.phase \/ (proc.phase = "idle" /\ ph = "building"),
           ProcIs(Append(proc.queue, e), ls, ph, ps, u.gen, proc.ends),
           \A y : Good(y, proc.links, proc.pending) => Known(y, ls, ps),
           Good(u, ls, ps), u = ServerChain(u.gen)'
    PROVE  LinkInv'
  <1>1. PathInv(s, u)'
    BY PathSends
  <1>2. Coupled(s)'
    BY CoupledSend DEF ProcIs
  <1>3. QED BY <1>1, <1>2 DEF LinkInv

\* Committing the pending links loses none.
LEMMA CommitKnows ==
    \A y, ps : Good(y, proc.links, proc.pending) => Known(y, proc.links \cup proc.pending, ps)
  BY DEF Good, Known

\* The chain of the server.
LEMMA AtServer ==
    ASSUME TypeInv, NEW s, NEW t, PathInv(s, t), server.up
    PROVE  /\ t = ServerChain(proc.gen)
           /\ t.phase = server.phase /\ t.links = server.links /\ t.unsolved = server.unsolved
           /\ t.solving = server.solving /\ t.gen = proc.gen
           /\ t.links \in Nat /\ t.unsolved \in Nat /\ t.gen \in Nat
           /\ IsChain(t) /\ WellFormed(t)
  <1>1. t = ServerChain(proc.gen) /\ proc.gen = t.gen
    BY DEF PathInv
  <1>2. /\ server.phase \in Phases /\ server.links \in Nat /\ server.unsolved \in Nat
        /\ server.solving \in Nat \cup {NoLink} /\ proc.gen \in Nat
    BY FieldsAreTyped DEF Fields
  <1>3. /\ IsChain(t) /\ t.phase = server.phase /\ t.links = server.links
        /\ t.unsolved = server.unsolved /\ t.solving = server.solving
    <2>1. t = ChainOf(server.phase, server.links, server.unsolved, server.solving, proc.gen)
      BY <1>1 DEF ServerChain
    <2>2. QED BY <1>2, <2>1 DEF ChainOf, IsChain
  <1>4. WellFormed(t)
    BY <1>3 DEF TypeInv, WellFormed
  <1>5. QED BY <1>1, <1>2, <1>3, <1>4

LEMMA LinkChaining ==
    ASSUME TypeInv, NEW s, Context(s), NEW t, PathInv(s, t),
           Good(t, proc.links, proc.pending), DidChaining, server.up
    PROVE  LinkInv'
  <1>1. /\ Quiet /\ Untouched /\ TypeInv' /\ server.phase # "resolving"
        /\ ServerIs("building", server.links + 1, server.unsolved + 1, server.solving,
                    server.events, server.up)
    BY DEF DidChaining
  <1>2. /\ t = ServerChain(proc.gen)
        /\ t.phase = server.phase /\ t.links = server.links /\ t.unsolved = server.unsolved
        /\ t.solving = server.solving /\ t.gen = proc.gen
        /\ t.links \in Nat /\ t.unsolved \in Nat /\ t.gen \in Nat
        /\ IsChain(t) /\ WellFormed(t)
    BY AtServer
  <1>3. PICK e : e = Entry("chaining", <<server.links>>)
    OBVIOUS
  <1>4. e \in Entries /\ ~Own(e) /\ e.kind = "chaining" /\ e.of = <<server.links>>
    BY <1>2, <1>3, EntryIs
  <1>5. Allowed(t, e)
    BY <1>1, <1>2, <1>4 DEF Allowed
  <1>6. PICK u : u = After(t, e)
    OBVIOUS
  <1>7. /\ t.unsolved = t.links
        /\ Turns(t, u, "building", t.links + 1, t.unsolved + 1, t.solving, t.gen)
    BY <1>2, <1>4, <1>5, <1>6, AfterIs
  <1>8. Later(t, u) /\ IsChain(u) /\ WellFormed(u) /\ u.phase = "building" /\ u.gen = t.gen
        /\ u.unsolved = t.unsolved + 1
        /\ u = ChainOf("building", t.links + 1, t.unsolved + 1, t.solving, t.gen)
    BY <1>7 DEF Turns
  <1> DEFINE ls == proc.links \cup proc.pending
             ps == {[idx |-> server.links, gen |-> proc.gen]}
  <1>9. Known(u, ls, ps)
    <2> SUFFICES ASSUME NEW i \in Nat, i < u.unsolved
                 PROVE  [idx |-> i, gen |-> u.gen] \in ls \cup ps
      BY <1>8 DEF Known
    <2>1. CASE i < t.unsolved
      BY <2>1, <1>8 DEF Good, Known
    <2>2. CASE i = t.unsolved
      BY <2>2, <1>2, <1>7, <1>8
    <2>3. QED BY <2>1, <2>2, <1>2, <1>8
  <1>10. u = ServerChain(u.gen)'
    BY <1>1, <1>2, <1>8 DEF ServerChain, ServerIs
  <1>11. PICK ph : /\ ph = proc.phase \/ (proc.phase = "idle" /\ ph = "building")
                   /\ ProcIs(Append(proc.queue, e), ls, ph, ps, proc.gen, proc.ends)
    BY <1>3 DEF DidChaining, Receives
  <1>12. /\ proc.links \subseteq ls /\ Good(u, ls, ps)
         /\ \A y : Good(y, proc.links, proc.pending) => Known(y, ls, ps)
    BY <1>8, <1>9, CommitKnows DEF Good
  <1> HIDE DEF ls, ps
  <1>13. ProcIs(Append(proc.queue, e), ls, ph, ps, u.gen, proc.ends)
    BY <1>2, <1>8, <1>11
  <1>14. QED
    BY <1>1, <1>4, <1>5, <1>6, <1>8, <1>10, <1>11, <1>12, <1>13, LinkReceived

LEMMA LinkPrompt ==
    ASSUME TypeInv, NEW s, Context(s), NEW t, PathInv(s, t), DidPrompt
    PROVE  LinkInv'
  <1>1. /\ Quiet /\ Untouched /\ TypeInv' /\ server' = server
        /\ ProcIs(proc.queue, proc.links \cup proc.pending, proc.phase, {}, proc.gen, proc.ends)
    BY DEF DidPrompt, Receives
  <1>2. proc.queue \in Seq(Entries)
    BY FieldsAreTyped DEF Fields
  <1>3. Carried(proc.queue, s, t, proc.links \cup proc.pending, {})
    BY <1>2, CommitKnows, CarriedLinks DEF PathInv
  <1>4. PathInv(s, t)'
    BY <1>1, <1>3 DEF PathInv, ProcIs, ServerChain
  <1>5. Coupled(s)'
    BY <1>1, EndIs, CoupledSend DEF ProcIs
  <1>6. QED BY <1>4, <1>5 DEF LinkInv

LEMMA LinkSendSolving ==
    ASSUME TypeInv, NEW s, Context(s), NEW t, PathInv(s, t),
           Good(t, proc.links, proc.pending), DidSendSolving, server.up
    PROVE  LinkInv'
  <1>1. /\ Quiet /\ Untouched /\ TypeInv'
        /\ server.unsolved > 0 /\ server.solving = NoLink /\ server.unsolved - 1 \in Nat
        /\ ServerIs("resolving", server.links, server.unsolved, server.unsolved - 1,
                    server.events, server.up)
    BY DEF DidSendSolving
  <1>2. /\ t = ServerChain(proc.gen)
        /\ t.phase = server.phase /\ t.links = server.links /\ t.unsolved = server.unsolved
        /\ t.solving = server.solving /\ t.gen = proc.gen
        /\ IsChain(t) /\ WellFormed(t)
    BY AtServer
  <1>3. PICK e : e = Entry("solving", <<server.unsolved - 1>>)
    OBVIOUS
  <1>4. e \in Entries /\ ~Own(e) /\ e.kind = "solving" /\ e.of = <<server.unsolved - 1>>
    BY <1>1, <1>3, EntryIs
  <1>5. Allowed(t, e)
    BY <1>1, <1>2, <1>4 DEF Allowed
  <1>6. PICK u : u = After(t, e)
    OBVIOUS
  <1>7. Turns(t, u, "resolving", t.links, t.unsolved, t.unsolved - 1, t.gen)
    BY <1>2, <1>4, <1>5, <1>6, AfterIs
  <1>8. Later(t, u) /\ IsChain(u) /\ WellFormed(u) /\ u.gen = t.gen /\ u.unsolved = t.unsolved
        /\ u = ChainOf("resolving", t.links, t.unsolved, t.unsolved - 1, t.gen)
    BY <1>7 DEF Turns
  <1> DEFINE ls == proc.links \cup proc.pending
  <1>9. Known(u, ls, {})
    BY <1>8 DEF Good, Known
  <1>10. u = ServerChain(u.gen)'
    BY <1>1, <1>2, <1>8 DEF ServerChain, ServerIs
  <1>11. ProcIs(Append(proc.queue, e), ls, proc.phase, {}, proc.gen, proc.ends)
    BY <1>3 DEF DidSendSolving, Receives
  <1>12. /\ proc.links \subseteq ls /\ Good(u, ls, {})
         /\ \A y : Good(y, proc.links, proc.pending) => Known(y, ls, {})
    BY <1>8, <1>9, CommitKnows DEF Good
  <1> HIDE DEF ls
  <1>13. ProcIs(Append(proc.queue, e), ls, proc.phase, {}, u.gen, proc.ends)
    BY <1>2, <1>8, <1>11
  <1>14. QED
    BY <1>1, <1>4, <1>5, <1>6, <1>8, <1>10, <1>12, <1>13, LinkReceived

LEMMA LinkSendSolved ==
    ASSUME TypeInv, NEW s, Context(s), NEW t, PathInv(s, t),
           Good(t, proc.links, proc.pending), DidSendSolved, server.up
    PROVE  LinkInv'
  <1>1. /\ Quiet /\ Untouched /\ TypeInv'
        /\ server.solving # NoLink /\ server.solving \in Nat /\ server.unsolved > 0
        /\ ServerIs(server.phase, server.links, server.unsolved - 1, NoLink, server.events,
                    server.up)
    BY DEF DidSendSolved
  <1>2. /\ t = ServerChain(proc.gen)
        /\ t.phase = server.phase /\ t.links = server.links /\ t.unsolved = server.unsolved
        /\ t.solving = server.solving /\ t.gen = proc.gen /\ t.unsolved \in Nat
        /\ IsChain(t) /\ WellFormed(t)
    BY AtServer
  <1>3. PICK e : e = Entry("solved", <<server.solving>>)
    OBVIOUS
  <1>4. e \in Entries /\ ~Own(e) /\ e.kind = "solved" /\ e.of = <<server.solving>>
    BY <1>1, <1>3, EntryIs
  <1>5. Allowed(t, e)
    BY <1>1, <1>2, <1>4 DEF Allowed
  <1>6. PICK u : u = After(t, e)
    OBVIOUS
  <1>7. t.phase = "resolving" /\ Turns(t, u, t.phase, t.links, t.unsolved - 1, NoLink, t.gen)
    BY <1>2, <1>4, <1>5, <1>6, AfterIs
  <1>8. Later(t, u) /\ IsChain(u) /\ WellFormed(u) /\ u.gen = t.gen
        /\ u.unsolved = t.unsolved - 1
        /\ u = ChainOf(t.phase, t.links, t.unsolved - 1, NoLink, t.gen)
    BY <1>7 DEF Turns
  <1>9. Known(u, proc.links, proc.pending)
    <2> SUFFICES ASSUME NEW i \in Nat, i < u.unsolved
                 PROVE  [idx |-> i, gen |-> u.gen] \in proc.links
      BY DEF Known
    <2>1. i < t.unsolved
      BY <1>2, <1>8
    <2>2. QED BY <2>1, <1>7, <1>8 DEF Good, Known
  <1>10. u = ServerChain(u.gen)'
    BY <1>1, <1>2, <1>8 DEF ServerChain, ServerIs
  <1>11. ProcIs(Append(proc.queue, e), proc.links, proc.phase, proc.pending, u.gen, proc.ends)
    BY <1>2, <1>3, <1>8 DEF DidSendSolved, Receives
  <1>12. /\ Good(u, proc.links, proc.pending)
         /\ \A y : Good(y, proc.links, proc.pending) => Known(y, proc.links, proc.pending)
    BY <1>8, <1>9 DEF Good
  <1>13. QED
    BY <1>1, <1>4, <1>5, <1>6, <1>8, <1>10, <1>11, <1>12, LinkReceived

LEMMA LinkSendEnd ==
    ASSUME TypeInv, NEW s, Context(s), NEW t, PathInv(s, t), DidSendEnd, server.up
    PROVE  LinkInv'
  <1>1. /\ Quiet /\ Untouched /\ TypeInv'
        /\ server.phase = "resolving" /\ server.unsolved = 0
        /\ ServerIs("idle", 0, 0, NoLink, server.events, server.up)
    BY DEF DidSendEnd
  <1>2. /\ t = ServerChain(proc.gen)
        /\ t.phase = server.phase /\ t.unsolved = server.unsolved
        /\ t.gen = proc.gen /\ IsChain(t) /\ WellFormed(t)
    BY AtServer
  <1>3. PICK e : e = Entry("end", <<>>)
    OBVIOUS
  <1>4. e \in Entries /\ ~Own(e) /\ e.kind = "end"
    BY <1>3, EndIs
  <1>5. Allowed(t, e)
    BY <1>1, <1>2, <1>4 DEF Allowed
  <1>6. PICK u : u = After(t, e)
    OBVIOUS
  <1>7. Turns(t, u, "idle", 0, 0, NoLink, t.gen + 1)
    BY <1>2, <1>4, <1>5, <1>6, AfterIs
  <1>8. Later(t, u) /\ IsChain(u) /\ WellFormed(u) /\ u.gen = t.gen + 1
        /\ u.unsolved = 0 /\ u = ChainOf("idle", 0, 0, NoLink, t.gen + 1)
    BY <1>7 DEF Turns
  <1> DEFINE ls == proc.links \cup proc.pending
  <1>9. Known(u, ls, {})
    BY <1>8 DEF Known
  <1>10. u = ServerChain(u.gen)'
    BY <1>1, <1>2, <1>8 DEF ServerChain, ServerIs
  <1>11. ProcIs(Append(proc.queue, e), ls, proc.phase, {}, proc.gen + 1, proc.ends)
    BY <1>3 DEF DidSendEnd, Receives
  <1>12. /\ proc.links \subseteq ls /\ Good(u, ls, {})
         /\ \A y : Good(y, proc.links, proc.pending) => Known(y, ls, {})
    BY <1>8, <1>9, CommitKnows DEF Good
  <1> HIDE DEF ls
  <1>13. ProcIs(Append(proc.queue, e), ls, proc.phase, {}, u.gen, proc.ends)
    BY <1>2, <1>8, <1>11
  <1>14. QED
    BY <1>1, <1>4, <1>5, <1>6, <1>8, <1>10, <1>12, <1>13, LinkReceived

LEMMA LinkSendEvent ==
    ASSUME TypeInv, NEW s, Context(s), NEW t, PathInv(s, t), Stragglers = FALSE,
           Good(t, proc.links, proc.pending), DidSendEvent, server.up
    PROVE  LinkInv'
  <1>1. /\ Quiet /\ Untouched /\ TypeInv'
        /\ server.phase # "resolving" \/ server.solving # NoLink \/ server.unsolved = 0
        /\ ServerIs(server.phase, server.links, server.unsolved, server.solving,
                    server.events + 1, server.up)
    BY DEF DidSendEvent
  <1>2. /\ t = ServerChain(proc.gen)
        /\ t.phase = server.phase /\ t.links = server.links /\ t.unsolved = server.unsolved
        /\ t.solving = server.solving /\ t.gen = proc.gen
        /\ IsChain(t) /\ WellFormed(t)
    BY AtServer
  <1>3. PICK e : e = Entry("event", <<server.events + 1>>)
    OBVIOUS
  <1>4. e \in Entries /\ ~Own(e) /\ e.kind = "event"
    <2>1. server.events + 1 \in Nat
      BY FieldsAreTyped DEF Fields
    <2>2. QED BY <2>1, <1>3, EntryIs
  <1>5. Allowed(t, e)
    BY <1>1, <1>2, <1>4 DEF Allowed
  <1>6. PICK u : u = After(t, e)
    OBVIOUS
  <1>7. u = t /\ Later(t, u)
    BY <1>2, <1>4, <1>5, <1>6, AfterIs, LaterRefl
  <1>8. u = ServerChain(u.gen)'
    BY <1>1, <1>2, <1>7 DEF ServerChain, ServerIs
  <1>9. ProcIs(Append(proc.queue, e), proc.links, proc.phase, proc.pending, u.gen, proc.ends)
    BY <1>2, <1>3, <1>7 DEF DidSendEvent, Receives
  <1>10. /\ Good(u, proc.links, proc.pending)
         /\ \A y : Good(y, proc.links, proc.pending) => Known(y, proc.links, proc.pending)
    BY <1>7 DEF Good
  <1>11. QED
    BY <1>1, <1>4, <1>5, <1>6, <1>7, <1>8, <1>9, <1>10, LinkReceived

LEMMA LinkReset ==
    ASSUME TypeInv', NEW ls, NEW ph, ResetTo(ls, ph), server'.phase = ph,
           \A i \in Nat : i < server'.unsolved => [idx |-> i, gen |-> 0] \in ls
    PROVE  LinkInv'
  <1>1. PICK g : g = ServerChain(0)'
    OBVIOUS
  <1>2. /\ server'.phase \in Phases /\ server'.links \in Nat /\ server'.unsolved \in Nat
        /\ server'.solving \in Nat \cup {NoLink}
    <2>1. Fields'
      BY FieldsAreTyped, PTL
    <2>2. QED BY <2>1 DEF Fields
  <1>3. g = ChainOf(server'.phase, server'.links, server'.unsolved, server'.solving, 0)
    BY <1>1 DEF ServerChain
  <1>4. /\ IsChain(g) /\ g.phase = server'.phase /\ g.links = server'.links
        /\ g.unsolved = server'.unsolved /\ g.solving = server'.solving /\ g.gen = 0
    BY <1>2, <1>3 DEF ChainOf, IsChain
  <1>5. WellFormed(server)'
    BY DEF TypeInv
  <1>6. WellFormed(g)
    BY <1>4, <1>5 DEF WellFormed
  <1>7. Known(g, ls, {})
    BY <1>4 DEF Known
  <1>8. Carried(<<>>, g, g, ls, {})
    BY <1>4, <1>6, <1>7, CarriedEmpty DEF Good
  <1>9. PathInv(g, g)'
    <2>1. /\ proc'.queue = <<>> /\ proc'.links = ls /\ proc'.pending = {} /\ proc'.gen = 0
          /\ proc'.ends = 0
      BY DEF ResetTo, ProcIs
    <2>2. Carried(proc'.queue, g, g, proc'.links, proc'.pending)
      BY <1>8, <2>1
    <2>3. proc'.gen = g.gen /\ proc'.ends = g.gen /\ g = ServerChain(proc.gen)'
      BY <1>1, <1>4, <2>1 DEF ServerChain
    <2>4. QED BY <2>2, <2>3 DEF PathInv
  <1>10. Coupled(g)'
    BY <1>4, CoupledReset
  <1>11. QED BY <1>9, <1>10 DEF LinkInv

LEMMA LinkResets ==
    ASSUME TypeInv, TypeInv', Fine', DidResync \/ DidFlush
    PROVE  LinkInv'
  <1>1. /\ server.links \in Nat /\ server.unsolved \in Nat /\ server.unsolved <= server.links
        /\ server.phase = "idle" => server.unsolved = 0
    BY FieldsAreTyped DEF Fields, TypeInv, WellFormed
  <1>2. CASE DidResync
    <2>1. /\ server'.phase = server.phase /\ server'.unsolved = server.unsolved
          /\ ResetTo(Restored, server.phase)
      BY <1>2 DEF DidResync, ServerIs, Fine
    <2>2. \A i \in Nat : i < server'.unsolved => [idx |-> i, gen |-> 0] \in Restored
      BY <1>1, <2>1 DEF Restored
    <2>3. QED BY <2>1, <2>2, LinkReset
  <1>3. CASE DidFlush
    <2>1. ResetTo({}, "idle") /\ server' = server
      BY <1>3 DEF DidFlush
    <2>2. server.phase = "idle"
      BY <2>1 DEF ResetTo, Fine
    <2>3. \A i \in Nat : i < server'.unsolved => [idx |-> i, gen |-> 0] \in {}
      BY <1>1, <2>1, <2>2
    <2>4. QED BY <2>1, <2>2, <2>3, LinkReset
  <1>4. QED BY <1>2, <1>3

LEMMA LinkServer ==
    ASSUME TypeInv, Stragglers = FALSE, NEW s, Context(s), NEW t, PathInv(s, t),
           Good(t, proc.links, proc.pending),
           \/ DidChaining \/ DidPrompt \/ DidSendSolving \/ DidSendSolved \/ DidSendEnd
           \/ DidSendEvent
    PROVE  LinkInv'
  <1>1. CASE server.up
    BY <1>1, LinkChaining, LinkPrompt, LinkSendSolving, LinkSendSolved, LinkSendEnd, LinkSendEvent
  <1>2. CASE ~server.up
    <2>1. /\ Quiet /\ Untouched /\ TypeInv' /\ ~DidPrompt
      BY <1>2 DEF DidChaining, DidPrompt, DidSendSolving, DidSendSolved, DidSendEnd, DidSendEvent
    <2>2. proc' = proc
      BY <1>2, <2>1
      DEF DidChaining, DidSendSolving, DidSendSolved, DidSendEnd, DidSendEvent, Receives
    <2>3. server'.up = server.up
      BY <2>1
      DEF DidChaining, DidSendSolving, DidSendSolved, DidSendEnd, DidSendEvent, ServerIs
    <2>4. QED BY <1>2, <2>1, <2>2, <2>3, LinkMissed
  <1>3. QED BY <1>1, <1>2

\* A step that is no reset commits none of its races.
LEMMA FineBefore ==
    ASSUME LoopDid \/ PageDid \/ ServerDid, Fine'
    PROVE  (Fine /\ ~DidFire) \/ DidResync \/ DidFlush
  <1>1. CASE LoopDid
    <2>1. UNCHANGED <<parked, races>>
      BY <1>1
      DEF LoopDid, DidPass, DidPause, DidFinalize, DidBanner, DidReturn, DidStep, DidPop, Pops,
          DidSignal, DidConsume, DidSolving, DidSolved, DidEnd, Plain, DidEvent, DidGroup,
          DidStagger, DidBatchEnd, DidPreReplay, Aside, Local
    <2>2. QED BY <2>1 DEF Fine, DidFire
  <1>2. CASE PageDid
    <2>1. DidFire \/ UNCHANGED <<parked, races>>
      BY <1>2
      DEF PageDid, DidAwait, DidQueue, DidResume, DidLinksEnd, DidLinksNew, DidLinksSee, DidLinks,
          DidFinish, DidReplay, DidDraws, Aside, Local
    <2>2. ~DidFire
      BY DEF DidFire, Fine
    <2>3. QED BY <2>1, <2>2 DEF Fine
  <1>3. CASE ServerDid
    <2>1. DidResync \/ DidFlush \/ UNCHANGED <<parked, races>>
      BY <1>3
      DEF ServerDid, DidChaining, DidPrompt, DidSendSolving, DidSendSolved, DidSendEnd,
          DidSendEvent, DidDisconnect, Untouched
    <2>2. QED BY <2>1 DEF Fine, DidFire
  <1>4. QED BY <1>1, <1>2, <1>3

LEMMA LinkKept ==
    ASSUME Stragglers = FALSE, TypeInv, TypeInv', BufferInv, OverlayInv, LinkInv,
           LoopDid \/ PageDid \/ ServerDid
    PROVE  LinkInv'
  <1> SUFFICES ASSUME Fine' PROVE LinkInv'
    BY DEF LinkInv
  <1>1. CASE DidResync \/ DidFlush
    BY <1>1, LinkResets
  <1>2. CASE Fine /\ ~DidFire /\ ~DidResync /\ ~DidFlush
    <2>1. PICK s, t : PathInv(s, t) /\ Coupled(s)
      BY <1>2 DEF LinkInv
    <2>2. /\ Context(s) /\ Good(s, proc.links, proc.pending) /\ proc.ends = s.gen
          /\ Good(t, proc.links, proc.pending)
          /\ proc.queue # <<>> => Allowed(s, Head(proc.queue))
      BY <1>2, <2>1, AlongThePath
    <2>3. Found("dequeue") => proc.queue # <<>>
      BY DEF Found
    <2>4. CASE LoopDid
      <3>1. CASE DidPop \/ DidSignal \/ DidEvent \/ DidGroup \/ DidBatchEnd
        <4>1. Found("dequeue")
          BY <3>1 DEF DidPop, DidSignal, DidEvent, DidGroup, DidBatchEnd, Pops
        <4>2. QED BY <3>1, <4>1, <2>1, <2>2, <2>3, LinkPops
      <3>2. CASE DidConsume
        BY <3>2, <2>1, <2>2, LinkConsume
      <3>3. CASE DidSolving
        <4>1. Found("dequeue")
          BY <3>3 DEF DidSolving
        <4>2. QED BY <3>3, <4>1, <2>1, <2>2, <2>3, LinkSolving
      <3>4. CASE DidSolved
        <4>1. Found("dequeue")
          BY <3>4 DEF DidSolved
        <4>2. QED BY <3>4, <4>1, <2>1, <2>2, <2>3, LinkSolved
      <3>5. CASE DidEnd
        <4>1. Found("dequeue")
          BY <3>5 DEF DidEnd
        <4>2. QED BY <3>5, <4>1, <2>1, <2>2, <2>3, LinkEnd
      <3>6. CASE DidPreReplay
        BY <3>6, <2>1, <2>2, LinkReplays
      <3>7. CASE \/ DidPass \/ DidPause \/ DidFinalize \/ DidBanner \/ DidReturn
                 \/ (\E pc \in Ending : DidStep(pc)) \/ DidStagger
        BY <3>7, <2>1, <2>2, LinkLoopStays
      <3>8. QED BY <2>4, <3>1, <3>2, <3>3, <3>4, <3>5, <3>6, <3>7 DEF LoopDid
    <2>5. CASE PageDid
      BY <1>2, <2>5, <2>1, <2>2, LinkPage, LinkReplays DEF PageDid
    <2>6. CASE ServerDid
      BY <1>2, <2>6, <2>1, <2>2, LinkPage, LinkServer DEF ServerDid
    <2>7. QED BY <2>4, <2>5, <2>6
  <1>3. QED BY <1>1, <1>2, FineBefore

-----------------------------------------------------------------------------
(* The order of the events. *)

Asc(x) == \A i, k \in DOMAIN x : i < k => x[i] < x[k]
Under(A, B) == \A a \in A, b \in B : a < b
\* The events of a queue, and their order.
EventsOf(q) == UNION {Range(EventsIn(q[j])) : j \in DOMAIN q}
QueueAsc(q) ==
    /\ \A j \in DOMAIN q : Asc(EventsIn(q[j]))
    /\ \A j, k \in DOMAIN q : j < k => Under(Range(EventsIn(q[j])), Range(EventsIn(q[k])))

\* What was played, what a loop has in hand, the buffer and the queue are the events received, in
\* order; the server has numbered n.
Ordered(p, h, b, q, g, n) ==
    /\ Asc(p) /\ Asc(h) /\ Asc(b) /\ QueueAsc(q)
    /\ Under(Range(p), Range(h)) /\ Under(Range(p), Range(b)) /\ Under(Range(p), EventsOf(q))
    /\ Under(Range(h), Range(b)) /\ Under(Range(h), EventsOf(q))
    /\ Under(Range(b), EventsOf(q))
    /\ Range(p) \cup Range(h) \cup Range(b) \cup EventsOf(q) = Range(g)
    /\ \A m \in Range(g) : m \in Nat /\ m <= n

LEMMA NothingIs == Range(<<>>) = {} /\ Asc(<<>>) /\ EventsOf(<<>>) = {} /\ QueueAsc(<<>>)
  BY DEF Range, Asc, EventsOf, QueueAsc

LEMMA UnderNothing == \A A : Under(A, Range(<<>>)) /\ Under(Range(<<>>), A)
  BY NothingIs DEF Under

LEMMA RangeAppend ==
    ASSUME NEW S, NEW x \in Seq(S), NEW e \in S
    PROVE  /\ Range(Append(x, e)) = Range(x) \cup {e}
           /\ Asc(x) /\ Under(Range(x), {e}) => Asc(Append(x, e))
  <1> DEFINE y == Append(x, e)
  <1>1. /\ Len(y) = Len(x) + 1 /\ Len(x) \in Nat
        /\ y[Len(x) + 1] = e
        /\ \A j \in 1 .. Len(x) : y[j] = x[j]
        /\ DOMAIN x = 1 .. Len(x) /\ DOMAIN y = 1 .. Len(x) + 1
    BY AppendIs
  <1> HIDE DEF y
  <1>2. Range(y) = Range(x) \cup {e}
    <2>1. Range(y) \subseteq Range(x) \cup {e}
      BY <1>1 DEF Range
    <2>2. Range(x) \cup {e} \subseteq Range(y)
      <3>1. Len(x) + 1 \in 1 .. Len(x) + 1 /\ 1 .. Len(x) \subseteq 1 .. Len(x) + 1
        BY <1>1
      <3>2. QED BY <1>1, <3>1 DEF Range
    <2>3. QED BY <2>1, <2>2
  <1>3. ASSUME Asc(x), Under(Range(x), {e}), NEW i \in DOMAIN y, NEW k \in DOMAIN y, i < k
        PROVE  y[i] < y[k]
    <2>1. i \in 1 .. Len(x) /\ y[i] = x[i] /\ x[i] \in Range(x)
      BY <1>1, <1>3 DEF Range
    <2>2. CASE k \in 1 .. Len(x)
      BY <2>1, <2>2, <1>1, <1>3 DEF Asc
    <2>3. CASE k = Len(x) + 1
      BY <2>1, <2>3, <1>1, <1>3 DEF Under
    <2>4. QED BY <2>2, <2>3, <1>1
  <1>4. QED BY <1>2, <1>3 DEF Asc, y

LEMMA RangeTail ==
    ASSUME NEW S, NEW x \in Seq(S), x # <<>>
    PROVE  /\ Range(x) = {Head(x)} \cup Range(Tail(x))
           /\ Asc(x) => Asc(Tail(x)) /\ Under({Head(x)}, Range(Tail(x)))
  <1> DEFINE y == Tail(x)
  <1>1. /\ Len(y) = Len(x) - 1 /\ Len(x) \in Nat /\ Len(x) > 0
        /\ Head(x) = x[1]
        /\ \A j \in 1 .. Len(x) - 1 : y[j] = x[j + 1]
        /\ DOMAIN x = 1 .. Len(x) /\ DOMAIN y = 1 .. Len(x) - 1
    BY TailIs
  <1> HIDE DEF y
  <1>2. Range(x) = {x[1]} \cup Range(y)
    <2>1. ASSUME NEW v \in Range(x) PROVE v \in {x[1]} \cup Range(y)
      <3>1. PICK j \in 1 .. Len(x) : v = x[j]
        BY <1>1 DEF Range
      <3>2. CASE j = 1
        BY <3>1, <3>2
      <3>3. CASE j # 1
        <4>1. j - 1 \in 1 .. Len(x) - 1 /\ (j - 1) + 1 = j
          BY <1>1, <3>1, <3>3
        <4>2. y[j - 1] = v
          BY <4>1, <1>1, <3>1
        <4>3. QED BY <4>1, <4>2, <1>1 DEF Range
      <3>4. QED BY <3>2, <3>3
    <2>2. ASSUME NEW v \in Range(y) PROVE v \in Range(x)
      <3>1. PICK j \in 1 .. Len(x) - 1 : v = y[j]
        BY <1>1 DEF Range
      <3>2. j + 1 \in 1 .. Len(x) /\ v = x[j + 1]
        BY <1>1, <3>1
      <3>3. QED BY <3>2, <1>1 DEF Range
    <2>3. x[1] \in Range(x)
      <3>1. 1 \in 1 .. Len(x)
        BY <1>1
      <3>2. QED BY <3>1, <1>1 DEF Range
    <2>4. QED BY <2>1, <2>2, <2>3
  <1>3. ASSUME Asc(x) PROVE Asc(y) /\ Under({x[1]}, Range(y))
    <2>1. ASSUME NEW i \in DOMAIN y, NEW k \in DOMAIN y, i < k PROVE y[i] < y[k]
      <3>1. i + 1 \in DOMAIN x /\ k + 1 \in DOMAIN x /\ i + 1 < k + 1
        BY <1>1, <2>1
      <3>2. x[i + 1] < x[k + 1]
        BY <1>3, <3>1 DEF Asc
      <3>3. QED BY <3>2, <1>1
    <2>2. ASSUME NEW v \in Range(y) PROVE x[1] < v
      <3>1. PICK j \in 1 .. Len(x) - 1 : v = y[j]
        BY <1>1 DEF Range
      <3>2. j + 1 \in DOMAIN x /\ v = x[j + 1] /\ 1 \in DOMAIN x /\ 1 < j + 1
        BY <1>1, <3>1
      <3>3. QED BY <1>3, <3>2 DEF Asc
    <2>3. QED BY <2>1, <2>2 DEF Asc, Under
  <1>4. QED BY <1>1, <1>2, <1>3 DEF y

LEMMA QueueTail ==
    ASSUME NEW S, NEW q \in Seq(S), q # <<>>
    PROVE  /\ EventsOf(q) = Range(EventsIn(Head(q))) \cup EventsOf(Tail(q))
           /\ QueueAsc(q) => /\ QueueAsc(Tail(q)) /\ Asc(EventsIn(Head(q)))
                             /\ Under(Range(EventsIn(Head(q))), EventsOf(Tail(q)))
  <1> DEFINE y == Tail(q)
  <1>1. /\ Len(y) = Len(q) - 1 /\ Len(q) \in Nat /\ Len(q) > 0
        /\ Head(q) = q[1]
        /\ \A j \in 1 .. Len(q) - 1 : y[j] = q[j + 1]
        /\ DOMAIN q = 1 .. Len(q) /\ DOMAIN y = 1 .. Len(q) - 1
    BY TailIs
  <1> HIDE DEF y
  <1>2. 1 \in DOMAIN q /\ \A j \in DOMAIN y : j + 1 \in DOMAIN q /\ y[j] = q[j + 1] /\ 1 < j + 1
    BY <1>1
  <1>3. \A j \in DOMAIN q : j = 1 \/ (j - 1 \in DOMAIN y /\ q[j] = y[j - 1])
    <2> SUFFICES ASSUME NEW j \in 1 .. Len(q), j # 1
                 PROVE  j - 1 \in DOMAIN y /\ q[j] = y[j - 1]
      BY <1>1
    <2>1. j - 1 \in 1 .. Len(q) - 1 /\ (j - 1) + 1 = j
      BY <1>1
    <2>2. QED BY <2>1, <1>1
  <1>4. EventsOf(q) = Range(EventsIn(q[1])) \cup EventsOf(y)
    <2>1. EventsOf(q) \subseteq Range(EventsIn(q[1])) \cup EventsOf(y)
      BY <1>3 DEF EventsOf
    <2>2. Range(EventsIn(q[1])) \cup EventsOf(y) \subseteq EventsOf(q)
      BY <1>2 DEF EventsOf
    <2>3. QED BY <2>1, <2>2
  <1>5. ASSUME QueueAsc(q)
        PROVE  /\ QueueAsc(y) /\ Asc(EventsIn(q[1]))
               /\ Under(Range(EventsIn(q[1])), EventsOf(y))
    <2>1. QueueAsc(y)
      <3>1. \A j \in DOMAIN y : Asc(EventsIn(y[j]))
        BY <1>2, <1>5 DEF QueueAsc
      <3>2. ASSUME NEW j \in DOMAIN y, NEW k \in DOMAIN y, j < k
            PROVE  Under(Range(EventsIn(y[j])), Range(EventsIn(y[k])))
        <4>1. j + 1 < k + 1
          BY <1>1, <3>2
        <4>2. QED BY <4>1, <1>2, <1>5 DEF QueueAsc
      <3>3. QED BY <3>1, <3>2 DEF QueueAsc
    <2>2. ASSUME NEW j \in DOMAIN y
          PROVE  Under(Range(EventsIn(q[1])), Range(EventsIn(y[j])))
      BY <1>2, <1>5 DEF QueueAsc
    <2>3. Under(Range(EventsIn(q[1])), EventsOf(y))
      BY <2>2 DEF Under, EventsOf
    <2>4. Asc(EventsIn(q[1]))
      BY <1>2, <1>5 DEF QueueAsc
    <2>5. QED BY <2>1, <2>3, <2>4
  <1>6. QED BY <1>1, <1>4, <1>5 DEF y

LEMMA QueueCons ==
    ASSUME NEW S, NEW e \in S, NEW q \in Seq(S)
    PROVE  /\ EventsOf(<<e>> \o q) = Range(EventsIn(e)) \cup EventsOf(q)
           /\ QueueAsc(q) /\ Asc(EventsIn(e)) /\ Under(Range(EventsIn(e)), EventsOf(q))
                 => QueueAsc(<<e>> \o q)
  <1> DEFINE y == <<e>> \o q
  <1>1. /\ Len(y) = Len(q) + 1 /\ y[1] = e /\ \A j \in 1 .. Len(q) : y[j + 1] = q[j]
        /\ DOMAIN q = 1 .. Len(q) /\ DOMAIN y = 1 .. Len(q) + 1 /\ Len(q) \in Nat
    BY ConsIs
  <1> HIDE DEF y
  <1>2. 1 \in DOMAIN y /\ \A j \in DOMAIN q : j + 1 \in DOMAIN y /\ y[j + 1] = q[j]
    BY <1>1
  <1>3. \A j \in DOMAIN y : j = 1 \/ (j - 1 \in DOMAIN q /\ y[j] = q[j - 1] /\ j > 1)
    <2> SUFFICES ASSUME NEW j \in 1 .. Len(q) + 1, j # 1
                 PROVE  j - 1 \in DOMAIN q /\ y[j] = q[j - 1] /\ j > 1
      BY <1>1
    <2>1. j - 1 \in 1 .. Len(q) /\ (j - 1) + 1 = j /\ j > 1
      BY <1>1
    <2>2. QED BY <2>1, <1>1
  <1>4. EventsOf(y) = Range(EventsIn(e)) \cup EventsOf(q)
    <2>1. EventsOf(y) \subseteq Range(EventsIn(e)) \cup EventsOf(q)
      BY <1>1, <1>3 DEF EventsOf
    <2>2. EventsOf(q) \subseteq EventsOf(y)
      BY <1>2 DEF EventsOf
    <2>3. Range(EventsIn(e)) \subseteq EventsOf(y)
      BY <1>1, <1>2 DEF EventsOf
    <2>4. QED BY <2>1, <2>2, <2>3
  <1>5. ASSUME QueueAsc(q), Asc(EventsIn(e)), Under(Range(EventsIn(e)), EventsOf(q))
        PROVE  QueueAsc(y)
    <2>1. \A j \in DOMAIN y : Asc(EventsIn(y[j]))
      BY <1>1, <1>3, <1>5 DEF QueueAsc
    <2>2. ASSUME NEW j \in DOMAIN y, NEW k \in DOMAIN y, j < k
          PROVE  Under(Range(EventsIn(y[j])), Range(EventsIn(y[k])))
      <3>1. k # 1 /\ k - 1 \in DOMAIN q /\ y[k] = q[k - 1]
        BY <1>1, <1>3, <2>2
      <3>2. CASE j = 1
        <4>1. Range(EventsIn(q[k - 1])) \subseteq EventsOf(q)
          BY <3>1 DEF EventsOf
        <4>2. QED BY <4>1, <3>1, <3>2, <1>1, <1>5 DEF Under
      <3>3. CASE j # 1
        <4>1. j - 1 \in DOMAIN q /\ y[j] = q[j - 1] /\ j - 1 < k - 1
          BY <3>3, <1>1, <1>3, <2>2
        <4>2. QED BY <4>1, <3>1, <1>5 DEF QueueAsc
      <3>4. QED BY <3>2, <3>3
    <2>3. QED BY <2>1, <2>2 DEF QueueAsc
  <1>6. QED BY <1>4, <1>5 DEF y

LEMMA QueueAppend ==
    ASSUME NEW S, NEW e \in S, NEW q \in Seq(S)
    PROVE  /\ EventsOf(Append(q, e)) = EventsOf(q) \cup Range(EventsIn(e))
           /\ QueueAsc(q) /\ Asc(EventsIn(e)) /\ Under(EventsOf(q), Range(EventsIn(e)))
                 => QueueAsc(Append(q, e))
  <1> DEFINE y == Append(q, e)
             n == Len(q) + 1
  <1>1. /\ Len(y) = n /\ Len(q) \in Nat
        /\ y[n] = e /\ \A j \in 1 .. Len(q) : y[j] = q[j]
        /\ DOMAIN q = 1 .. Len(q) /\ DOMAIN y = 1 .. n
    BY AppendIs
  <1> HIDE DEF y
  <1>2. n \in DOMAIN y /\ \A j \in DOMAIN q : j \in DOMAIN y /\ y[j] = q[j] /\ j < n
    BY <1>1
  <1>3. \A j \in DOMAIN y : j = n \/ j \in DOMAIN q
    BY <1>1
  <1>4. EventsOf(y) = EventsOf(q) \cup Range(EventsIn(e))
    <2>1. EventsOf(y) \subseteq Range(EventsIn(e)) \cup EventsOf(q)
      BY <1>1, <1>3, <1>2 DEF EventsOf
    <2>2. EventsOf(q) \subseteq EventsOf(y)
      BY <1>2 DEF EventsOf
    <2>3. Range(EventsIn(e)) \subseteq EventsOf(y)
      BY <1>1, <1>2 DEF EventsOf
    <2>4. QED BY <2>1, <2>2, <2>3
  <1>5. ASSUME QueueAsc(q), Asc(EventsIn(e)), Under(EventsOf(q), Range(EventsIn(e)))
        PROVE  QueueAsc(y)
    <2>1. \A j \in DOMAIN y : Asc(EventsIn(y[j]))
      BY <1>1, <1>2, <1>3, <1>5 DEF QueueAsc
    <2>2. ASSUME NEW j \in DOMAIN y, NEW k \in DOMAIN y, j < k
          PROVE  Under(Range(EventsIn(y[j])), Range(EventsIn(y[k])))
      <3>1. j \in DOMAIN q /\ y[j] = q[j]
        BY <1>1, <2>2
      <3>2. CASE k = n
        <4>1. Range(EventsIn(q[j])) \subseteq EventsOf(q)
          BY <3>1 DEF EventsOf
        <4>2. QED BY <4>1, <3>1, <3>2, <1>1, <1>5 DEF Under
      <3>3. CASE k # n
        <4>1. k \in DOMAIN q /\ y[k] = q[k]
          BY <3>3, <1>2, <1>3
        <4>2. QED BY <4>1, <3>1, <1>5, <2>2 DEF QueueAsc
      <3>4. QED BY <3>2, <3>3
    <2>3. QED BY <2>1, <2>2 DEF QueueAsc
  <1>6. QED BY <1>4, <1>5 DEF y

\* The order is kept when an entry without events goes, comes in front or comes behind.
LEMMA OrderedTail ==
    ASSUME NEW p, NEW h, NEW b, NEW q \in Seq(Entries), NEW g, NEW n, Ordered(p, h, b, q, g, n),
           q # <<>>, EventsIn(Head(q)) = <<>>
    PROVE  Ordered(p, h, b, Tail(q), g, n)
  <1>1. EventsOf(q) = Range(EventsIn(Head(q))) \cup EventsOf(Tail(q))
    BY QueueTail
  <1>2. QueueAsc(Tail(q))
    BY QueueTail DEF Ordered
  <1>3. EventsOf(Tail(q)) = EventsOf(q)
    BY <1>1, NothingIs
  <1>4. QED BY <1>2, <1>3 DEF Ordered

LEMMA OrderedOwn ==
    ASSUME NEW p, NEW h, NEW b, NEW q \in Seq(Entries), NEW g, NEW n, Ordered(p, h, b, q, g, n),
           NEW e \in Entries, EventsIn(e) = <<>>
    PROVE  Ordered(p, h, b, <<e>> \o q, g, n)
  <1>1. EventsOf(<<e>> \o q) = Range(EventsIn(e)) \cup EventsOf(q)
    BY QueueCons
  <1>2. EventsOf(<<e>> \o q) = EventsOf(q)
    BY <1>1, NothingIs
  <1>3. Asc(EventsIn(e)) /\ Under(Range(EventsIn(e)), EventsOf(q))
    BY NothingIs DEF Under
  <1>4. QueueAsc(<<e>> \o q)
    BY <1>3, QueueCons DEF Ordered
  <1>5. QED BY <1>2, <1>4 DEF Ordered

LEMMA OrderedAppend ==
    ASSUME NEW p, NEW h, NEW b, NEW q \in Seq(Entries), NEW g, NEW n, Ordered(p, h, b, q, g, n),
           NEW e \in Entries, EventsIn(e) = <<>>
    PROVE  Ordered(p, h, b, Append(q, e), g, n)
  <1>1. EventsOf(Append(q, e)) = EventsOf(q) \cup Range(EventsIn(e))
    BY QueueAppend
  <1>2. EventsOf(Append(q, e)) = EventsOf(q)
    BY <1>1, NothingIs
  <1>3. Asc(EventsIn(e)) /\ Under(EventsOf(q), Range(EventsIn(e)))
    BY NothingIs DEF Under
  <1>4. QueueAsc(Append(q, e))
    BY <1>3, QueueAppend DEF Ordered
  <1>5. QED BY <1>2, <1>4 DEF Ordered

LEMMA NumbersAppend == \A x \in Seq(Nat), k \in Nat : Range(Append(x, k)) = Range(x) \cup {k}
  <1> SUFFICES ASSUME NEW x \in Seq(Nat), NEW k \in Nat PROVE Range(Append(x, k)) = Range(x) \cup {k}
    OBVIOUS
  <1>1. /\ Range(Append(x, k)) = Range(x) \cup {k}
        /\ Asc(x) /\ Under(Range(x), {k}) => Asc(Append(x, k))
    BY RangeAppend
  <1>2. QED BY <1>1

\* The server sends its next event.
LEMMA OrderedSend ==
    ASSUME NEW p, NEW h, NEW b, NEW q \in Seq(Entries), NEW g \in Seq(Nat), NEW n \in Nat,
           Ordered(p, h, b, q, g, n),
           NEW e \in Entries, EventsIn(e) = <<n + 1>>
    PROVE  Ordered(p, h, b, Append(q, e), g \o <<n + 1>>, n + 1)
  <1>1. Range(<<n + 1>>) = {n + 1} /\ Asc(<<n + 1>>)
    BY DEF Range, Asc
  <1>2. EventsOf(Append(q, e)) = EventsOf(q) \cup {n + 1}
    BY <1>1, QueueAppend
  <1>3. \A m \in Range(g) : m \in Nat /\ m <= n /\ m < n + 1
    BY DEF Ordered
  <1>4. /\ Range(p) \subseteq Range(g) /\ Range(h) \subseteq Range(g)
        /\ Range(b) \subseteq Range(g) /\ EventsOf(q) \subseteq Range(g)
    BY DEF Ordered
  <1>5. /\ Under(Range(p), {n + 1}) /\ Under(Range(h), {n + 1}) /\ Under(Range(b), {n + 1})
        /\ Under(EventsOf(q), {n + 1})
    BY <1>3, <1>4 DEF Under
  <1>6. QueueAsc(Append(q, e))
    BY <1>1, <1>5, QueueAppend DEF Ordered
  <1>7. g \o <<n + 1>> = Append(g, n + 1) /\ n + 1 \in Nat
    OBVIOUS
  <1>8. Range(g \o <<n + 1>>) = Range(g) \cup {n + 1}
    <2>1. PICK k \in Nat : k = n + 1
      BY <1>7
    <2>2. Range(Append(g, k)) = Range(g) \cup {k}
      BY <2>1, NumbersAppend
    <2>3. g \o <<n + 1>> = Append(g, k)
      BY <1>7, <2>1
    <2>4. QED BY <2>1, <2>2, <2>3
  <1>9. /\ Under(Range(p), EventsOf(Append(q, e))) /\ Under(Range(h), EventsOf(Append(q, e)))
        /\ Under(Range(b), EventsOf(Append(q, e)))
    BY <1>2, <1>5 DEF Ordered, Under
  <1>10. \A m \in Range(g \o <<n + 1>>) : m \in Nat /\ m <= n + 1
    BY <1>3, <1>8
  <1>11. QED BY <1>2, <1>6, <1>8, <1>9, <1>10 DEF Ordered

LEMMA OrderedLater ==
    ASSUME NEW p, NEW h, NEW b, NEW q, NEW g, NEW n \in Nat, Ordered(p, h, b, q, g, n)
    PROVE  Ordered(p, h, b, q, g, n + 1)
  <1>1. \A m \in Range(g) : m \in Nat /\ m <= n + 1
    BY DEF Ordered
  <1>2. QED BY <1>1 DEF Ordered

\* The buffer becomes the first entry of the queue.
LEMMA OrderedBatch ==
    ASSUME NEW p, NEW b, NEW q \in Seq(Entries), NEW g, NEW n,
           Ordered(p, <<>>, b, q, g, n), NEW e \in Entries, EventsIn(e) = b
    PROVE  Ordered(p, <<>>, <<>>, <<e>> \o q, g, n)
  <1>1. EventsOf(<<e>> \o q) = Range(b) \cup EventsOf(q)
    BY QueueCons
  <1>2. QueueAsc(<<e>> \o q)
    BY QueueCons DEF Ordered
  <1>3. Under(Range(p), EventsOf(<<e>> \o q))
    BY <1>1 DEF Ordered, Under
  <1>4. QED BY <1>1, <1>2, <1>3, NothingIs, UnderNothing DEF Ordered

\* The first event of the queue is buffered.
LEMMA OrderedBuffers ==
    ASSUME NEW p, NEW b \in Seq(Nat), NEW q \in Seq(Entries), NEW g, NEW n,
           Ordered(p, <<>>, b, q, g, n),
           q # <<>>, NEW e \in Nat, EventsIn(Head(q)) = <<e>>
    PROVE  Ordered(p, <<>>, Append(b, e), Tail(q), g, n)
  <1>1. Range(<<e>>) = {e}
    BY DEF Range
  <1>2. EventsOf(q) = {e} \cup EventsOf(Tail(q))
    BY <1>1, QueueTail
  <1>3. QueueAsc(Tail(q)) /\ Under({e}, EventsOf(Tail(q)))
    BY <1>1, QueueTail DEF Ordered
  <1>4. Under(Range(b), {e}) /\ Under(Range(p), {e}) /\ Under(Range(p), EventsOf(Tail(q)))
        /\ Under(Range(b), EventsOf(Tail(q)))
    BY <1>2 DEF Ordered, Under
  <1>5. Range(Append(b, e)) = Range(b) \cup {e} /\ Asc(Append(b, e))
    <2>1. Asc(b)
      BY DEF Ordered
    <2>2. QED BY <1>4, <2>1, RangeAppend
  <1>6. Under(Range(p), Range(Append(b, e))) /\ Under(Range(Append(b, e)), EventsOf(Tail(q)))
    BY <1>3, <1>4, <1>5 DEF Ordered, Under
  <1>7. /\ Range(p) \cup Range(<<>>) \cup Range(Append(b, e)) \cup EventsOf(Tail(q)) = Range(g)
        /\ \A m \in Range(g) : m \in Nat /\ m <= n
        /\ Asc(p) /\ Asc(<<>>)
    BY <1>2, <1>5, NothingIs DEF Ordered
  <1>8. QED BY <1>3, <1>4, <1>5, <1>6, <1>7, UnderNothing, Zenon DEF Ordered

\* The first event of the queue is played, and the others of its entry are in hand.
LEMMA OrderedPlays ==
    ASSUME NEW p \in Seq(Nat), NEW q \in Seq(Entries), NEW g, NEW n,
           Ordered(p, <<>>, <<>>, q, g, n),
           q # <<>>, NEW es \in Seq(Nat), es # <<>>, EventsIn(Head(q)) = es
    PROVE  Ordered(Append(p, Head(es)), Tail(es), <<>>, Tail(q), g, n)
  <1>1. Head(es) \in Nat
    BY TailIs
  <1>2. Range(es) = {Head(es)} \cup Range(Tail(es))
    BY RangeTail
  <1>3. EventsOf(q) = Range(es) \cup EventsOf(Tail(q))
    BY QueueTail
  <1>4. QueueAsc(Tail(q)) /\ Asc(es) /\ Under(Range(es), EventsOf(Tail(q)))
    BY QueueTail DEF Ordered
  <1>5. Asc(Tail(es)) /\ Under({Head(es)}, Range(Tail(es)))
    BY <1>4, RangeTail
  <1>6. /\ Under(Range(p), {Head(es)}) /\ Under(Range(p), Range(Tail(es)))
        /\ Under(Range(p), EventsOf(Tail(q)))
        /\ Under({Head(es)}, EventsOf(Tail(q))) /\ Under(Range(Tail(es)), EventsOf(Tail(q)))
    BY <1>2, <1>3, <1>4 DEF Ordered, Under
  <1>7. Range(Append(p, Head(es))) = Range(p) \cup {Head(es)} /\ Asc(Append(p, Head(es)))
    BY <1>1, <1>6, RangeAppend DEF Ordered
  <1>8. /\ Under(Range(Append(p, Head(es))), Range(Tail(es)))
        /\ Under(Range(Append(p, Head(es))), EventsOf(Tail(q)))
    BY <1>5, <1>6, <1>7 DEF Under
  <1>9. /\ Range(Append(p, Head(es))) \cup Range(Tail(es)) \cup Range(<<>>) \cup EventsOf(Tail(q))
           = Range(g)
        /\ \A m \in Range(g) : m \in Nat /\ m <= n
    BY <1>2, <1>3, <1>7, NothingIs DEF Ordered
  <1>10. Asc(<<>>)
    BY NothingIs
  <1>11. QED BY <1>4, <1>5, <1>6, <1>7, <1>8, <1>9, <1>10, UnderNothing, Zenon DEF Ordered

\* The first event in hand is played.
LEMMA OrderedStagger ==
    ASSUME NEW p \in Seq(Nat), NEW h \in Seq(Nat), NEW q, NEW g, NEW n,
           Ordered(p, h, <<>>, q, g, n), h # <<>>
    PROVE  Ordered(Append(p, Head(h)), Tail(h), <<>>, q, g, n)
  <1>1. Head(h) \in Nat
    BY TailIs
  <1>2. Range(h) = {Head(h)} \cup Range(Tail(h))
    BY RangeTail
  <1>3. Asc(Tail(h)) /\ Under({Head(h)}, Range(Tail(h)))
    BY RangeTail DEF Ordered
  <1>4. /\ Under(Range(p), {Head(h)}) /\ Under(Range(p), Range(Tail(h)))
        /\ Under({Head(h)}, EventsOf(q)) /\ Under(Range(Tail(h)), EventsOf(q))
        /\ Under(Range(p), EventsOf(q))
    BY <1>2 DEF Ordered, Under
  <1>5. Range(Append(p, Head(h))) = Range(p) \cup {Head(h)} /\ Asc(Append(p, Head(h)))
    BY <1>1, <1>4, RangeAppend DEF Ordered
  <1>6. /\ Under(Range(Append(p, Head(h))), Range(Tail(h)))
        /\ Under(Range(Append(p, Head(h))), EventsOf(q))
    BY <1>3, <1>4, <1>5 DEF Under
  <1>7. /\ Range(Append(p, Head(h))) \cup Range(Tail(h)) \cup Range(<<>>) \cup EventsOf(q)
           = Range(g)
        /\ \A m \in Range(g) : m \in Nat /\ m <= n
    BY <1>2, <1>5, NothingIs DEF Ordered
  <1>8. Asc(<<>>) /\ QueueAsc(q)
    BY NothingIs DEF Ordered
  <1>9. QED BY <1>3, <1>4, <1>5, <1>6, <1>7, <1>8, UnderNothing, Zenon DEF Ordered

-----------------------------------------------------------------------------
(* The order is kept by each step of a page that is fine. *)

OrderIn(r, c, p, l, x) ==
    Ordered(l.played, HandOf(r), c.buffer, p.queue, l.got, x.events)
InOrder == OrderIn(runner, chain, proc, log, server)
OrderInv == Fine => InOrder

\* An entry without events.
LEMMA NoEvents ==
    \A e : e.kind \notin {"event", "group"} => EventsIn(e) = <<>>
  BY DEF EventsIn

\* Nothing moves.
LEMMA OrderStays ==
    ASSUME InOrder, HandOf(runner') = HandOf(runner), chain'.buffer = chain.buffer,
           proc'.queue = proc.queue, log'.played = log.played, log'.got = log.got,
           server'.events = server.events
    PROVE  InOrder'
  <1>1. HandOf(runner)' = HandOf(runner')
    BY DEF HandOf, HandIn, Groups
  <1>2. QED BY <1>1 DEF InOrder, OrderIn

LEMMA OrderLoopStays ==
    ASSUME InOrder,
           \/ DidPass \/ DidPause \/ DidFinalize \/ DidBanner \/ DidReturn
           \/ (\E pc \in Ending : DidStep(pc))
    PROVE  InOrder'
  <1>1. /\ UNCHANGED <<proc, log, server>> /\ chain'.buffer = chain.buffer
        /\ HandOf(runner') = HandOf(runner)
    BY DEF DidPass, DidPause, DidFinalize, DidBanner, DidReturn, DidStep, Aside, SameChain, ChainIs,
           Local, Elsewhere, Found, IsAt, GoesTo
  <1>2. QED BY <1>1, OrderStays

LEMMA OrderPageStays ==
    ASSUME InOrder,
           \/ DidAwait \/ DidQueue \/ DidResume \/ DidLinksEnd \/ DidLinksNew \/ DidLinksSee
           \/ (\E r \in overlay.resolutions : DidFinish(r)) \/ DidDraws
    PROVE  InOrder'
  <1>1. UNCHANGED <<proc, log, server>> /\ chain'.buffer = chain.buffer
    BY DEF DidAwait, DidQueue, DidResume, DidLinksEnd, DidLinksNew, DidLinksSee, DidLinks,
           DidFinish, DidDraws, Aside, SameChain, ChainIs, Local, Ended
  <1>2. HandOf(runner') = HandOf(runner)
    BY DEF DidAwait, DidQueue, DidResume, DidLinksEnd, DidLinksNew, DidLinksSee, DidLinks,
           DidFinish, DidDraws, MayStart, Starts
  <1>3. QED BY <1>1, <1>2, OrderStays

\* An entry without events is taken from the queue.
LEMMA OrderPops ==
    ASSUME TypeInv, InOrder, IsAt("tick"), proc.queue # <<>>, Kind \notin {"event", "group"},
           HandOf(runner') = <<>>, chain'.buffer = chain.buffer, proc'.queue = Tail(proc.queue),
           log' = log, server' = server
    PROVE  InOrder'
  <1>1. proc.queue \in Seq(Entries)
    BY FieldsAreTyped DEF Fields
  <1>2. EventsIn(Head(proc.queue)) = <<>>
    BY NoEvents DEF Kind
  <1>3. Ordered(log.played, <<>>, chain.buffer, proc.queue, log.got, server.events)
    BY DEF InOrder, OrderIn, IsAt
  <1>4. Ordered(log.played, <<>>, chain.buffer, Tail(proc.queue), log.got, server.events)
    BY <1>1, <1>2, <1>3, OrderedTail
  <1>5. HandOf(runner)' = HandOf(runner')
    BY DEF HandOf, HandIn, Groups
  <1>6. QED BY <1>4, <1>5 DEF InOrder, OrderIn

LEMMA OrderTakes ==
    ASSUME TypeInv, InOrder, NEW s, Context(s), proc.queue # <<>> => Allowed(s, Head(proc.queue)),
           DidPop \/ DidSignal \/ DidSolved \/ DidEnd \/ DidBatchEnd
    PROVE  InOrder'
  <1>1. /\ Found("dequeue") /\ Kind \notin {"event", "group"} /\ HandOf(runner') = <<>>
        /\ proc'.queue = Tail(proc.queue) /\ log' = log /\ server' = server
    BY DEF DidPop, DidSignal, DidSolved, DidEnd, DidBatchEnd, Pops, Popped, ProcIs, GoesTo, Plain,
           Local
  <1>2. IsAt("tick") /\ proc.queue # <<>>
    BY <1>1 DEF Found
  <1>3. chain'.buffer = chain.buffer
    <2>1. CASE DidPop \/ DidSignal \/ DidSolved \/ DidBatchEnd
      BY <2>1 DEF DidPop, DidSignal, DidSolved, DidBatchEnd, Pops, CleanedUp, ChainIs
    <2>2. CASE DidEnd
      <3>1. chain'.buffer = <<>> /\ Kind = "end"
        BY <2>2 DEF DidEnd, ChainIs
      <3>2. chain.deferred = NoLink
        BY <3>1, <1>1, DequeueFacts
      <3>3. ~Drains
        BY <3>2, <1>1 DEF Found
      <3>4. chain.buffer # <<>> => proc.phase = "resolving"
        BY DEF Context, BufferInv, BufferOK
      <3>5. QED BY <3>1, <3>3, <3>4, <1>2 DEF Drains, HeadIs, Kind
    <2>3. QED BY <2>1, <2>2
  <1>4. QED BY <1>1, <1>2, <1>3, OrderPops

\* MSG_CHAIN_SOLVING finds an empty buffer.
LEMMA OrderBegins ==
    ASSUME TypeInv, NEW q \in Seq(Entries), NEW x, PutOff(x, q) \/ Begun(x, q), chain.buffer = <<>>,
           log' = log, server' = server,
           Ordered(log.played, <<>>, <<>>, q, log.got, server.events)
    PROVE  InOrder'
  <1>1. HandOf(runner)' = HandOf(runner')
    BY DEF HandOf, HandIn, Groups
  <1>2. chain'.buffer = <<>> /\ HandOf(runner') = <<>>
    BY DEF PutOff, Begun, ChainIs, GoesTo
  <1>3. PICK e : e = Entry("announcement", <<>>)
    OBVIOUS
  <1>4. e \in Entries /\ EventsIn(e) = <<>>
    BY <1>3 DEF Entry, Entries, Kinds, EventsIn
  <1>5. proc'.queue = q \/ proc'.queue = <<e>> \o q
    BY <1>3 DEF PutOff, Begun, ProcIs
  <1>6. Ordered(log.played, <<>>, <<>>, <<e>> \o q, log.got, server.events)
    BY <1>4, OrderedOwn
  <1>7. Ordered(log.played, <<>>, <<>>, proc'.queue, log.got, server.events)
    BY <1>5, <1>6
  <1>8. QED BY <1>1, <1>2, <1>7 DEF InOrder, OrderIn

LEMMA OrderSolving ==
    ASSUME TypeInv, InOrder, NEW s, Context(s), proc.queue # <<>> => Allowed(s, Head(proc.queue)),
           DidConsume \/ DidSolving
    PROVE  InOrder'
  <1>1. proc.queue \in Seq(Entries) /\ Coupled(s)
    BY FieldsAreTyped DEF Fields, Context
  <1>2. IsAt("tick") /\ log' = log /\ server' = server /\ ~chain.waiting
    BY DEF DidConsume, DidSolving, Found, Plain, Local
  <1>3. Ordered(log.played, <<>>, chain.buffer, proc.queue, log.got, server.events)
    BY <1>2 DEF InOrder, OrderIn, IsAt
  <1>4. CASE DidConsume
    <2>1. chain.deferred # NoLink
      BY <1>4 DEF DidConsume, Found
    <2>2. chain.buffer = <<>>
      BY <1>1, <2>1 DEF Coupled, Phased
    <2>3. QED BY <1>1, <1>2, <1>3, <1>4, <2>2, OrderBegins DEF DidConsume
  <1>5. CASE DidSolving
    <2>1. Found("dequeue") /\ Kind = "solving" /\ proc.queue # <<>>
      BY <1>5 DEF DidSolving, Found
    <2>2. s.unsolved > 0 /\ s.solving = NoLink
      BY <2>1, AfterIs DEF Context, Kind, Turns
    <2>3. chain.buffer = <<>>
      <3>1. s.unsolved \in Nat /\ s.unsolved # 0
        BY <2>2 DEF Context, IsChain
      <3>2. QED BY <1>1, <1>2, <2>2, <3>1 DEF Coupled, Buffering
    <2>4. EventsIn(Head(proc.queue)) = <<>>
      BY <2>1, NoEvents DEF Kind
    <2>5. Ordered(log.played, <<>>, <<>>, Tail(proc.queue), log.got, server.events)
      BY <1>1, <1>3, <2>1, <2>3, <2>4, OrderedTail
    <2>6. Tail(proc.queue) \in Seq(Entries)
      BY <1>1, <2>1
    <2>7. QED BY <1>2, <1>5, <2>3, <2>5, <2>6, OrderBegins DEF DidSolving
  <1>6. QED BY <1>4, <1>5

LEMMA HistoryIsTyped ==
    TypeInv => /\ log.played \in Seq(Nat) /\ log.got \in Seq(Nat) /\ server.events \in Nat
               /\ chain.buffer \in Seq(Nat) /\ proc.queue \in Seq(Entries)
               /\ HandOf(runner) \in Seq(Nat)
  <1>1. TypeInv => log \in [got : Seq(Nat), played : Seq(Nat)]
    BY DEF TypeInv, QueueTypeOK
  <1>2. QED BY <1>1, FieldsAreTyped DEF Fields

\* A board event is buffered, or played.
LEMMA OrderEvent ==
    ASSUME TypeInv, BufferInv, Sane, InOrder, DidEvent
    PROVE  InOrder'
  <1>1. /\ log.played \in Seq(Nat) /\ chain.buffer \in Seq(Nat) /\ proc.queue \in Seq(Entries)
    BY HistoryIsTyped
  <1>2. /\ IsAt("tick") /\ proc.queue # <<>> /\ Kind = "event" /\ Subject \in Nat
        /\ Head(proc.queue).of = <<Subject>> /\ proc'.queue = Tail(proc.queue) /\ server' = server
        /\ Buffers(Subject) \/ Plays(Subject)
        /\ HandOf(runner') = <<>>
    BY DEF DidEvent, Found, Popped, ProcIs, Local, GoesTo
  <1>3. Ordered(log.played, <<>>, chain.buffer, proc.queue, log.got, server.events)
    BY <1>2 DEF InOrder, OrderIn, IsAt
  <1>4. EventsIn(Head(proc.queue)) = <<Subject>>
    BY <1>2 DEF EventsIn, Kind
  <1>5. HandOf(runner)' = HandOf(runner')
    BY DEF HandOf, HandIn, Groups
  <1>6. PICK e \in Nat : e = Subject
    BY <1>2
  <1>7. CASE Buffers(Subject)
    <2>1. chain'.buffer = Append(chain.buffer, e) /\ log' = log
      BY <1>6, <1>7 DEF Buffers, ChainIs
    <2>2. Ordered(log.played, <<>>, Append(chain.buffer, e), Tail(proc.queue), log.got,
                  server.events)
      BY <1>1, <1>2, <1>3, <1>4, <1>6, OrderedBuffers
    <2>3. QED BY <1>2, <1>5, <2>1, <2>2 DEF InOrder, OrderIn
  <1>8. CASE Plays(Subject)
    <2>1. /\ chain'.buffer = chain.buffer /\ chain.buffer = <<>>
          /\ log'.played = Append(log.played, e) /\ log'.got = log.got
      BY <1>6, <1>8, PlayedOrBuffered DEF Plays, SameChain, ChainIs
    <2>2. PICK es : es = <<e>>
      OBVIOUS
    <2>3. es \in Seq(Nat) /\ es # <<>> /\ Head(es) = e /\ Tail(es) = <<>>
      BY <2>2
    <2>4. Ordered(log.played, <<>>, <<>>, proc.queue, log.got, server.events)
      BY <1>3, <2>1
    <2>5. EventsIn(Head(proc.queue)) = es
      BY <1>4, <1>6, <2>2
    <2>6. Ordered(Append(log.played, Head(es)), Tail(es), <<>>, Tail(proc.queue), log.got,
                  server.events)
      BY <1>1, <1>2, <2>3, <2>4, <2>5, OrderedPlays
    <2>7. Ordered(Append(log.played, e), <<>>, <<>>, Tail(proc.queue), log.got, server.events)
      BY <2>3, <2>6
    <2>8. QED BY <1>2, <1>5, <2>1, <2>7 DEF InOrder, OrderIn
  <1>9. QED BY <1>2, <1>7, <1>8

\* The events of a group are played, one after the other.
LEMMA OrderGroup ==
    ASSUME TypeInv, BufferInv, Sane, InOrder, DidGroup \/ DidStagger
    PROVE  InOrder'
  <1>1. /\ log.played \in Seq(Nat) /\ proc.queue \in Seq(Entries) /\ HandOf(runner) \in Seq(Nat)
    BY HistoryIsTyped
  <1>2. chain.draining
    <2>1. CASE DidGroup
      BY <2>1, BufferTail DEF DidGroup, Found
    <2>2. CASE DidStagger
      BY <2>2 DEF DidStagger, BufferInv, BufferOK
    <2>3. QED BY <2>1, <2>2
  <1>3. PICK es : /\ GroupFrom(es) /\ es \in Seq(Nat) /\ es # <<>>
                  /\ DidGroup => es = Head(proc.queue).of
                  /\ DidStagger => es = HandOf(runner)
    <2>1. CASE DidGroup /\ ~DidStagger
      BY <2>1 DEF DidGroup
    <2>2. CASE DidStagger
      <3>1. ~DidGroup
        BY <2>2 DEF DidGroup, DidStagger, Found, IsAt
      <3>2. QED BY <3>1, <2>2, <1>1 DEF DidStagger
    <2>3. QED BY <2>1, <2>2
  <1>4. /\ chain.buffer = <<>> /\ chain'.buffer = chain.buffer /\ HandOf(runner') = Tail(es)
        /\ log'.played = Append(log.played, Head(es)) /\ log'.got = log.got
    BY <1>2, <1>3, PlayedOrBuffered DEF GroupFrom, Plays, SameChain, ChainIs
  <1>5. server' = server
    BY DEF DidGroup, DidStagger, Local
  <1>6. HandOf(runner)' = HandOf(runner')
    BY DEF HandOf, HandIn, Groups
  <1>7. Ordered(Append(log.played, Head(es)), Tail(es), <<>>, proc'.queue, log.got, server.events)
    <2>1. CASE DidGroup
      <3>1. /\ IsAt("tick") /\ proc.queue # <<>> /\ Kind = "group"
            /\ proc'.queue = Tail(proc.queue)
        BY <2>1 DEF DidGroup, Found, Popped, ProcIs
      <3>2. EventsIn(Head(proc.queue)) = es
        BY <2>1, <1>3, <3>1 DEF EventsIn, Kind
      <3>3. Ordered(log.played, <<>>, <<>>, proc.queue, log.got, server.events)
        BY <1>4, <3>1 DEF InOrder, OrderIn, IsAt
      <3>4. QED BY <1>1, <1>3, <3>1, <3>2, <3>3, OrderedPlays
    <2>2. CASE DidStagger
      <3>1. proc' = proc /\ es = HandOf(runner)
        BY <2>2, <1>3 DEF DidStagger
      <3>2. Ordered(log.played, es, <<>>, proc.queue, log.got, server.events)
        BY <1>4, <3>1 DEF InOrder, OrderIn
      <3>3. QED BY <1>1, <1>3, <3>1, <3>2, OrderedStagger
    <2>3. QED BY <2>1, <2>2
  <1>8. QED BY <1>4, <1>5, <1>6, <1>7 DEF InOrder, OrderIn

\* The buffer becomes a batch at the head of the queue.
LEMMA OrderBatch ==
    ASSUME TypeInv, chain.buffer # <<>>, NEW id \in Nat, NEW q \in Seq(Entries),
           NEW p, NEW g, NEW n, Ordered(p, <<>>, chain.buffer, q, g, n)
    PROVE  Ordered(p, <<>>, <<>>, Batch(id) \o q, g, n)
  <1> DEFINE e1 == Entry("group", chain.buffer)
             e2 == Entry("barrier", <<>>)
             e3 == Entry("batch-end", <<id>>)
  <1>1. /\ e1 \in Entries /\ e2 \in Entries /\ e3 \in Entries
        /\ Batch(id) \o q = <<e1>> \o (<<e2>> \o (<<e3>> \o q))
    BY BatchIs
  <1>2. EventsIn(e1) = chain.buffer /\ EventsIn(e2) = <<>> /\ EventsIn(e3) = <<>>
    BY DEF EventsIn, Entry
  <1> HIDE DEF e1, e2, e3
  <1>3. <<e3>> \o q \in Seq(Entries) /\ <<e2>> \o (<<e3>> \o q) \in Seq(Entries)
    BY <1>1, ConsIs
  <1>4. Ordered(p, <<>>, chain.buffer, <<e3>> \o q, g, n)
    BY <1>1, <1>2, OrderedOwn
  <1>5. Ordered(p, <<>>, chain.buffer, <<e2>> \o (<<e3>> \o q), g, n)
    BY <1>1, <1>2, <1>3, <1>4, OrderedOwn
  <1>6. Ordered(p, <<>>, <<>>, <<e1>> \o (<<e2>> \o (<<e3>> \o q)), g, n)
    BY <1>1, <1>2, <1>3, <1>5, OrderedBatch
  <1>7. QED BY <1>1, <1>6

LEMMA OrderReplays ==
    ASSUME TypeInv, BufferInv, Sane, InOrder,
           DidPreReplay \/ \E r \in overlay.resolutions : DidReplay(r)
    PROVE  InOrder'
  <1>1. proc.queue \in Seq(Entries)
    BY HistoryIsTyped
  <1>2. HandOf(runner)' = HandOf(runner')
    BY DEF HandOf, HandIn, Groups
  <1>3. CASE DidPreReplay
    <2>1. /\ chain.buffer # <<>> /\ chain'.buffer = <<>> /\ log' = log /\ server' = server
          /\ proc'.queue = Batch(0) \o proc.queue
          /\ HandOf(runner) = <<>> /\ HandOf(runner') = <<>>
      BY <1>3 DEF DidPreReplay, Found, IsAt, Plain, Local, ProcIs, ChainIs, GoesTo
    <2>2. Ordered(log.played, <<>>, chain.buffer, proc.queue, log.got, server.events)
      BY <2>1 DEF InOrder, OrderIn
    <2>3. Ordered(log.played, <<>>, <<>>, Batch(0) \o proc.queue, log.got, server.events)
      BY <1>1, <2>1, <2>2, OrderBatch
    <2>4. QED BY <1>2, <2>1, <2>3 DEF InOrder, OrderIn
  <1>4. ASSUME NEW r \in overlay.resolutions, DidReplay(r) PROVE InOrder'
    <2>1. /\ chain.buffer # <<>> /\ chain'.buffer = <<>> /\ log' = log /\ server' = server
          /\ proc'.queue = Batch(r.id) \o (Signal \o proc.queue)
          /\ HandOf(runner') = HandOf(runner) /\ r.id \in Nat
      BY <1>4, FieldsAreTyped DEF DidReplay, Replays, Local, ProcIs, ChainIs, MayStart, Starts, Fields
    <2>2. HandOf(runner) = <<>>
      BY <1>4, ReplayFacts
    <2>3. Ordered(log.played, <<>>, chain.buffer, proc.queue, log.got, server.events)
      BY <2>2 DEF InOrder, OrderIn
    <2>4. PICK e : e = Entry("await-signal", <<>>)
      OBVIOUS
    <2>5. e \in Entries /\ EventsIn(e) = <<>> /\ Signal = <<e>>
      BY <2>4 DEF Entry, Entries, Kinds, EventsIn, Signal
    <2>6. Signal \o proc.queue \in Seq(Entries)
      BY <1>1, <2>5, ConsIs
    <2>7. Ordered(log.played, <<>>, chain.buffer, Signal \o proc.queue, log.got, server.events)
      BY <1>1, <2>3, <2>5, OrderedOwn
    <2>8. PICK id \in Nat : id = r.id
      BY <2>1
    <2>9. Ordered(log.played, <<>>, <<>>, Batch(id) \o (Signal \o proc.queue), log.got,
                  server.events)
      BY <2>1, <2>6, <2>7, OrderBatch
    <2>10. QED BY <1>2, <2>1, <2>2, <2>8, <2>9 DEF InOrder, OrderIn
  <1>5. QED BY <1>3, <1>4

\* A message without events is received, or missed.
LEMMA OrderReceives ==
    ASSUME TypeInv, InOrder, Untouched, log'.got = log.got, log'.played = log.played,
           server'.events = server.events,
           NEW e \in Entries, EventsIn(e) = <<>>,
           proc'.queue = proc.queue \/ proc'.queue = Append(proc.queue, e)
    PROVE  InOrder'
  <1>1. proc.queue \in Seq(Entries)
    BY HistoryIsTyped
  <1>2. /\ HandOf(runner') = HandOf(runner) /\ chain'.buffer = chain.buffer
        /\ HandOf(runner)' = HandOf(runner')
    BY DEF Untouched, HandOf, HandIn, Groups
  <1>3. CASE proc'.queue = proc.queue
    BY <1>2, <1>3, OrderStays
  <1>4. CASE proc'.queue = Append(proc.queue, e)
    <2>1. Ordered(log.played, HandOf(runner), chain.buffer, Append(proc.queue, e), log.got,
                  server.events)
      BY <1>1, OrderedAppend DEF InOrder, OrderIn
    <2>2. QED BY <1>2, <1>4, <2>1 DEF InOrder, OrderIn
  <1>5. QED BY <1>3, <1>4

\* The server sends a board event: the last of those received, or one that the page never sees.
LEMMA OrderSendEvent ==
    ASSUME TypeInv, InOrder, DidSendEvent
    PROVE  InOrder'
  <1>1. log.got \in Seq(Nat) /\ server.events \in Nat /\ proc.queue \in Seq(Entries)
    BY HistoryIsTyped
  <1>2. /\ HandOf(runner)' = HandOf(runner) /\ chain'.buffer = chain.buffer
        /\ log'.played = log.played /\ server'.events = server.events + 1
    BY DEF DidSendEvent, Untouched, HandOf, HandIn, Groups, ServerIs
  <1>3. PICK p, h, b, q, g, n :
           /\ p = log.played /\ h = HandOf(runner) /\ b = chain.buffer /\ q = proc.queue
           /\ g = log.got /\ n = server.events
    OBVIOUS
  <1>4. Ordered(p, h, b, q, g, n) /\ g \in Seq(Nat) /\ n \in Nat /\ q \in Seq(Entries)
    BY <1>1, <1>3 DEF InOrder, OrderIn
  <1>5. CASE server.up
    <2>1. PICK e : e = Entry("event", <<n + 1>>)
      OBVIOUS
    <2>2. e \in Entries /\ EventsIn(e) = <<n + 1>>
      <3>1. n + 1 \in Nat /\ <<n + 1>> \in Seq(Nat) /\ Len(<<n + 1>>) = 1
        BY <1>4
      <3>2. QED BY <2>1, <3>1 DEF Entry, Entries, Kinds, EventsIn
    <2>3. proc'.queue = Append(q, e) /\ log'.got = g \o <<n + 1>>
      BY <1>3, <1>5, <2>1 DEF DidSendEvent, Receives, ProcIs
    <2>4. Ordered(p, h, b, Append(q, e), g \o <<n + 1>>, n + 1)
      BY <1>4, <2>2, OrderedSend
    <2>5. QED BY <1>2, <1>3, <2>3, <2>4 DEF InOrder, OrderIn
  <1>6. CASE ~server.up
    <2>1. proc'.queue = q /\ log'.got = g
      BY <1>3, <1>6 DEF DidSendEvent, Receives
    <2>2. Ordered(p, h, b, q, g, n + 1)
      BY <1>4, OrderedLater
    <2>3. QED BY <1>2, <1>3, <2>1, <2>2 DEF InOrder, OrderIn
  <1>7. QED BY <1>5, <1>6

\* A reset leaves nothing.
LEMMA OrderReset ==
    ASSUME NEW ls, NEW ph, ResetTo(ls, ph)
    PROVE  InOrder'
  <1>1. HandOf(runner)' = HandOf(runner')
    BY DEF HandOf, HandIn, Groups
  <1>2. /\ proc'.queue = <<>> /\ chain'.buffer = <<>> /\ log'.got = <<>> /\ log'.played = <<>>
        /\ HandOf(runner)' = <<>>
    BY <1>1 DEF ResetTo, ProcIs, ChainIs
  <1>3. \A n : Ordered(<<>>, <<>>, <<>>, <<>>, <<>>, n)
    BY NothingIs, UnderNothing DEF Ordered
  <1>4. QED BY <1>2, <1>3 DEF InOrder, OrderIn

LEMMA OrderServer ==
    ASSUME TypeInv, InOrder, Fine', ServerDid
    PROVE  InOrder'
  <1>0. server.links \in Nat /\ server.unsolved \in Nat
    BY FieldsAreTyped DEF Fields
  <1>1. CASE DidChaining
    <2>1. PICK e : e = Entry("chaining", <<server.links>>)
      OBVIOUS
    <2>2. e \in Entries /\ EventsIn(e) = <<>>
      BY <1>0, <2>1, EntryIs, NoEvents
    <2>3. QED BY <1>1, <2>1, <2>2, OrderReceives DEF DidChaining, Receives, ProcIs, ServerIs
  <1>2. CASE DidPrompt
    <2>1. PICK e : e = Entry("end", <<>>)
      OBVIOUS
    <2>2. e \in Entries /\ EventsIn(e) = <<>>
      BY <2>1, EndIs, NoEvents
    <2>3. QED BY <1>2, <2>1, <2>2, OrderReceives DEF DidPrompt, Receives, ProcIs
  <1>3. CASE DidSendSolving
    <2>1. PICK e : e = Entry("solving", <<server.unsolved - 1>>)
      OBVIOUS
    <2>2. e \in Entries /\ EventsIn(e) = <<>>
      BY <1>3, <2>1, EntryIs, NoEvents DEF DidSendSolving
    <2>3. QED BY <1>3, <2>1, <2>2, OrderReceives DEF DidSendSolving, Receives, ProcIs, ServerIs
  <1>4. CASE DidSendSolved
    <2>1. PICK e : e = Entry("solved", <<server.solving>>)
      OBVIOUS
    <2>2. e \in Entries /\ EventsIn(e) = <<>>
      BY <1>4, <2>1, EntryIs, NoEvents DEF DidSendSolved
    <2>3. QED BY <1>4, <2>1, <2>2, OrderReceives DEF DidSendSolved, Receives, ProcIs, ServerIs
  <1>5. CASE DidSendEnd
    <2>1. PICK e : e = Entry("end", <<>>)
      OBVIOUS
    <2>2. e \in Entries /\ EventsIn(e) = <<>>
      BY <2>1, EndIs, NoEvents
    <2>3. QED BY <1>5, <2>1, <2>2, OrderReceives DEF DidSendEnd, Receives, ProcIs, ServerIs
  <1>6. CASE DidSendEvent
    BY <1>6, OrderSendEvent
  <1>7. CASE DidDisconnect
    BY <1>7, OrderStays DEF DidDisconnect, ServerIs
  <1>8. CASE DidResync
    BY <1>8, OrderReset DEF DidResync, Fine
  <1>9. CASE DidFlush
    BY <1>9, OrderReset DEF DidFlush
  <1>10. QED
    BY <1>1, <1>2, <1>3, <1>4, <1>5, <1>6, <1>7, <1>8, <1>9 DEF ServerDid

LEMMA OrderKept ==
    ASSUME TypeInv, BufferInv, OverlayInv, LinkInv, OrderInv, LoopDid \/ PageDid \/ ServerDid
    PROVE  OrderInv'
  <1> SUFFICES ASSUME Fine' PROVE InOrder'
    BY DEF OrderInv
  <1>1. CASE DidResync \/ DidFlush
    BY <1>1, OrderReset DEF DidResync, DidFlush, Fine
  <1>2. CASE Fine /\ ~DidFire
    <2>1. PICK s, t : PathInv(s, t) /\ Coupled(s)
      BY <1>2 DEF LinkInv
    <2>2. /\ Context(s) /\ Sane /\ InOrder
          /\ proc.queue # <<>> => Allowed(s, Head(proc.queue))
      BY <1>2, <2>1, AlongThePath DEF OrderInv
    <2>3. CASE LoopDid
      BY <2>2, <2>3, OrderLoopStays, OrderTakes, OrderSolving, OrderEvent, OrderGroup,
         OrderReplays DEF LoopDid
    <2>4. CASE PageDid
      BY <1>2, <2>2, <2>4, OrderPageStays, OrderReplays DEF PageDid
    <2>5. CASE ServerDid
      BY <2>2, <2>5, OrderServer
    <2>6. QED BY <2>3, <2>4, <2>5
  <1>3. QED BY <1>1, <1>2, FineBefore

-----------------------------------------------------------------------------
(* The inductive invariant. *)

QueueOrderInv == TypeInv /\ BufferInv /\ OverlayInv /\ LinkInv /\ OrderInv

LEMMA InitialState ==
    ASSUME Init
    PROVE  /\ proc.queue = <<>> /\ proc.links = {} /\ proc.pending = {} /\ proc.phase = "idle"
           /\ proc.gen = 0 /\ proc.ends = 0
           /\ chain.buffer = <<>> /\ chain.draining = FALSE /\ chain.replaying = FALSE
           /\ chain.deferred = NoLink /\ chain.waiting = FALSE /\ chain.ready = TRUE
           /\ HandOf(runner) = <<>> /\ PcsOf(runner) = {} /\ runner.armed = FALSE
           /\ overlay.resolutions = {} /\ overlay.prev = {} /\ overlay.inFlight = FALSE
           /\ dirty = {} /\ log.got = <<>> /\ log.played = <<>>
           /\ server.phase = "idle" /\ server.links = 0 /\ server.unsolved = 0
           /\ server.solving = NoLink
  <1>1. proc = Received({}, "idle") /\ chain = ChainInit /\ server = ServerInit /\ log = Fresh
        /\ dirty = {}
        /\ runner = [running |-> FALSE, processing |-> FALSE, epoch |-> 0, loops |-> {},
                     rescues |-> 0, lastLen |-> -1, armed |-> FALSE]
        /\ overlay = [prev |-> {}, resolutions |-> {}, inFlight |-> FALSE, current |-> 0]
    BY DEF Init
  <1>2. runner.loops = {} /\ runner.armed = FALSE
    BY <1>1
  <1>3. HandOf(runner) = <<>> /\ PcsOf(runner) = {}
    BY <1>2 DEF HandOf, HandIn, Groups, PcsOf, LiveOf
  <1>4. /\ proc.queue = <<>> /\ proc.links = {} /\ proc.pending = {} /\ proc.phase = "idle"
        /\ proc.gen = 0 /\ proc.ends = 0
    BY <1>1 DEF Received
  <1>5. /\ chain.buffer = <<>> /\ chain.draining = FALSE /\ chain.replaying = FALSE
        /\ chain.deferred = NoLink /\ chain.waiting = FALSE /\ chain.ready = TRUE
    BY <1>1 DEF ChainInit
  <1>6. /\ server.phase = "idle" /\ server.links = 0 /\ server.unsolved = 0
        /\ server.solving = NoLink
    BY <1>1 DEF ServerInit
  <1>7. /\ overlay.resolutions = {} /\ overlay.prev = {} /\ overlay.inFlight = FALSE
        /\ dirty = {} /\ log.got = <<>> /\ log.played = <<>>
    BY <1>1 DEF Fresh
  <1>8. QED BY <1>2, <1>3, <1>4, <1>5, <1>6, <1>7

LEMMA QueueOrderInitially == Init => QueueOrderInv
  <1> SUFFICES ASSUME Init PROVE QueueOrderInv
    OBVIOUS
  <1>1. TypeInv
    BY TypesInitially
  <1>2. /\ Shape(proc.queue, chain.draining) /\ Ends(proc.queue) = {} /\ ~Awaits(proc.queue)
    BY InitialState, EmptyShape
  <1>3. BufferInv
    BY <1>2, InitialState DEF BufferInv, BufferOK
  <1>4. OverlayInv
    BY <1>2, InitialState DEF OverlayInv, OverlayOK, Seen
  <1>5. LinkInv
    <2>1. PICK s : s = ServerChain(0)
      OBVIOUS
    <2>2. s = ChainOf("idle", 0, 0, NoLink, 0)
      BY <2>1, InitialState DEF ServerChain
    <2>3. s.phase = "idle" /\ s.links = 0 /\ s.unsolved = 0 /\ s.solving = NoLink /\ s.gen = 0
      BY <2>2 DEF ChainOf
    <2>4. IsChain(s)
      BY <2>2, <2>3 DEF IsChain, Phases
    <2>5. Good(s, {}, {})
      BY <2>3, <2>4 DEF Good, WellFormed, Known
    <2>6. Carried(<<>>, s, s, {}, {})
      BY <2>5, CarriedEmpty
    <2>7. PathInv(s, s)
      BY <2>1, <2>3, <2>6, InitialState DEF PathInv, ServerChain
    <2>8. Coupled(s)
      <3>1. Phased(s) /\ Buffering(s) /\ Batching(s)
        BY <2>3, <1>2, InitialState DEF Phased, Buffering, Batching
      <3>2. Resolving /\ Holding(s) /\ Signalling(s)
        BY <2>3, <1>2, InitialState DEF Resolving, Holding, Signalling
      <3>3. QED BY <3>1, <3>2 DEF Coupled
    <2>9. QED BY <2>7, <2>8 DEF LinkInv
  <1>6. OrderInv
    <2>1. \A n : Ordered(<<>>, <<>>, <<>>, <<>>, <<>>, n)
      BY NothingIs, UnderNothing DEF Ordered
    <2>2. QED BY <2>1, InitialState DEF OrderInv, InOrder, OrderIn
  <1>7. QED BY <1>1, <1>3, <1>4, <1>5, <1>6 DEF QueueOrderInv

LEMMA QueueOrderStutters == QueueOrderInv /\ UNCHANGED vars => QueueOrderInv'
  <1> SUFFICES ASSUME QueueOrderInv, UNCHANGED vars PROVE QueueOrderInv'
    OBVIOUS
  <1>1. UNCHANGED <<server, proc, runner, chain, draw, overlay, dirty, parked, log, races>>
    BY DEF vars
  <1>2. TypeInv'
    BY TypesStutter DEF QueueOrderInv
  <1>3. BufferInv'
    BY <1>1 DEF QueueOrderInv, BufferInv, BufferOK, Sane, HandOf, HandIn, Groups
  <1>4. OverlayInv'
    BY <1>1 DEF QueueOrderInv, OverlayInv, Seen, Sane
  <1>5. LinkInv'
    <2> SUFFICES ASSUME Fine' PROVE LinkInv'
      BY DEF LinkInv
    <2>1. Fine
      BY <1>1 DEF Fine
    <2>2. PICK s, t : PathInv(s, t) /\ Coupled(s)
      BY <2>1 DEF QueueOrderInv, LinkInv
    <2>3. PathInv(s, t)'
      BY <1>1, <2>2 DEF PathInv, ServerChain
    <2>4. PcsOf(runner)' = PcsOf(runner)
      BY <1>1 DEF PcsOf, LiveOf
    <2>5. Cur("hold")' = Cur("hold") /\ Cur("impact")' = Cur("impact") /\ Playing' = Playing
          /\ Fewer' = Fewer /\ Still' = Still
      BY <1>1, <2>4 DEF Cur, Playing, Fewer, Still
    <2>6. Phased(s)' /\ Buffering(s)' /\ Batching(s)'
      BY <1>1, <2>2, <2>4, <2>5 DEF Coupled, Phased, Buffering, Batching
    <2>7. Resolving' /\ Holding(s)' /\ Signalling(s)'
      BY <1>1, <2>2, <2>4, <2>5 DEF Coupled, Resolving, Holding, Signalling
    <2>8. QED BY <2>3, <2>6, <2>7 DEF Coupled, LinkInv
  <1>6. OrderInv'
    <2>1. HandOf(runner)' = HandOf(runner)
      BY <1>1 DEF HandOf, HandIn, Groups
    <2>2. QED BY <1>1, <2>1 DEF QueueOrderInv, OrderInv, InOrder, OrderIn, Fine
  <1>7. QED BY <1>2, <1>3, <1>4, <1>5, <1>6 DEF QueueOrderInv

LEMMA QueueOrderInductive ==
    ASSUME Stragglers = FALSE
    PROVE  QueueOrderInv /\ [Next]_vars => QueueOrderInv'
  <1> SUFFICES ASSUME QueueOrderInv, [Next]_vars PROVE QueueOrderInv'
    OBVIOUS
  <1>1. CASE Next
    <2>1. /\ TypeInv /\ BufferInv /\ OverlayInv /\ LinkInv /\ OrderInv
          /\ QueueInv'
      BY QueueInvInductive DEF QueueOrderInv, TypeInv
    <2>2. TypeInv' /\ (LoopDid \/ PageDid \/ ServerDid)
      BY <1>1, <2>1, NextDoes
    <2>3. BufferInv'
      BY <2>1, <2>2, BufferKept
    <2>4. OverlayInv'
      BY <2>1, <2>2, OverlayKept
    <2>5. LinkInv'
      BY <2>1, <2>2, LinkKept
    <2>6. OrderInv'
      BY <2>1, <2>2, OrderKept
    <2>7. QED BY <2>2, <2>3, <2>4, <2>5, <2>6 DEF QueueOrderInv
  <1>2. CASE UNCHANGED vars
    BY <1>2, QueueOrderStutters
  <1>3. QED BY <1>1, <1>2

-----------------------------------------------------------------------------
(* What the order means of the events, wherever they are. *)

PiecesOf(p, h, b, q) == <<p, h, b>> \o [j \in DOMAIN q |-> EventsIn(q[j])]

LEMMA ConcatIs ==
    ASSUME NEW S, NEW x \in Seq(S), NEW y \in Seq(S)
    PROVE  /\ DOMAIN (x \o y) = 1 .. Len(x) + Len(y)
           /\ \A i \in 1 .. Len(x) : (x \o y)[i] = x[i]
           /\ \A i \in 1 .. Len(y) : (x \o y)[Len(x) + i] = y[i]
  OBVIOUS

LEMMA PiecesAre ==
    ASSUME NEW p \in Seq(Nat), NEW h \in Seq(Nat), NEW b \in Seq(Nat), NEW q \in Seq(Entries),
           NEW pieces, pieces = PiecesOf(p, h, b, q)
    PROVE  /\ DOMAIN pieces = 1 .. 3 + Len(q)
           /\ pieces[1] = p /\ pieces[2] = h /\ pieces[3] = b
           /\ \A j \in 1 .. Len(q) : pieces[3 + j] = EventsIn(q[j])
           /\ Len(q) \in Nat /\ DOMAIN q = 1 .. Len(q)
  <1> DEFINE f == [j \in DOMAIN q |-> EventsIn(q[j])]
             x == <<p, h, b>>
  <1>1. Len(q) \in Nat /\ DOMAIN q = 1 .. Len(q)
    OBVIOUS
  <1>2. \A j \in DOMAIN q : EventsIn(q[j]) \in Seq(Nat)
    <2>1. ASSUME NEW j \in DOMAIN q PROVE EventsIn(q[j]) \in Seq(Nat)
      <3>1. q[j] \in Entries
        OBVIOUS
      <3>2. q[j].of \in Seq(Nat) /\ <<>> \in Seq(Nat)
        BY <3>1 DEF Entries
      <3>3. QED BY <3>2 DEF EventsIn
    <2>2. QED BY <2>1
  <1>3. f \in Seq(Seq(Nat)) /\ Len(f) = Len(q) /\ \A j \in 1 .. Len(q) : f[j] = EventsIn(q[j])
    BY <1>1, <1>2
  <1>4. /\ x \in Seq(Seq(Nat)) /\ Len(x) = 3
        /\ x[1] = p /\ x[2] = h /\ x[3] = b
    OBVIOUS
  <1> HIDE DEF f, x
  <1>5. pieces = x \o f
    BY DEF f, x, PiecesOf
  <1>6. /\ DOMAIN pieces = 1 .. 3 + Len(q)
        /\ \A i \in 1 .. 3 : pieces[i] = x[i]
        /\ \A i \in 1 .. Len(q) : pieces[3 + i] = f[i]
    <2>1. PICK S, y, z : S = Seq(Nat) /\ y = x /\ z = f
      OBVIOUS
    <2>2. y \in Seq(S) /\ z \in Seq(S)
      BY <2>1, <1>3, <1>4
    <2>3. DOMAIN (y \o z) = 1 .. Len(y) + Len(z)
      BY <2>2, ConcatIs
    <2>4. \A i \in 1 .. Len(y) : (y \o z)[i] = y[i]
      BY <2>2, ConcatIs
    <2>5. \A i \in 1 .. Len(z) : (y \o z)[Len(y) + i] = z[i]
      BY <2>2, ConcatIs
    <2>6. y \o z = pieces /\ Len(y) = 3 /\ Len(z) = Len(q)
      BY <2>1, <1>3, <1>4, <1>5
    <2>7. QED BY <2>1, <2>3, <2>4, <2>5, <2>6
  <1>7. pieces[1] = p /\ pieces[2] = h /\ pieces[3] = b
    BY <1>4, <1>6
  <1>8. QED BY <1>1, <1>3, <1>6, <1>7

LEMMA OrderedMeans ==
    ASSUME NEW p \in Seq(Nat), NEW h \in Seq(Nat), NEW b \in Seq(Nat), NEW q \in Seq(Entries),
           NEW g, NEW n, Ordered(p, h, b, q, g, n),
           NEW pieces, pieces = PiecesOf(p, h, b, q)
    PROVE  /\ \A m, k \in DOMAIN pieces : \A i \in DOMAIN pieces[m], j \in DOMAIN pieces[k] :
                 m < k \/ (m = k /\ i < j) => pieces[m][i] < pieces[k][j]
           /\ UNION {Range(pieces[m]) : m \in DOMAIN pieces} = Range(g)
  <1>1. /\ DOMAIN pieces = 1 .. 3 + Len(q)
        /\ pieces[1] = p /\ pieces[2] = h /\ pieces[3] = b
        /\ \A j \in 1 .. Len(q) : pieces[3 + j] = EventsIn(q[j])
        /\ Len(q) \in Nat /\ DOMAIN q = 1 .. Len(q)
    BY PiecesAre
  <1>2. \A m \in DOMAIN pieces :
           m = 1 \/ m = 2 \/ m = 3 \/ (m - 3 \in DOMAIN q /\ pieces[m] = EventsIn(q[m - 3]))
    <2> SUFFICES ASSUME NEW m \in 1 .. 3 + Len(q), m # 1, m # 2, m # 3
                 PROVE  m - 3 \in DOMAIN q /\ pieces[m] = EventsIn(q[m - 3])
      BY <1>1
    <2>1. m - 3 \in 1 .. Len(q) /\ 3 + (m - 3) = m
      BY <1>1
    <2>2. QED BY <1>1, <2>1
  <1>3. \A m \in DOMAIN pieces : Asc(pieces[m])
    BY <1>1, <1>2 DEF Ordered, QueueAsc
  <1>4. \A j \in DOMAIN q : Range(EventsIn(q[j])) \subseteq EventsOf(q)
    BY DEF EventsOf
  <1>5. ASSUME NEW m \in DOMAIN pieces, NEW k \in DOMAIN pieces, m < k
        PROVE  Under(Range(pieces[m]), Range(pieces[k]))
    <2>1. CASE m - 3 \in DOMAIN q
      <3>1. k # 1 /\ k # 2 /\ k # 3 /\ m # 1 /\ m # 2 /\ m # 3 /\ m - 3 < k - 3
        BY <1>1, <1>5, <2>1
      <3>2. k - 3 \in DOMAIN q /\ pieces[k] = EventsIn(q[k - 3]) /\ pieces[m] = EventsIn(q[m - 3])
        BY <1>2, <3>1
      <3>3. QED BY <2>1, <3>1, <3>2 DEF Ordered, QueueAsc
    <2>2. CASE m \in {1, 2, 3} /\ k - 3 \in DOMAIN q /\ k \notin {1, 2, 3}
      <3>1. pieces[k] = EventsIn(q[k - 3]) /\ Range(pieces[k]) \subseteq EventsOf(q)
        BY <1>2, <1>4, <2>2
      <3>2. Under(Range(pieces[m]), EventsOf(q))
        BY <1>1, <2>2 DEF Ordered
      <3>3. QED BY <3>1, <3>2 DEF Under
    <2>3. CASE m \in {1, 2, 3} /\ k \in {1, 2, 3}
      BY <1>1, <1>5, <2>3 DEF Ordered
    <2>4. QED BY <1>2, <2>1, <2>2, <2>3
  <1>6. ASSUME NEW m \in DOMAIN pieces, NEW k \in DOMAIN pieces,
               NEW i \in DOMAIN pieces[m], NEW j \in DOMAIN pieces[k], m < k \/ (m = k /\ i < j)
        PROVE  pieces[m][i] < pieces[k][j]
    <2>1. pieces[m][i] \in Range(pieces[m]) /\ pieces[k][j] \in Range(pieces[k])
      BY DEF Range
    <2>2. CASE m < k
      BY <1>5, <2>1, <2>2 DEF Under
    <2>3. CASE m = k /\ i < j
      BY <1>3, <2>3 DEF Asc
    <2>4. QED BY <1>6, <2>2, <2>3
  <1>7. UNION {Range(pieces[m]) : m \in DOMAIN pieces} = Range(g)
    <2>1. Range(p) \cup Range(h) \cup Range(b) \cup EventsOf(q) = Range(g)
      BY DEF Ordered
    <2>2. ASSUME NEW m \in DOMAIN pieces PROVE Range(pieces[m]) \subseteq Range(g)
      BY <1>1, <1>2, <1>4, <2>1
    <2>3. 1 \in DOMAIN pieces /\ 2 \in DOMAIN pieces /\ 3 \in DOMAIN pieces
      BY <1>1
    <2>4. ASSUME NEW v \in EventsOf(q) PROVE \E m \in DOMAIN pieces : v \in Range(pieces[m])
      <3>1. PICK j \in DOMAIN q : v \in Range(EventsIn(q[j]))
        BY DEF EventsOf
      <3>2. 3 + j \in DOMAIN pieces /\ pieces[3 + j] = EventsIn(q[j])
        BY <1>1
      <3>3. QED BY <3>1, <3>2
    <2>5. ASSUME NEW v \in Range(g) PROVE \E m \in DOMAIN pieces : v \in Range(pieces[m])
      BY <1>1, <2>1, <2>3, <2>4
    <2>6. QED BY <2>2, <2>5
  <1>8. QED BY <1>6, <1>7

\* PlayedOnceInOrder: every board event received since the last reset is played once, in the order
\* it came, whatever links it is buffered and replayed for and however the loop, the overlay, the
\* effects and the messages interleave, if the engine emits none between two links (Stragglers).
THEOREM EventsArePlayedInOrder ==
    ASSUME Stragglers = FALSE
    PROVE  Spec => []PlayedOnceInOrder
  <1>1. QueueOrderInv => PlayedOnceInOrder
    <2> SUFFICES ASSUME QueueOrderInv, Fine PROVE PlayedOnceInOrder
      BY DEF PlayedOnceInOrder, Fine
    <2>1. /\ log.played \in Seq(Nat) /\ HandOf(runner) \in Seq(Nat) /\ chain.buffer \in Seq(Nat)
          /\ proc.queue \in Seq(Entries)
      BY HistoryIsTyped DEF QueueOrderInv
    <2>2. InHand = HandOf(runner)
      BY DEF InHand, HandOf, HandIn, Groups
    <2>3. Ordered(log.played, InHand, chain.buffer, proc.queue, log.got, server.events)
      BY <2>2 DEF QueueOrderInv, OrderInv, InOrder, OrderIn
    <2>4. Pieces = PiecesOf(log.played, InHand, chain.buffer, proc.queue)
      BY DEF Pieces, PiecesOf
    <2>5. PICK p, h, b, q, g, n, pieces :
             /\ p = log.played /\ h = InHand /\ b = chain.buffer /\ q = proc.queue /\ g = log.got
             /\ n = server.events /\ pieces = Pieces
      OBVIOUS
    <2>6. /\ p \in Seq(Nat) /\ h \in Seq(Nat) /\ b \in Seq(Nat) /\ q \in Seq(Entries)
          /\ Ordered(p, h, b, q, g, n)
          /\ pieces = PiecesOf(p, h, b, q)
      BY <2>1, <2>2, <2>3, <2>4, <2>5
    <2>7. /\ \A m, k \in DOMAIN pieces : \A i \in DOMAIN pieces[m], j \in DOMAIN pieces[k] :
                m < k \/ (m = k /\ i < j) => pieces[m][i] < pieces[k][j]
          /\ UNION {Range(pieces[m]) : m \in DOMAIN pieces} = Range(g)
      BY <2>6, OrderedMeans
    <2>8. QED BY <2>5, <2>7 DEF PlayedOnceInOrder
  <1>2. QED BY <1>1, QueueOrderInitially, QueueOrderInductive, PTL DEF Spec
=============================================================================

------------------------------ MODULE SlotPool ------------------------------
(***************************************************************************)
(* What the replay worker pool promises: a bounded set of jobs runs, the   *)
(* others wait their turn in the order they came, and a slot that is freed *)
(* goes to the oldest waiting job in the same step.                        *)
(***************************************************************************)
EXTENDS Naturals, Sequences, FiniteSets

CONSTANTS
    Jobs,       \* everything that may ever ask for a slot
    Slots       \* how many jobs may run at once

VARIABLES
    running,    \* the jobs that hold a slot
    waiting     \* the jobs that wait for one, oldest first

pvars == <<running, waiting>>

PInit == running = {} /\ waiting = <<>>

\* A job asks for a slot: it gets a free one, or queues.
Ask(j) ==
    /\ j \notin running /\ \A i \in DOMAIN waiting : waiting[i] # j
    /\ IF Cardinality(running) < Slots
       THEN running' = running \cup {j} /\ UNCHANGED waiting
       ELSE waiting' = Append(waiting, j) /\ UNCHANGED running

\* The jobs D give their slots back, and the oldest waiting ones take them.
Free(D) ==
    LET n == IF Len(waiting) < Cardinality(D) THEN Len(waiting) ELSE Cardinality(D) IN
    /\ D # {} /\ D \subseteq running
    /\ running' = (running \ D) \cup {waiting[i] : i \in 1..n}
    /\ waiting' = SubSeq(waiting, n + 1, Len(waiting))

\* Job j takes over the slot of job d.
Replace(d, j) ==
    /\ d \in running /\ j \notin running /\ \A i \in DOMAIN waiting : waiting[i] # j
    /\ running' = (running \ {d}) \cup {j} /\ UNCHANGED waiting

\* The server goes down: the queue is dropped first, so that nothing starts any more.
Drain(D) == D \subseteq running /\ running' = running \ D /\ waiting' = <<>>

PNext ==
    \/ \E j \in Jobs : Ask(j)
    \/ \E d, j \in Jobs : Replace(d, j)
    \/ \E D \in SUBSET running : Free(D) \/ Drain(D)

PSpec == PInit /\ [][PNext]_pvars

=============================================================================

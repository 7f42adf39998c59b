----------------------- MODULE PromptChannel_proofs -----------------------
(***************************************************************************)
(* Theorems about the prompt channel, for any number of prompts, turns,    *)
(* strikes, refusals and messages under way.                               *)
(*                                                                         *)
(*   TypeInv     the types, over the prompts emitted so far                *)
(*   PathInv     what a rollback restores is a prefix of the record        *)
(*   ShownIsLast the screens                                               *)
(*   DeadlineInv no inactivity timer runs only while something that will   *)
(*               arm one is under way                                      *)
(*   AgreeInv    the duel is in one of five phases, and one message or one *)
(*               player makes it go on                                     *)
(*   ClockInv    which messages are then under way, and whose the clock is *)
(*                                                                         *)
(* The last two hold until an answer crosses a cancellation, the others in *)
(* every behaviour.                                                        *)
(***************************************************************************)
EXTENDS PromptChannel, SequenceTheorems, TLAPS

\* A subset of the messages gives a subset of the queues.
LEMMA QueueOfMore == ASSUME NEW S, NEW T, S \subseteq T, NEW q \in Seq(S) PROVE q \in Seq(T)
  OBVIOUS

\* Taking the first message and adding some at the end.
LEMMA QueueSteps ==
    ASSUME NEW M, NEW q \in Seq(M), NEW a \in M, NEW b \in M
    PROVE  /\ Append(q, a) \in Seq(M) /\ q \o <<a, b>> \in Seq(M)
           /\ q # <<>> => Head(q) \in M /\ Tail(q) \in Seq(M) /\ Len(Tail(q)) = Len(q) - 1
           /\ Len(Append(q, a)) = Len(q) + 1
  OBVIOUS

\* What is left of a queue without its first message, message by message.
LEMMA TailElements ==
    ASSUME NEW M, NEW q \in Seq(M), q # <<>>
    PROVE  /\ Len(q) \in Nat /\ Len(q) > 0 /\ Len(Tail(q)) = Len(q) - 1 /\ Head(q) = q[1]
           /\ \A i \in 1..Len(Tail(q)) : Tail(q)[i] = q[i + 1]
  OBVIOUS

-----------------------------------------------------------------------------
(* Types.  Every message under way, and every prompt that some part keeps, *)
(* was emitted by the engine, so that info can be asked about it.          *)

Known == 1..Len(info)

RouterMsgs(N) == {Response(n) : n \in N} \cup {Cancel}
WorkerMsgs(N) == {AnswerOf(p, n) : p \in Players, n \in N} \cup {CancelOf(p) : p \in Players}
MainMsgs(N) ==
    {Prompt(n) : n \in N} \cup {Board(t, p) : t \in 1..MaxTurn, p \in Players}
    \cup {Retry(p, b) : p \in Players, b \in BOOLEAN} \cup {CancelDone(p) : p \in Players}

Sessions(N) ==
    [awaiting : SUBSET Players, last : [Players -> N \cup {NoPrompt}],
     target : [Players -> N \cup {NoPrompt}], strikes : [Players -> 0..MaxStrikes],
     ended : BOOLEAN]

Clocks ==
    [state : {"stopped", "pending", "running", "off"}, active : Players, turn : 0..MaxTurn,
     idle : SUBSET Players]

EngineOK ==
    /\ info \in Seq(Asked) /\ Len(info) <= MaxPrompts
    /\ engine \in Memory /\ engine.at \in Known
    /\ captured \in Seq(Applied)
    /\ snap \in Snapshots \cup {NoSnap}
    /\ snap # NoSnap => snap.memory.at \in Known /\ snap.captured <= Len(captured)
    /\ resolving \in BOOLEAN

LinkOK ==
    /\ link \in [Players -> Seq(RouterMsgs(Known))]
    /\ \A p \in Players : Len(link[p]) <= LinkSize
    /\ crossed \in BOOLEAN
    /\ shown \in [Players -> Known \cup {NoPrompt}]

QueuesOK == toWorker \in Seq(WorkerMsgs(Known)) /\ toMain \in Seq(MainMsgs(Known))

MainOK ==
    /\ main \in Sessions(Known) /\ clock \in Clocks
    /\ ~main.ended => \A p \in Players : main.strikes[p] < MaxStrikes

TypeInv == EngineOK /\ LinkOK /\ QueuesOK /\ MainOK

\* What the messages carry.
LEMMA MessageFields ==
    ASSUME NEW N
    PROVE  /\ \A m \in RouterMsgs(N) : \/ m.type = "response" /\ m.prompt \in N
                                       \/ m.type = "cancel" /\ m = Cancel
           /\ \A m \in WorkerMsgs(N) : /\ m.player \in Players
                                       /\ \/ m.type = "response" /\ m.prompt \in N
                                          \/ m.type = "cancel" /\ m = CancelOf(m.player)
           /\ \A m \in MainMsgs(N) :
                \/ m.type = "prompt" /\ m.prompt \in N
                \/ m.type = "board" /\ m.turn \in 1..MaxTurn /\ m.turnPlayer \in Players
                \/ m.type = "retry" /\ m.player \in Players /\ m.late \in BOOLEAN
                \/ m.type = "cancelDone" /\ m.player \in Players
  BY DEF RouterMsgs, WorkerMsgs, MainMsgs, Response, Cancel, AnswerOf, CancelOf, Prompt, Board,
         Retry, CancelDone

\* More prompts, more messages.
LEMMA MessagesGrow ==
    ASSUME NEW N, NEW K, N \subseteq K
    PROVE  /\ RouterMsgs(N) \subseteq RouterMsgs(K) /\ WorkerMsgs(N) \subseteq WorkerMsgs(K)
           /\ MainMsgs(N) \subseteq MainMsgs(K) /\ Sessions(N) \subseteq Sessions(K)
  BY DEF RouterMsgs, WorkerMsgs, MainMsgs, Sessions

\* The messages of the model are of these kinds.
LEMMA MessageKinds ==
    ASSUME NEW N, NEW p \in Players, NEW n \in N
    PROVE  /\ Response(n) \in RouterMsgs(N) /\ Cancel \in RouterMsgs(N)
           /\ AnswerOf(p, n) \in WorkerMsgs(N) /\ CancelOf(p) \in WorkerMsgs(N)
           /\ Prompt(n) \in MainMsgs(N) /\ CancelDone(p) \in MainMsgs(N)
           /\ \A t \in 1..MaxTurn : Board(t, p) \in MainMsgs(N)
           /\ \A b \in BOOLEAN : Retry(p, b) \in MainMsgs(N)
  BY DEF RouterMsgs, WorkerMsgs, MainMsgs

\* The type invariant of the runs follows.
LEMMA TypesImplied == TypeInv => PromptTypeOK
  <1> SUFFICES ASSUME TypeInv PROVE PromptTypeOK
    OBVIOUS
  <1> USE DEF TypeInv
  <1>1. Known \subseteq Prompts
    BY PromptsAssumption DEF Known, Prompts, EngineOK
  <1>2. /\ RouterMsgs(Known) \subseteq ToRouter /\ WorkerMsgs(Known) \subseteq ToWorker
        /\ MainMsgs(Known) \subseteq FromWorker /\ Sessions(Known) \subseteq Sessions(Prompts)
    BY <1>1 DEF RouterMsgs, WorkerMsgs, MainMsgs, ToRouter, ToWorker, FromWorker, Sessions
  <1>3. /\ link \in [Players -> Seq(ToRouter)] /\ toWorker \in Seq(ToWorker)
        /\ toMain \in Seq(FromWorker)
    <2>1. \A p \in Players : link[p] \in Seq(ToRouter)
      BY <1>2, QueueOfMore DEF LinkOK
    <2>2. toWorker \in Seq(ToWorker) /\ toMain \in Seq(FromWorker)
      BY <1>2, QueueOfMore DEF QueuesOK
    <2> QED BY <2>1, <2>2 DEF LinkOK
  <1>4. /\ info \in Seq(Asked) /\ Len(info) <= MaxPrompts /\ engine \in Memory
        /\ engine.at <= Len(info) /\ captured \in Seq(Applied)
        /\ snap \in Snapshots \cup {NoSnap} /\ resolving \in BOOLEAN
    BY DEF EngineOK, Known
  <1>5. shown \in [Players -> Prompts \cup {NoPrompt}] /\ crossed \in BOOLEAN
    BY <1>1 DEF LinkOK
  <1>6. main \in Sessions(Prompts) /\ clock \in Clocks
    BY <1>2 DEF MainOK
  <1> QED BY <1>3, <1>4, <1>5, <1>6 DEF PromptTypeOK, Sessions, Clocks, LinkOK

\* What the operators on the clock return.
LEMMA ClockOps ==
    ASSUME NEW k \in Clocks, NEW p \in Players, NEW t \in 1..MaxTurn
    PROVE  /\ Armed(k, p) \in Clocks /\ Armed(k, p).idle = k.idle \cup {p}
           /\ Armed(k, p).state = "pending"
           /\ Paused(k) \in Clocks /\ Paused(k).idle = k.idle
           /\ TurnChanged(k, p, t) \in Clocks /\ TurnChanged(k, p, t).idle = k.idle
           /\ TurnChanged(k, p, t).state = k.state
           /\ Disarmed(k) \in Clocks
  <1>1. Parked(k, p) \in Clocks /\ Parked(k, p).idle = k.idle /\ Parked(k, p).state = "pending"
    BY DEF Parked, Clocks
  <1>2. /\ Armed(k, p) \in Clocks /\ Armed(k, p).idle = k.idle \cup {p}
        /\ Armed(k, p).state = "pending"
    BY <1>1 DEF Armed, Clocks
  <1>3. Paused(k) \in Clocks /\ Paused(k).idle = k.idle
    BY DEF Paused, Clocks
  <1>4. /\ TurnChanged(k, p, t) \in Clocks /\ TurnChanged(k, p, t).idle = k.idle
        /\ TurnChanged(k, p, t).state = k.state
    <2>1. t \in 0..MaxTurn
      BY TurnAssumption
    <2>2. CASE t <= k.turn
      BY <2>2 DEF TurnChanged
    <2>3. CASE ~(t <= k.turn)
      <3>1. TurnChanged(k, p, t) = [k EXCEPT !.turn = t, !.active = p]
        BY <2>3 DEF TurnChanged
      <3> QED BY <2>1, <3>1 DEF Clocks
    <2> QED BY <2>2, <2>3
  <1>5. Disarmed(k) \in Clocks
    BY DEF Disarmed, Clocks
  <1> QED BY <1>2, <1>3, <1>4, <1>5

\* The clients and their links.
LEMMA ClientTypes == ASSUME TypeInv, ClientStep PROVE TypeInv'
  <1> USE DEF TypeInv
  <1>1. UNCHANGED <<info, engine, resolving, captured, snap, toWorker, toMain, main, clock>>
    BY DEF ClientStep, ClientAnswers, ClientCancels, worker
  <1>2. PICK p \in Players : ClientAnswers(p) \/ ClientCancels(p)
    BY DEF ClientStep
  <1>3. PICK m \in RouterMsgs(Known) : Send(p, m)
    <2>1. CASE ClientAnswers(p)
      <3>1. shown[p] \in Known
        BY <2>1 DEF ClientAnswers, LinkOK
      <3> QED BY <2>1, <3>1, MessageKinds DEF ClientAnswers
    <2>2. CASE ClientCancels(p)
      BY <2>2 DEF ClientCancels, RouterMsgs
    <2> QED BY <1>2, <2>1, <2>2
  <1>4. link' \in [Players -> Seq(RouterMsgs(Known))] /\ \A q \in Players : Len(link'[q]) <= LinkSize
    <2>1. /\ link' = [link EXCEPT ![p] = Append(@, m)] /\ Len(link[p]) < LinkSize
          /\ link \in [Players -> Seq(RouterMsgs(Known))]
      BY <1>3 DEF Send, LinkOK
    <2>2. /\ Append(link[p], m) \in Seq(RouterMsgs(Known))
          /\ Len(Append(link[p], m)) = Len(link[p]) + 1 /\ Len(link[p]) \in Nat
      BY <2>1, QueueSteps
    <2>3. \A q \in Players : link'[q] = IF q = p THEN Append(link[p], m) ELSE link[q]
      BY <2>1
    <2>4. Len(Append(link[p], m)) <= LinkSize
      BY <2>1, <2>2, LinkAssumption
    <2> QED BY <2>1, <2>2, <2>3, <2>4 DEF LinkOK
  <1>5. shown' \in [Players -> Known \cup {NoPrompt}] /\ crossed' \in BOOLEAN
    BY <1>2 DEF ClientAnswers, ClientCancels, LinkOK, CancelUnderWay
  <1>6. EngineOK' /\ QueuesOK' /\ MainOK'
    BY <1>1 DEF EngineOK, QueuesOK, MainOK, Known
  <1> QED BY <1>1, <1>4, <1>5, <1>6 DEF LinkOK, Known

\* What is left of a link when its first message is taken.
LEMMA ReceiveTypes ==
    ASSUME LinkOK, NEW p \in Players, link[p] # <<>>, Receive(p)
    PROVE  /\ link' \in [Players -> Seq(RouterMsgs(Known))]
           /\ \A q \in Players : Len(link'[q]) <= LinkSize
           /\ Head(link[p]) \in RouterMsgs(Known)
           /\ link'[p] = Tail(link[p]) /\ \A q \in Players \ {p} : link'[q] = link[q]
  <1>1. link' = [link EXCEPT ![p] = Tail(@)] /\ link \in [Players -> Seq(RouterMsgs(Known))]
    BY DEF Receive, LinkOK
  <1>2. /\ Head(link[p]) \in RouterMsgs(Known) /\ Tail(link[p]) \in Seq(RouterMsgs(Known))
        /\ Len(Tail(link[p])) = Len(link[p]) - 1 /\ Len(link[p]) \in Nat
    BY <1>1, QueueSteps
  <1>3. Len(link[p]) <= LinkSize /\ LinkSize \in Nat
    BY LinkAssumption DEF LinkOK
  <1>4. Len(Tail(link[p])) <= LinkSize
    BY <1>2, <1>3
  <1> QED BY <1>1, <1>2, <1>4 DEF LinkOK

\* The main thread and what the clients send it.
LEMMA RouterTypes == ASSUME TypeInv, RouterStep PROVE TypeInv'
  <1> USE DEF TypeInv
  <1>1. UNCHANGED <<info, engine, resolving, captured, snap, toMain, crossed>>
    BY DEF RouterStep, IgnoreAnswer, InvalidAnswer, AcceptAnswer, ReceiveCancel, worker
  <1>2. EngineOK' /\ Known' = Known
    BY <1>1 DEF EngineOK, Known
  <1>3. main \in Sessions(Known) /\ clock \in Clocks /\ LinkOK /\ QueuesOK
    BY DEF MainOK
  <1>4. PICK p \in Players : \/ IgnoreAnswer(p) \/ InvalidAnswer(p) \/ AcceptAnswer(p)
                             \/ \E limited \in BOOLEAN : ReceiveCancel(p, limited)
    BY DEF RouterStep
  <1>5. link[p] # <<>> /\ Receive(p) /\ ~main.ended
    BY <1>4 DEF IgnoreAnswer, InvalidAnswer, AcceptAnswer, ReceiveCancel, Answers
  <1>6. /\ link' \in [Players -> Seq(RouterMsgs(Known))]
        /\ \A q \in Players : Len(link'[q]) <= LinkSize
        /\ Head(link[p]) \in RouterMsgs(Known)
    BY <1>3, <1>5, ReceiveTypes
  <1>7. CASE IgnoreAnswer(p)
    BY <1>1, <1>2, <1>6, <1>7 DEF IgnoreAnswer, LinkOK, QueuesOK, MainOK
  <1>8. CASE InvalidAnswer(p)
    <2> DEFINE strike == [main EXCEPT !.strikes[p] = @ + 1]
    <2>1. main.strikes[p] \in Nat /\ main.strikes[p] < MaxStrikes
      BY <1>5 DEF MainOK, Sessions
    <2>2. main.strikes[p] + 1 \in 0..MaxStrikes
      BY <2>1, StrikesAssumption
    <2>3. /\ strike \in Sessions(Known) /\ strike.strikes[p] = main.strikes[p] + 1
          /\ \A q \in Players \ {p} : strike.strikes[q] = main.strikes[q]
          /\ strike.ended = main.ended /\ strike.last = main.last
      BY <1>3, <2>2 DEF Sessions
    <2> HIDE DEF strike
    <2>4. CASE strike.strikes[p] >= MaxStrikes
      <3>1. main' = EndDuel(strike) /\ clock' = Disarmed(clock) /\ UNCHANGED <<shown, toWorker>>
        BY <1>8, <2>4 DEF InvalidAnswer, strike
      <3>2. main' \in Sessions(Known) /\ main'.ended
        BY <2>3, <3>1 DEF EndDuel, Sessions
      <3>3. clock' \in Clocks
        BY <1>3, <3>1 DEF Disarmed, Clocks
      <3> QED BY <1>1, <1>2, <1>6, <3>1, <3>2, <3>3 DEF LinkOK, QueuesOK, MainOK
    <2>5. CASE ~(strike.strikes[p] >= MaxStrikes)
      <3>1. /\ main' = strike /\ shown' = [shown EXCEPT ![p] = main.last[p]]
            /\ UNCHANGED <<clock, toWorker>>
        BY <1>8, <2>5 DEF InvalidAnswer, strike
      <3>2. main.last[p] \in Known \cup {NoPrompt}
        BY <1>3 DEF Sessions
      <3>3. shown' \in [Players -> Known \cup {NoPrompt}]
        BY <3>1, <3>2 DEF LinkOK
      <3>4. \A q \in Players : strike.strikes[q] < MaxStrikes
        BY <1>5, <2>1, <2>3, <2>5, StrikesAssumption DEF MainOK
      <3> QED BY <1>1, <1>2, <1>3, <1>6, <2>3, <3>1, <3>3, <3>4 DEF LinkOK, QueuesOK, MainOK
    <2> QED BY <2>4, <2>5
  <1>9. CASE AcceptAnswer(p)
    <2>1. Head(link[p]).prompt \in Known
      BY <1>6, <1>9, MessageFields DEF AcceptAnswer, Answers, Cancel
    <2>2. /\ clock' = [Paused(clock) EXCEPT !.idle = @ \ {p}] /\ UNCHANGED shown
          /\ toWorker' = Append(toWorker, AnswerOf(p, Head(link[p]).prompt))
      BY <1>9 DEF AcceptAnswer
    <2>3. toWorker' \in Seq(WorkerMsgs(Known))
      BY <2>1, <2>2, MessageKinds, QueueSteps DEF QueuesOK
    <2>4. clock' \in Clocks
      <3>1. Paused(clock) \in Clocks
        BY <1>3 DEF Paused, Clocks
      <3> QED BY <2>2, <3>1 DEF Clocks
    <2>5. main' \in Sessions(Known) /\ ~main'.ended /\ \A q \in Players : main'.strikes[q] < MaxStrikes
      <3> DEFINE n == IF info[Head(link[p]).prompt].type = "menu" THEN main.last[p] ELSE main.target[p]
      <3>1. main' = [main EXCEPT !.strikes[p] = 0, !.awaiting = @ \ {p}, !.target[p] = n]
        BY <1>9 DEF AcceptAnswer
      <3>2. n \in Known \cup {NoPrompt}
        BY <1>3 DEF Sessions
      <3> HIDE DEF n
      <3>3. main' = [awaiting |-> main.awaiting \ {p}, last |-> main.last,
                     target |-> [main.target EXCEPT ![p] = n],
                     strikes |-> [main.strikes EXCEPT ![p] = 0], ended |-> main.ended]
        BY <1>3, <3>1 DEF Sessions
      <3>4. main' \in Sessions(Known)
        BY <1>3, <3>2, <3>3, StrikesAssumption DEF Sessions
      <3> QED BY <1>3, <1>5, <3>3, <3>4, StrikesAssumption DEF MainOK, Sessions
    <2> QED BY <1>1, <1>2, <1>6, <2>2, <2>3, <2>4, <2>5 DEF LinkOK, QueuesOK, MainOK
  <1>10. CASE \E limited \in BOOLEAN : ReceiveCancel(p, limited)
    <2>1. UNCHANGED <<shown, main, clock>> /\ toWorker' \in {toWorker, Append(toWorker, CancelOf(p))}
      BY <1>10 DEF ReceiveCancel
    <2>2. CancelOf(p) \in WorkerMsgs(Known)
      BY DEF WorkerMsgs
    <2>3. toWorker' \in Seq(WorkerMsgs(Known))
      BY <2>1, <2>2, QueueSteps DEF QueuesOK
    <2> QED BY <1>1, <1>2, <1>6, <2>1, <2>3 DEF LinkOK, QueuesOK, MainOK
  <1> QED BY <1>4, <1>7, <1>8, <1>9, <1>10

\* What the worker takes, and what it emits.
LEMMA WorkerQueues ==
    ASSUME TypeInv, toWorker # <<>>
    PROVE  /\ Head(toWorker) \in WorkerMsgs(Known) /\ Head(toWorker).player \in Players
           /\ Head(toWorker).type = "response" => Head(toWorker).prompt \in Known
           /\ Head(toWorker).type = "cancel" => Head(toWorker) = CancelOf(Head(toWorker).player)
           /\ Tail(toWorker) \in Seq(WorkerMsgs(Known))
           /\ \A a, b \in MainMsgs(Known) : toMain \o <<a, b>> \in Seq(MainMsgs(Known))
  <1>1. toWorker \in Seq(WorkerMsgs(Known)) /\ toMain \in Seq(MainMsgs(Known))
    BY DEF TypeInv, QueuesOK
  <1>2. Head(toWorker) \in WorkerMsgs(Known) /\ Tail(toWorker) \in Seq(WorkerMsgs(Known))
    BY <1>1, QueueSteps
  <1>3. \A a, b \in MainMsgs(Known) : toMain \o <<a, b>> \in Seq(MainMsgs(Known))
    BY <1>1, QueueSteps
  <1> QED BY <1>2, <1>3, MessageFields

\* A snapshot taken now is of the engine's memory and of everything captured.
LEMMA SnapshotType ==
    ASSUME EngineOK, NEW p \in Players
    PROVE  /\ Snapshot(p) \in Snapshots /\ Snapshot(p) # NoSnap
           /\ Snapshot(p).memory = engine /\ Snapshot(p).player = p
           /\ Snapshot(p).captured = Len(captured)
  <1>1. Len(captured) \in Nat
    BY DEF EngineOK
  <1> QED BY <1>1 DEF Snapshot, Snapshots, EngineOK, NoSnap

\* The engine's thread: it emits prompts that info then knows.
LEMMA WorkerTypes == ASSUME TypeInv, WorkerStep PROVE TypeInv'
  <1> USE DEF TypeInv
  <1>1. UNCHANGED <<link, shown, crossed, main, clock>>
    BY DEF WorkerStep, WorkerRejects, WorkerAccepts, IgnoreCancel, Rollback, SnapshotExpires, client
  <1>2. CASE WorkerRejects
    <2> DEFINE m == Head(toWorker)
               r == [prompt |-> m.prompt, ok |-> FALSE]
    <2>1. toWorker # <<>> /\ m.type = "response" /\ toWorker' = Tail(toWorker)
      BY <1>2 DEF WorkerRejects, Take
    <2>2. m.player \in Players /\ m.prompt \in Known
      BY <2>1, WorkerQueues
    <2>3. r \in Applied
      BY <2>2, PromptsAssumption DEF Applied, EngineOK, Known, Prompts
    <2>4. UNCHANGED <<info, resolving>> /\ Known' = Known
      BY <1>2 DEF WorkerRejects, Known
    <2>5. captured' \in Seq(Applied) /\ Len(captured') = Len(captured) + 1
      BY <1>2, <2>3, QueueSteps DEF WorkerRejects, EngineOK
    <2>6. engine' \in Memory /\ engine'.at = engine.at
      <3>1. engine' = [engine EXCEPT !.path = Append(@, r)]
        BY <1>2 DEF WorkerRejects
      <3>2. Append(engine.path, r) \in Seq(Applied)
        BY <2>3 DEF EngineOK, Memory
      <3> QED BY <3>1, <3>2 DEF EngineOK, Memory
    <2>7. /\ snap' \in Snapshots \cup {NoSnap}
          /\ snap' # NoSnap => snap'.memory.at \in Known /\ snap'.captured <= Len(captured')
      <3>1. snap' \in {snap, Snapshot(m.player)} /\ Len(captured) \in Nat
        BY <1>2 DEF WorkerRejects, EngineOK
      <3>2. CASE snap' = snap
        BY <2>5, <3>1, <3>2 DEF EngineOK, Snapshots
      <3>3. CASE snap' = Snapshot(m.player)
        BY <2>2, <2>5, <3>1, <3>3, SnapshotType DEF EngineOK
      <3> QED BY <3>1, <3>2, <3>3
    <2>8. EngineOK'
      BY <2>4, <2>5, <2>6, <2>7 DEF EngineOK
    <2>9. QueuesOK'
      <3>1. /\ Retry(m.player, m.prompt # engine.at) \in MainMsgs(Known)
            /\ Board(engine.turn, engine.turnPlayer) \in MainMsgs(Known)
        <4>1. (m.prompt # engine.at) \in BOOLEAN
          OBVIOUS
        <4>2. engine.turn \in 1..MaxTurn /\ engine.turnPlayer \in Players
          BY DEF EngineOK, Memory
        <4> QED BY <2>2, <4>1, <4>2, MessageKinds
      <3>2. toMain' = toMain \o <<Retry(m.player, m.prompt # engine.at),
                                  Board(engine.turn, engine.turnPlayer)>>
        BY <1>2 DEF WorkerRejects
      <3> QED BY <2>1, <2>4, <3>1, <3>2, WorkerQueues DEF QueuesOK
    <2> QED BY <1>1, <2>4, <2>8, <2>9 DEF LinkOK, MainOK
  <1>3. ASSUME NEW p \in Players, NEW type \in {"menu", "step"}, NEW next \in BOOLEAN,
               NEW chain \in BOOLEAN, WorkerAccepts(p, type, next, chain)
        PROVE  TypeInv'
    <2> DEFINE m == Head(toWorker)
               n == Len(info) + 1
               r == [prompt |-> m.prompt, ok |-> TRUE]
               t == engine.turn + (IF next THEN 1 ELSE 0)
               tp == IF next THEN Other(engine.turnPlayer) ELSE engine.turnPlayer
               a == [player |-> p, type |-> type]
    <2>1. /\ toWorker # <<>> /\ m.type = "response" /\ toWorker' = Tail(toWorker)
          /\ n \in Prompts /\ t <= MaxTurn
          /\ info' = Append(info, a) /\ captured' = Append(captured, r)
          /\ engine' = [at |-> n, turn |-> t, turnPlayer |-> tp, path |-> Append(engine.path, r),
                        first |-> IF next THEN n ELSE engine.first]
          /\ resolving' = chain /\ toMain' = toMain \o <<Prompt(n), Board(t, tp)>>
          /\ snap' \in {NoSnap, snap, Snapshot(m.player)}
      BY <1>3 DEF WorkerAccepts, Take
    <2>2. m.player \in Players /\ m.prompt \in Known
      BY <2>1, WorkerQueues
    <2>3. r \in Applied
      BY <2>2, PromptsAssumption DEF Applied, EngineOK, Known, Prompts
    <2>4. t \in 1..MaxTurn /\ tp \in Players
      BY <2>1, TurnAssumption DEF EngineOK, Memory, Other, Players
    <2>5. /\ info' \in Seq(Asked) /\ Len(info') = n /\ Len(info) \in Nat /\ n <= MaxPrompts
      BY <2>1, PromptsAssumption DEF EngineOK, Asked, Prompts
    <2>6. n \in Known' /\ Known \subseteq Known'
      BY <2>5 DEF Known
    <2>7. EngineOK'
      <3>1. /\ captured' \in Seq(Applied) /\ Append(engine.path, r) \in Seq(Applied)
            /\ Len(captured') = Len(captured) + 1 /\ Len(captured) \in Nat
        BY <2>1, <2>3 DEF EngineOK, Memory
      <3>2. engine' \in Memory /\ engine'.at \in Known'
        <4>1. (IF next THEN n ELSE engine.first) \in Prompts
          BY <2>1 DEF EngineOK, Memory
        <4> QED BY <2>1, <2>4, <2>6, <3>1, <4>1 DEF Memory
      <3>3. /\ snap' \in Snapshots \cup {NoSnap}
            /\ snap' # NoSnap => snap'.memory.at \in Known' /\ snap'.captured <= Len(captured')
        <4>1. CASE snap' = NoSnap
          BY <4>1
        <4>2. CASE snap' = snap
          BY <2>6, <3>1, <4>2 DEF EngineOK, Snapshots
        <4>3. CASE snap' = Snapshot(m.player)
          BY <2>2, <2>6, <3>1, <4>3, SnapshotType DEF EngineOK
        <4> QED BY <2>1, <4>1, <4>2, <4>3
      <3> QED BY <2>1, <2>5, <3>1, <3>2, <3>3 DEF EngineOK
    <2>8. QueuesOK'
      <3>1. /\ toMain \in Seq(MainMsgs(Known)) /\ toWorker' \in Seq(WorkerMsgs(Known))
        BY <2>1, WorkerQueues DEF QueuesOK
      <3>2. /\ toMain \in Seq(MainMsgs(Known')) /\ toWorker' \in Seq(WorkerMsgs(Known'))
        BY <2>6, <3>1, MessagesGrow, QueueOfMore
      <3>3. Prompt(n) \in MainMsgs(Known') /\ Board(t, tp) \in MainMsgs(Known')
        BY <2>4, <2>6 DEF MainMsgs
      <3>4. toMain \o <<Prompt(n), Board(t, tp)>> \in Seq(MainMsgs(Known'))
        BY <3>2, <3>3, QueueSteps
      <3> QED BY <2>1, <3>2, <3>4 DEF QueuesOK, MainMsgs, WorkerMsgs
    <2>9. LinkOK'
      <3>1. \A q \in Players : link[q] \in Seq(RouterMsgs(Known'))
        BY <2>6, MessagesGrow, QueueOfMore DEF LinkOK
      <3> QED BY <1>1, <2>6, <3>1 DEF LinkOK, RouterMsgs
    <2>10. MainOK'
      BY <1>1, <2>6, MessagesGrow DEF MainOK, Sessions
    <2> QED BY <2>7, <2>8, <2>9, <2>10
  <1>4. CASE IgnoreCancel
    BY <1>1, <1>4, WorkerQueues
       DEF IgnoreCancel, Take, worker, EngineOK, QueuesOK, LinkOK, MainOK, Known
  <1>5. CASE Rollback
    <2> DEFINE p == Head(toWorker).player
    <2>1. /\ toWorker # <<>> /\ toWorker' = Tail(toWorker) /\ snap # NoSnap
          /\ engine' = snap.memory /\ captured' = SubSeq(captured, 1, snap.captured) /\ snap' = NoSnap
          /\ toMain' = toMain \o <<Board(snap.memory.turn, snap.memory.turnPlayer), CancelDone(p)>>
          /\ UNCHANGED <<info, resolving>>
      BY <1>5 DEF Rollback, Take, CanCancel
    <2>2. /\ snap.memory \in Memory /\ snap.captured \in Nat /\ snap.memory.at \in Known
          /\ snap.captured <= Len(captured)
      BY <2>1 DEF EngineOK, Snapshots
    <2>3. captured' \in Seq(Applied)
      BY <2>1, <2>2 DEF EngineOK
    <2>4. EngineOK'
      BY <2>1, <2>2, <2>3 DEF EngineOK, Known
    <2>5. p \in Players
      BY <2>1, WorkerQueues
    <2>6. /\ Board(snap.memory.turn, snap.memory.turnPlayer) \in MainMsgs(Known)
          /\ CancelDone(p) \in MainMsgs(Known)
      BY <2>2, <2>5 DEF MainMsgs, Memory
    <2>7. QueuesOK'
      BY <2>1, <2>6, WorkerQueues DEF QueuesOK, Known
    <2> QED BY <1>1, <2>1, <2>4, <2>7 DEF LinkOK, MainOK, Known
  <1>6. CASE SnapshotExpires
    BY <1>1, <1>6 DEF SnapshotExpires, EngineOK, QueuesOK, LinkOK, MainOK, Known
  <1> QED BY <1>2, <1>3, <1>4, <1>5, <1>6 DEF WorkerStep

\* What arrives at the main thread.
LEMMA ArrivesTypes ==
    ASSUME TypeInv, NEW type, Arrives(type)
    PROVE  /\ toMain # <<>> /\ toMain' \in Seq(MainMsgs(Known)) /\ toMain' = Tail(toMain)
           /\ Head(toMain) \in MainMsgs(Known) /\ Head(toMain).type = type /\ ~main.ended
  BY QueueSteps DEF Arrives, TypeInv, QueuesOK

\* The main thread and what the engine's thread sends it.
LEMMA MainTypes == ASSUME TypeInv, MainStep PROVE TypeInv'
  <1> USE DEF TypeInv
  <1>1. UNCHANGED <<info, engine, resolving, captured, snap, toWorker, link, crossed>>
    BY DEF MainStep, ForwardPrompt, ForwardBoard, ForwardRetry, ApplyCancelRollback, worker, client
  <1>2. EngineOK' /\ Known' = Known
    BY <1>1 DEF EngineOK, Known
  <1>3. /\ main \in Sessions(Known) /\ clock \in Clocks /\ info \in Seq(Asked)
        /\ shown \in [Players -> Known \cup {NoPrompt}]
    BY DEF MainOK, EngineOK, LinkOK
  <1>4. PICK type : Arrives(type)
    BY DEF MainStep, ForwardPrompt, ForwardBoard, ForwardRetry, ApplyCancelRollback
  <1>5. QueuesOK' /\ ~main.ended
    BY <1>1, <1>2, <1>4, ArrivesTypes DEF QueuesOK
  <1>6. \A q \in Players : main.strikes[q] \in Nat /\ main.strikes[q] < MaxStrikes
    BY <1>3, <1>5, StrikesAssumption DEF MainOK, Sessions
  <1>7. CASE ForwardPrompt
    <2> DEFINE n == Head(toMain).prompt
               p == info[n].player
               x == IF info[n].type = "menu" THEN NoPrompt ELSE main.target[p]
    <2>1. n \in Known
      BY <1>7, ArrivesTypes, MessageFields DEF ForwardPrompt
    <2>2. p \in Players
      <3>1. info[n] \in Asked
        BY <1>3, <2>1 DEF Known
      <3> QED BY <3>1 DEF Asked
    <2>3. /\ clock' = Armed(clock, p) /\ shown' = [shown EXCEPT ![p] = n]
          /\ main' = [main EXCEPT !.awaiting = @ \cup {p}, !.last[p] = n, !.target[p] = x]
      BY <1>7 DEF ForwardPrompt
    <2>4. x \in Known \cup {NoPrompt}
      BY <1>3, <2>2 DEF Sessions
    <2> HIDE DEF n, p, x
    <2>5. main' = [awaiting |-> main.awaiting \cup {p}, last |-> [main.last EXCEPT ![p] = n],
                   target |-> [main.target EXCEPT ![p] = x], strikes |-> main.strikes,
                   ended |-> main.ended]
      BY <1>3, <2>3 DEF Sessions
    <2>6. MainOK'
      <3>1. main' \in Sessions(Known)
        BY <1>3, <2>1, <2>2, <2>4, <2>5 DEF Sessions
      <3>2. clock' \in Clocks
        <4>1. 1 \in 1..MaxTurn
          BY TurnAssumption
        <4> QED BY <1>3, <2>2, <2>3, <4>1, ClockOps
      <3> QED BY <1>2, <1>6, <2>5, <3>1, <3>2 DEF MainOK
    <2>7. shown' \in [Players -> Known \cup {NoPrompt}]
      BY <1>3, <2>1, <2>3
    <2> QED BY <1>1, <1>2, <1>5, <2>6, <2>7 DEF LinkOK
  <1>8. CASE ForwardBoard
    <2>1. /\ clock' = TurnChanged(clock, Head(toMain).turnPlayer, Head(toMain).turn)
          /\ UNCHANGED <<shown, main>>
      BY <1>8 DEF ForwardBoard, client
    <2>2. Head(toMain).turnPlayer \in Players /\ Head(toMain).turn \in 1..MaxTurn
      BY <1>8, ArrivesTypes, MessageFields DEF ForwardBoard
    <2>3. clock' \in Clocks
      BY <1>3, <2>1, <2>2, ClockOps
    <2> QED BY <1>1, <1>2, <1>3, <1>5, <2>1, <2>3 DEF LinkOK, MainOK
  <1>9. CASE ForwardRetry
    <2> DEFINE p == Head(toMain).player
               strike == [main EXCEPT !.strikes[p] = @ + 1]
    <2>1. p \in Players
      BY <1>9, ArrivesTypes, MessageFields DEF ForwardRetry
    <2>2. strike = [awaiting |-> main.awaiting, last |-> main.last, target |-> main.target,
                    strikes |-> [main.strikes EXCEPT ![p] = main.strikes[p] + 1], ended |-> main.ended]
      <3> HIDE DEF p
      <3>1. [main.strikes EXCEPT ![p] = @ + 1] = [main.strikes EXCEPT ![p] = main.strikes[p] + 1]
        OBVIOUS
      <3>2. strike = [main EXCEPT !.strikes = [main.strikes EXCEPT ![p] = @ + 1]]
        OBVIOUS
      <3> HIDE DEF strike
      <3>3. main \in Sessions(Known)
        BY <1>3
      <3> QED BY <3>1, <3>2, <3>3 DEF Sessions
    <2>3. main.strikes[p] + 1 \in 0..MaxStrikes
      BY <1>6, <2>1, StrikesAssumption
    <2>4. strike \in Sessions(Known) /\ strike.strikes[p] = main.strikes[p] + 1
      BY <1>3, <2>1, <2>2, <2>3 DEF Sessions
    <2>5. CASE strike.strikes[p] >= MaxStrikes
      <3>1. main' = EndDuel(strike) /\ clock' = Disarmed(clock) /\ UNCHANGED shown
        BY <1>9, <2>5 DEF ForwardRetry
      <3> HIDE DEF strike
      <3>2. main' \in Sessions(Known) /\ main'.ended
        BY <2>4, <3>1 DEF EndDuel, Sessions
      <3>3. clock' \in Clocks
        BY <1>3, <3>1 DEF Disarmed, Clocks
      <3> QED BY <1>1, <1>2, <1>3, <1>5, <3>1, <3>2, <3>3 DEF LinkOK, MainOK
    <2>6. CASE ~(strike.strikes[p] >= MaxStrikes)
      <3>1. /\ main' = [strike EXCEPT !.awaiting = @ \cup {p}] /\ clock' = Armed(clock, p)
            /\ shown' = [shown EXCEPT ![p] = main.last[p]]
        BY <1>9, <2>6 DEF ForwardRetry
      <3>2. main.last[p] \in Known \cup {NoPrompt}
        BY <1>3, <2>1 DEF Sessions
      <3>3. main' = [awaiting |-> main.awaiting \cup {p}, last |-> main.last,
                     target |-> main.target,
                     strikes |-> [main.strikes EXCEPT ![p] = main.strikes[p] + 1],
                     ended |-> main.ended]
        BY <2>2, <3>1
      <3>4. main' \in Sessions(Known)
        BY <1>3, <2>1, <2>3, <3>3 DEF Sessions
      <3>5. \A q \in Players : main'.strikes[q] < MaxStrikes
        <4>1. ASSUME NEW q \in Players PROVE main'.strikes[q] < MaxStrikes
          <5>1. CASE q = p
            BY <1>3, <1>6, <2>1, <2>2, <2>6, <3>3, <5>1, StrikesAssumption DEF Sessions
          <5>2. CASE q # p
            BY <1>3, <1>6, <2>1, <3>3, <5>2 DEF Sessions
          <5> QED BY <5>1, <5>2
        <4> QED BY <4>1
      <3>6. clock' \in Clocks
        BY <1>3, <2>1, <3>1, ClockOps, TurnAssumption
      <3>7. shown' \in [Players -> Known \cup {NoPrompt}]
        BY <1>3, <3>1, <3>2
      <3> QED BY <1>1, <1>2, <1>5, <3>4, <3>5, <3>6, <3>7 DEF LinkOK, MainOK
    <2> QED BY <2>5, <2>6
  <1>10. CASE ApplyCancelRollback
    <2> DEFINE p == Head(toMain).player
               n == main.target[p]
    <2>1. p \in Players
      BY <1>10, ArrivesTypes, MessageFields DEF ApplyCancelRollback
    <2>2. UNCHANGED clock /\ n \in Known \cup {NoPrompt}
      BY <1>3, <1>10, <2>1 DEF ApplyCancelRollback, Sessions
    <2>3. CASE n = NoPrompt
      <3>1. UNCHANGED <<main, shown>>
        BY <1>10, <2>3 DEF ApplyCancelRollback
      <3> QED BY <1>1, <1>2, <1>3, <1>5, <2>2, <3>1 DEF LinkOK, MainOK
    <2>4. CASE n # NoPrompt
      <3>1. /\ main' = [main EXCEPT !.strikes[p] = 0, !.last[p] = n, !.awaiting = @ \cup {p},
                                    !.target[p] = NoPrompt]
            /\ shown' = [shown EXCEPT ![p] = n]
        BY <1>10, <2>4 DEF ApplyCancelRollback
      <3> HIDE DEF n
      <3>2. main' = [awaiting |-> main.awaiting \cup {p}, last |-> [main.last EXCEPT ![p] = n],
                     target |-> [main.target EXCEPT ![p] = NoPrompt],
                     strikes |-> [main.strikes EXCEPT ![p] = 0], ended |-> main.ended]
        BY <1>3, <3>1 DEF Sessions
      <3>3. main' \in Sessions(Known)
        BY <1>3, <2>1, <2>2, <3>2, StrikesAssumption DEF Sessions
      <3>4. \A q \in Players : main'.strikes[q] < MaxStrikes
        BY <1>3, <1>6, <2>1, <3>2, StrikesAssumption DEF Sessions
      <3>5. shown' \in [Players -> Known \cup {NoPrompt}]
        BY <1>3, <2>2, <3>1
      <3> QED BY <1>1, <1>2, <1>3, <1>5, <2>2, <3>3, <3>4, <3>5 DEF LinkOK, MainOK
    <2> QED BY <2>3, <2>4
  <1> QED BY <1>7, <1>8, <1>9, <1>10 DEF MainStep

\* The timers.
LEMMA TimerTypes ==
    ASSUME TypeInv, ClockStarts \/ \E p \in Players : TimeOut(p)
    PROVE  TypeInv'
  <1> USE DEF TypeInv
  <1>1. UNCHANGED <<info, engine, resolving, captured, snap, toWorker, toMain, link, shown, crossed>>
    BY DEF ClockStarts, TimeOut, worker, client
  <1>2. EngineOK' /\ LinkOK' /\ QueuesOK' /\ Known' = Known
    BY <1>1 DEF EngineOK, LinkOK, QueuesOK, Known
  <1>3. CASE ClockStarts
    BY <1>2, <1>3 DEF ClockStarts, MainOK, Clocks
  <1>4. ASSUME NEW p \in Players, TimeOut(p) PROVE MainOK'
    BY <1>2, <1>4 DEF TimeOut, EndDuel, Disarmed, MainOK, Clocks, Sessions
  <1> QED BY <1>2, <1>3, <1>4

\* The first prompt of the duel.
LEMMA PromptInitTypes == PromptInit => TypeInv
  <1> SUFFICES ASSUME PromptInit PROVE TypeInv
    OBVIOUS
  <1> USE DEF PromptInit
  <1>1. Len(info) = 1 /\ info \in Seq(Asked)
    BY DEF Asked, Players
  <1>2. Known = {1} /\ 1 \in Prompts /\ 1 \in 1..MaxTurn
    BY <1>1, PromptsAssumption, TurnAssumption DEF Known, Prompts
  <1>3. EngineOK
    <2>1. <<>> \in Seq(Applied)
      OBVIOUS
    <2>2. engine \in Memory /\ engine.at \in Known
      BY <1>2, <2>1 DEF Memory, Players
    <2>3. Len(info) <= MaxPrompts /\ captured \in Seq(Applied)
      BY <1>1, <2>1, PromptsAssumption
    <2> QED BY <1>1, <2>2, <2>3 DEF EngineOK
  <1>4. LinkOK
    <2>1. <<>> \in Seq(RouterMsgs(Known)) /\ Len(<<>>) = 0
      OBVIOUS
    <2>2. link \in [Players -> Seq(RouterMsgs(Known))]
      BY <2>1
    <2>3. \A p \in Players : Len(link[p]) <= LinkSize
      BY <2>1, LinkAssumption
    <2>4. shown \in [Players -> Known \cup {NoPrompt}] /\ crossed \in BOOLEAN
      OBVIOUS
    <2> QED BY <2>2, <2>3, <2>4 DEF LinkOK
  <1>5. QueuesOK
    <2>1. Prompt(1) \in MainMsgs(Known) /\ Board(1, 0) \in MainMsgs(Known)
      BY <1>2, MessageKinds DEF Players
    <2> QED BY <2>1 DEF QueuesOK
  <1>6. main \in Sessions(Known)
    BY StrikesAssumption DEF Sessions
  <1>7. clock \in Clocks
    BY TurnAssumption DEF Clocks, Players
  <1> QED BY <1>3, <1>4, <1>5, <1>6, <1>7, StrikesAssumption DEF TypeInv, MainOK

\* Every step keeps the types.
LEMMA TypeStep == TypeInv /\ [PromptNext]_promptVars => TypeInv'
  <1> SUFFICES ASSUME TypeInv, [PromptNext]_promptVars PROVE TypeInv'
    OBVIOUS
  <1>1. CASE UNCHANGED promptVars
    BY <1>1 DEF promptVars, TypeInv, EngineOK, LinkOK, QueuesOK, MainOK, Known
  <1> QED BY <1>1, ClientTypes, RouterTypes, WorkerTypes, MainTypes, TimerTypes DEF PromptNext

\* The types, in every behaviour.
LEMMA TypeInvariance == PromptSpec => []TypeInv
  BY PromptInitTypes, TypeStep, PTL DEF PromptSpec

\* The type invariant of the prompt channel, for any bounds: no message, and no field of the
\* session, names a prompt the engine has not emitted.
THEOREM PromptTypeCorrect == PromptSpec => []PromptTypeOK
  BY TypeInvariance, TypesImplied, PTL

-----------------------------------------------------------------------------
(* The replay.  What a rollback will restore is a prefix of what has been  *)
(* captured, and it is the path of the memory it will restore.             *)

PathInv ==
    /\ CapturedIsPath
    /\ snap # NoSnap => SubSeq(captured, 1, snap.captured) = snap.memory.path

\* A sequence that grows at its end keeps its prefixes.
LEMMA PrefixOfMore ==
    ASSUME NEW S, NEW s \in Seq(S), NEW e \in S, NEW k \in 0..Len(s)
    PROVE  /\ SubSeq(Append(s, e), 1, k) = SubSeq(s, 1, k)
           /\ SubSeq(Append(s, e), 1, Len(s)) = s
  OBVIOUS

\* A response is captured and applied: both sequences grow by it, and a snapshot taken before it
\* keeps its prefix.
LEMMA PathGrows ==
    ASSUME TypeInv, PathInv, NEW r \in Applied, NEW p \in Players,
           captured' = Append(captured, r), engine'.path = Append(engine.path, r),
           snap' \in {NoSnap, snap, Snapshot(p)}
    PROVE  PathInv'
  <1>1. captured \in Seq(Applied) /\ captured = engine.path
    BY DEF TypeInv, EngineOK, PathInv, CapturedIsPath
  <1>2. CASE snap' = NoSnap
    BY <1>1, <1>2 DEF PathInv, CapturedIsPath
  <1>3. CASE snap' = snap /\ snap # NoSnap
    <2>1. snap.captured \in 0..Len(captured)
      BY <1>3 DEF TypeInv, EngineOK, Snapshots
    <2>2. SubSeq(captured', 1, snap.captured) = SubSeq(captured, 1, snap.captured)
      BY <1>1, <2>1, PrefixOfMore
    <2> QED BY <1>1, <1>3, <2>2 DEF PathInv, CapturedIsPath
  <1>4. CASE snap' = Snapshot(p)
    <2>1. snap'.captured = Len(captured) /\ snap'.memory.path = captured
      BY <1>1, <1>4, SnapshotType DEF TypeInv
    <2>2. SubSeq(captured', 1, Len(captured)) = captured
      BY <1>1, PrefixOfMore
    <2> QED BY <1>1, <2>1, <2>2 DEF PathInv, CapturedIsPath
  <1> QED BY <1>2, <1>3, <1>4

\* Every step keeps record and memory together: it grows both, cuts both, or leaves both.
LEMMA PathStep == TypeInv /\ PathInv /\ [PromptNext]_promptVars => PathInv'
  <1> SUFFICES ASSUME TypeInv, PathInv, [PromptNext]_promptVars PROVE PathInv'
    OBVIOUS
  <1>1. CASE UNCHANGED <<engine, captured, snap>>
    BY <1>1 DEF PathInv, CapturedIsPath
  <1>2. CASE WorkerRejects
    <2> DEFINE m == Head(toWorker)
               r == [prompt |-> m.prompt, ok |-> FALSE]
    <2>1. toWorker # <<>> /\ m.type = "response"
      BY <1>2 DEF WorkerRejects
    <2>2. m.player \in Players /\ m.prompt \in Known
      BY <2>1, WorkerQueues
    <2>3. r \in Applied
      BY <2>2, PromptsAssumption DEF Applied, TypeInv, EngineOK, Known, Prompts
    <2>4. engine'.path = Append(engine.path, r)
      BY <1>2 DEF WorkerRejects, TypeInv, EngineOK, Memory
    <2>5. captured' = Append(captured, r) /\ snap' \in {NoSnap, snap, Snapshot(m.player)}
      BY <1>2 DEF WorkerRejects
    <2> QED BY <2>2, <2>3, <2>4, <2>5, PathGrows
  <1>3. ASSUME NEW p \in Players, NEW type \in {"menu", "step"}, NEW next \in BOOLEAN,
               NEW chain \in BOOLEAN, WorkerAccepts(p, type, next, chain)
        PROVE  PathInv'
    <2> DEFINE m == Head(toWorker)
               r == [prompt |-> m.prompt, ok |-> TRUE]
    <2>1. toWorker # <<>> /\ m.type = "response"
      BY <1>3 DEF WorkerAccepts
    <2>2. m.player \in Players /\ m.prompt \in Known
      BY <2>1, WorkerQueues
    <2>3. r \in Applied
      BY <2>2, PromptsAssumption DEF Applied, TypeInv, EngineOK, Known, Prompts
    <2>4. /\ engine'.path = Append(engine.path, r) /\ captured' = Append(captured, r)
          /\ snap' \in {NoSnap, snap, Snapshot(m.player)}
      BY <1>3 DEF WorkerAccepts
    <2> QED BY <2>2, <2>3, <2>4, PathGrows
  <1>4. CASE Rollback
    BY <1>4 DEF Rollback, CanCancel, PathInv, CapturedIsPath
  <1>5. CASE SnapshotExpires
    BY <1>5 DEF SnapshotExpires, PathInv, CapturedIsPath
  <1>6. CASE ClientStep
    BY <1>1, <1>6 DEF ClientStep, ClientAnswers, ClientCancels, worker
  <1>7. CASE RouterStep
    BY <1>1, <1>7
       DEF RouterStep, IgnoreAnswer, InvalidAnswer, AcceptAnswer, ReceiveCancel, worker
  <1>8. CASE MainStep
    BY <1>1, <1>8 DEF MainStep, ForwardPrompt, ForwardBoard, ForwardRetry, ApplyCancelRollback, worker
  <1>9. CASE ClockStarts \/ \E p \in Players : TimeOut(p)
    BY <1>1, <1>9 DEF ClockStarts, TimeOut, worker
  <1>10. CASE IgnoreCancel
    BY <1>1, <1>10 DEF IgnoreCancel, worker
  <1>11. CASE UNCHANGED promptVars
    BY <1>1, <1>11 DEF promptVars
  <1> QED BY <1>2, <1>3, <1>4, <1>5, <1>6, <1>7, <1>8, <1>9, <1>10, <1>11 DEF PromptNext, WorkerStep

\* The replay is always the sequence of responses that led to the engine's memory, whatever is
\* refused, rolled back or late.
THEOREM ReplayFollowsTheEngine == PromptSpec => []CapturedIsPath
  <1>1. PromptInit => PathInv
    BY DEF PromptInit, PathInv, CapturedIsPath
  <1>2. PathInv => CapturedIsPath
    BY DEF PathInv
  <1> QED BY <1>1, <1>2, TypeInvariance, PathStep, PTL DEF PromptSpec

-----------------------------------------------------------------------------
(* The screen.                                                             *)

\* Every step that changes the prompt sent last of an awaited player changes his screen too.
LEMMA ShownStep == TypeInv /\ ShownIsLast /\ [PromptNext]_promptVars => ShownIsLast'
  <1> SUFFICES ASSUME TypeInv, ShownIsLast, [PromptNext]_promptVars PROVE ShownIsLast'
    OBVIOUS
  <1>1. /\ main \in Sessions(Known) /\ shown \in [Players -> Known \cup {NoPrompt}]
        /\ main.awaiting \subseteq Players
    BY DEF TypeInv, MainOK, LinkOK, Sessions
  <1>2. CASE UNCHANGED <<main, shown>>
    BY <1>2 DEF ShownIsLast
  <1>3. ASSUME NEW p \in Players, ClientAnswers(p) PROVE ShownIsLast'
    BY <1>1, <1>3 DEF ClientAnswers, ShownIsLast
  <1>4. ASSUME NEW p \in Players, InvalidAnswer(p) PROVE ShownIsLast'
    <2> DEFINE strike == [main EXCEPT !.strikes[p] = @ + 1]
    <2>1. strike.awaiting = main.awaiting /\ strike.last = main.last
      BY <1>1 DEF Sessions
    <2>2. \/ main' = EndDuel(strike) /\ UNCHANGED shown
          \/ main' = strike /\ shown' = [shown EXCEPT ![p] = main.last[p]]
      BY <1>4 DEF InvalidAnswer
    <2> HIDE DEF strike
    <2>3. main'.awaiting = main.awaiting /\ main'.last = main.last
      <3>1. CASE main' = EndDuel(strike)
        BY <2>1, <3>1 DEF EndDuel
      <3>2. CASE main' = strike
        BY <2>1, <3>2
      <3> QED BY <2>2, <3>1, <3>2
    <2> QED BY <1>1, <2>2, <2>3 DEF ShownIsLast
  <1>5. ASSUME NEW p \in Players, AcceptAnswer(p) PROVE ShownIsLast'
    <2>1. main'.awaiting \subseteq main.awaiting /\ main'.last = main.last /\ UNCHANGED shown
      BY <1>1, <1>5 DEF AcceptAnswer, Sessions
    <2> QED BY <2>1 DEF ShownIsLast
  <1>6. CASE ForwardPrompt
    <2> DEFINE n == Head(toMain).prompt
               p == info[n].player
               x == IF info[n].type = "menu" THEN NoPrompt ELSE main.target[p]
    <2>1. /\ main' = [main EXCEPT !.awaiting = @ \cup {p}, !.last[p] = n, !.target[p] = x]
          /\ shown' = [shown EXCEPT ![p] = n]
      BY <1>6 DEF ForwardPrompt
    <2>2. p \in Players
      <3>1. n \in Known
        BY <1>6, ArrivesTypes, MessageFields DEF ForwardPrompt
      <3>2. info[n] \in Asked
        BY <3>1 DEF TypeInv, EngineOK, Known
      <3> QED BY <3>2 DEF Asked
    <2> HIDE DEF n, p, x
    <2>3. main'.awaiting = main.awaiting \cup {p} /\ main'.last = [main.last EXCEPT ![p] = n]
      BY <1>1, <2>1 DEF Sessions
    <2>4. main.last \in [Players -> Known \cup {NoPrompt}]
      BY <1>1 DEF Sessions
    <2> QED BY <1>1, <2>1, <2>2, <2>3, <2>4 DEF ShownIsLast
  <1>7. CASE ForwardRetry
    <2> DEFINE p == Head(toMain).player
               strike == [main EXCEPT !.strikes[p] = @ + 1]
    <2>2. strike.awaiting = main.awaiting /\ strike.last = main.last
      BY <1>1 DEF Sessions
    <2>3. \/ main' = EndDuel(strike) /\ UNCHANGED shown
          \/ /\ main' = [strike EXCEPT !.awaiting = @ \cup {p}]
             /\ shown' = [shown EXCEPT ![p] = main.last[p]]
      BY <1>7 DEF ForwardRetry
    <2> HIDE DEF strike, p
    <2>4. CASE main' = EndDuel(strike) /\ UNCHANGED shown
      <3>1. main'.awaiting = main.awaiting /\ main'.last = main.last
        BY <2>2, <2>4 DEF EndDuel
      <3> QED BY <2>4, <3>1 DEF ShownIsLast
    <2>5. CASE /\ main' = [strike EXCEPT !.awaiting = @ \cup {p}]
               /\ shown' = [shown EXCEPT ![p] = main.last[p]]
      <3>1. main'.awaiting = main.awaiting \cup {p} /\ main'.last = main.last
        BY <2>2, <2>5, <1>7 DEF strike, Sessions
      <3>2. p \in Players
        BY <1>7, ArrivesTypes, MessageFields DEF ForwardRetry, p
      <3> QED BY <1>1, <2>5, <3>1, <3>2 DEF ShownIsLast
    <2> QED BY <2>3, <2>4, <2>5
  <1>8. CASE ApplyCancelRollback
    <2> DEFINE p == Head(toMain).player
               n == main.target[p]
    <2>1. \/ UNCHANGED <<main, shown>>
          \/ /\ main' = [main EXCEPT !.strikes[p] = 0, !.last[p] = n, !.awaiting = @ \cup {p},
                                     !.target[p] = NoPrompt]
             /\ shown' = [shown EXCEPT ![p] = n]
      BY <1>8 DEF ApplyCancelRollback
    <2>2. p \in Players
      BY <1>8, ArrivesTypes, MessageFields DEF ApplyCancelRollback
    <2> HIDE DEF p, n
    <2>3. CASE /\ main' = [main EXCEPT !.strikes[p] = 0, !.last[p] = n, !.awaiting = @ \cup {p},
                                       !.target[p] = NoPrompt]
               /\ shown' = [shown EXCEPT ![p] = n]
      <3>1. main'.awaiting = main.awaiting \cup {p} /\ main'.last = [main.last EXCEPT ![p] = n]
        BY <1>1, <2>3 DEF Sessions
      <3>2. main.last \in [Players -> Known \cup {NoPrompt}]
        BY <1>1 DEF Sessions
      <3> QED BY <1>1, <2>2, <2>3, <3>1, <3>2 DEF ShownIsLast
    <2> QED BY <1>2, <2>1, <2>3
  <1>9. ASSUME NEW p \in Players, TimeOut(p) PROVE ShownIsLast'
    <2>1. main'.awaiting \subseteq main.awaiting /\ main'.last = main.last /\ UNCHANGED shown
      BY <1>1, <1>9 DEF TimeOut, EndDuel, Sessions, client
    <2> QED BY <2>1 DEF ShownIsLast
  <1>10. CASE WorkerStep
    BY <1>2, <1>10
       DEF WorkerStep, WorkerRejects, WorkerAccepts, IgnoreCancel, Rollback, SnapshotExpires, client
  <1>11. CASE ForwardBoard
    BY <1>2, <1>11 DEF ForwardBoard, client
  <1>12. CASE ClockStarts
    BY <1>2, <1>12 DEF ClockStarts, client
  <1>13. CASE UNCHANGED promptVars
    BY <1>2, <1>13 DEF promptVars
  <1>14. ASSUME NEW p \in Players, IgnoreAnswer(p) \/ \E limited \in BOOLEAN : ReceiveCancel(p, limited)
         PROVE  ShownIsLast'
    BY <1>2, <1>14 DEF IgnoreAnswer, ReceiveCancel
  <1>15. ASSUME NEW p \in Players, ClientCancels(p) PROVE ShownIsLast'
    BY <1>2, <1>15 DEF ClientCancels
  <1> QED BY <1>3, <1>4, <1>5, <1>6, <1>7, <1>8, <1>9, <1>10, <1>11, <1>12, <1>13, <1>14, <1>15
          DEF PromptNext, ClientStep, RouterStep, MainStep

\* What an awaited player sees, if anything, is the prompt an answer will be compared with.
THEOREM ScreensShowTheLastPrompt == PromptSpec => []ShownIsLast
  <1>1. PromptInit => ShownIsLast
    BY DEF PromptInit, ShownIsLast
  <1> QED BY <1>1, TypeInvariance, ShownStep, PTL DEF PromptSpec

-----------------------------------------------------------------------------
(* The deadline.  When no inactivity timer is armed, something under way   *)
(* will arm one: an answer for the worker, or what the worker made of it.  *)

Carries(q, kinds) == \E i \in 1..Len(q) : q[i].type \in kinds

DeadlineInv ==
    \/ main.ended \/ clock.idle # {}
    \/ Carries(toWorker, {"response"}) \/ Carries(toMain, {"prompt", "retry"})

\* How queues that carry a message of some kinds grow and shrink.
LEMMA CarriesSteps ==
    ASSUME NEW M, NEW q \in Seq(M), NEW kinds
    PROVE  /\ ~Carries(<<>>, kinds)
           /\ \A m \in M : /\ Carries(q, kinds) => Carries(Append(q, m), kinds)
                           /\ m.type \in kinds => Carries(Append(q, m), kinds)
           /\ \A a, b \in M : /\ Carries(q, kinds) => Carries(q \o <<a, b>>, kinds)
                              /\ a.type \in kinds => Carries(q \o <<a, b>>, kinds)
           /\ q # <<>> /\ Carries(q, kinds) => Head(q).type \in kinds \/ Carries(Tail(q), kinds)
  <1>1. ~Carries(<<>>, kinds)
    BY DEF Carries
  <1>2. ASSUME NEW m \in M
        PROVE  /\ Carries(q, kinds) => Carries(Append(q, m), kinds)
               /\ m.type \in kinds => Carries(Append(q, m), kinds)
    <2>1. /\ Len(Append(q, m)) = Len(q) + 1 /\ Len(q) \in Nat
          /\ \A i \in 1..Len(q) : Append(q, m)[i] = q[i]
          /\ Append(q, m)[Len(q) + 1] = m
      OBVIOUS
    <2> QED BY <2>1 DEF Carries
  <1>3. ASSUME NEW a \in M, NEW b \in M
        PROVE  /\ Carries(q, kinds) => Carries(q \o <<a, b>>, kinds)
               /\ a.type \in kinds => Carries(q \o <<a, b>>, kinds)
    <2>1. /\ Len(q \o <<a, b>>) = Len(q) + 2 /\ Len(q) \in Nat
          /\ \A i \in 1..Len(q) : (q \o <<a, b>>)[i] = q[i]
          /\ (q \o <<a, b>>)[Len(q) + 1] = a
      OBVIOUS
    <2> QED BY <2>1 DEF Carries
  <1>4. ASSUME q # <<>>, Carries(q, kinds) PROVE Head(q).type \in kinds \/ Carries(Tail(q), kinds)
    <2>1. PICK i \in 1..Len(q) : q[i].type \in kinds
      BY <1>4 DEF Carries
    <2>2. CASE i = 1
      BY <1>4, <2>1, <2>2, TailElements
    <2>3. CASE i # 1
      <3>1. i - 1 \in 1..Len(Tail(q)) /\ Tail(q)[i - 1] = q[i]
        BY <1>4, <2>1, <2>3, TailElements
      <3> QED BY <2>1, <3>1 DEF Carries
    <2> QED BY <2>2, <2>3
  <1> QED BY <1>1, <1>2, <1>3, <1>4

\* Every step that consumes what would have armed a timer arms it, or puts the next such
\* message under way.
LEMMA DeadlineStep == TypeInv /\ DeadlineInv /\ [PromptNext]_promptVars => DeadlineInv'
  <1> SUFFICES ASSUME TypeInv, DeadlineInv, [PromptNext]_promptVars PROVE DeadlineInv'
    OBVIOUS
  <1>1. /\ main \in Sessions(Known) /\ clock \in Clocks
        /\ toWorker \in Seq(WorkerMsgs(Known)) /\ toMain \in Seq(MainMsgs(Known))
    BY DEF TypeInv, MainOK, QueuesOK
  <1>2. CASE UNCHANGED <<toWorker, toMain, main, clock>>
    BY <1>2 DEF DeadlineInv, Carries
  <1>3. CASE ClientStep
    BY <1>2, <1>3 DEF ClientStep, ClientAnswers, ClientCancels
  <1>4. ASSUME NEW p \in Players, IgnoreAnswer(p) PROVE DeadlineInv'
    BY <1>2, <1>4 DEF IgnoreAnswer
  <1>5. ASSUME NEW p \in Players, InvalidAnswer(p) PROVE DeadlineInv'
    <2>1. UNCHANGED <<toWorker, toMain>> /\ (main'.ended \/ UNCHANGED clock)
      BY <1>1, <1>5 DEF InvalidAnswer, EndDuel, Sessions
    <2> QED BY <1>1, <2>1, <1>5 DEF DeadlineInv, InvalidAnswer, Answers, Carries
  <1>6. ASSUME NEW p \in Players, AcceptAnswer(p) PROVE DeadlineInv'
    <2>1. toWorker' = Append(toWorker, AnswerOf(p, Head(link[p]).prompt))
      BY <1>6 DEF AcceptAnswer
    <2>2. Head(link[p]).prompt \in Known
      <3>1. Head(link[p]) \in RouterMsgs(Known)
        BY <1>6, ReceiveTypes DEF AcceptAnswer, Answers, TypeInv
      <3> QED BY <1>6, <3>1, MessageFields DEF AcceptAnswer, Answers
    <2>3. AnswerOf(p, Head(link[p]).prompt) \in WorkerMsgs(Known)
      BY <2>2, MessageKinds
    <2>4. Carries(toWorker', {"response"})
      <3> DEFINE m == AnswerOf(p, Head(link[p]).prompt)
      <3>1. m.type \in {"response"}
        BY DEF AnswerOf
      <3> HIDE DEF m
      <3>2. m \in WorkerMsgs(Known) /\ toWorker' = Append(toWorker, m)
        BY <2>1, <2>3 DEF m
      <3> QED BY <1>1, <3>1, <3>2, CarriesSteps
    <2> QED BY <2>4 DEF DeadlineInv
  <1>7. ASSUME NEW p \in Players, NEW limited \in BOOLEAN, ReceiveCancel(p, limited) PROVE DeadlineInv'
    <2>1. UNCHANGED <<toMain, main, clock>> /\ toWorker' \in {toWorker, Append(toWorker, CancelOf(p))}
      BY <1>7 DEF ReceiveCancel
    <2>2. Carries(toWorker, {"response"}) => Carries(toWorker', {"response"})
      <3> DEFINE m == CancelOf(p)
      <3>1. m \in WorkerMsgs(Known)
        BY DEF WorkerMsgs
      <3> HIDE DEF m
      <3>2. CASE toWorker' = toWorker
        BY <3>2
      <3>3. CASE toWorker' = Append(toWorker, m)
        BY <1>1, <3>1, <3>3, CarriesSteps
      <3> QED BY <2>1, <3>2, <3>3 DEF m
    <2> QED BY <2>1, <2>2 DEF DeadlineInv, Carries
  <1>8. CASE WorkerRejects
    <2> DEFINE m == Head(toWorker)
               a == Retry(m.player, m.prompt # engine.at)
               b == Board(engine.turn, engine.turnPlayer)
    <2>1. toWorker # <<>> /\ m.type = "response" /\ toMain' = toMain \o <<a, b>>
      BY <1>8 DEF WorkerRejects
    <2>2. a \in MainMsgs(Known) /\ b \in MainMsgs(Known)
      <3>1. m.player \in Players /\ (m.prompt # engine.at) \in BOOLEAN
        BY <2>1, WorkerQueues
      <3>2. engine.turn \in 1..MaxTurn /\ engine.turnPlayer \in Players
        BY DEF TypeInv, EngineOK, Memory
      <3>3. engine.at \in Known
        BY DEF TypeInv, EngineOK
      <3> QED BY <3>1, <3>2, <3>3, MessageKinds
    <2>3. a.type \in {"prompt", "retry"}
      BY DEF Retry
    <2> HIDE DEF a, b
    <2>4. Carries(toMain', {"prompt", "retry"})
      BY <1>1, <2>1, <2>2, <2>3, CarriesSteps
    <2> QED BY <2>4 DEF DeadlineInv
  <1>9. ASSUME NEW p \in Players, NEW type \in {"menu", "step"}, NEW next \in BOOLEAN,
               NEW chain \in BOOLEAN, WorkerAccepts(p, type, next, chain)
        PROVE  DeadlineInv'
    <2> DEFINE n == Len(info) + 1
               t == engine.turn + (IF next THEN 1 ELSE 0)
               tp == IF next THEN Other(engine.turnPlayer) ELSE engine.turnPlayer
               a == Prompt(n)
               b == Board(t, tp)
    <2>1. toMain' = toMain \o <<a, b>> /\ n \in Prompts /\ t <= MaxTurn
      BY <1>9 DEF WorkerAccepts
    <2>2. t \in 1..MaxTurn /\ tp \in Players
      BY <2>1, TurnAssumption DEF TypeInv, EngineOK, Memory, Other, Players
    <2>3. a \in MainMsgs(Prompts) /\ b \in MainMsgs(Prompts) /\ a.type = "prompt"
      BY <2>1, <2>2, MessageKinds DEF Prompt
    <2>4. toMain \in Seq(MainMsgs(Prompts))
      <3>1. Known \subseteq Prompts
        BY PromptsAssumption DEF TypeInv, EngineOK, Known, Prompts
      <3> QED BY <1>1, <3>1, MessagesGrow, QueueOfMore
    <2>5. a.type \in {"prompt", "retry"}
      BY <2>3
    <2> HIDE DEF a, b
    <2>6. toMain' = toMain \o <<a, b>> /\ a \in MainMsgs(Prompts) /\ b \in MainMsgs(Prompts)
      BY <2>1, <2>3
    <2>7. Carries(toMain', {"prompt", "retry"})
      BY <2>4, <2>5, <2>6, CarriesSteps
    <2> QED BY <2>7 DEF DeadlineInv
  <1>10. CASE IgnoreCancel
    <2>1. /\ toWorker # <<>> /\ Head(toWorker).type = "cancel" /\ toWorker' = Tail(toWorker)
          /\ UNCHANGED <<toMain, main, clock>>
      BY <1>10 DEF IgnoreCancel, Take
    <2>2. Carries(toWorker, {"response"}) => Carries(toWorker', {"response"})
      BY <1>1, <2>1, CarriesSteps
    <2> QED BY <2>1, <2>2 DEF DeadlineInv, Carries
  <1>11. CASE Rollback
    <2> DEFINE p == Head(toWorker).player
               a == Board(snap.memory.turn, snap.memory.turnPlayer)
               b == CancelDone(p)
    <2>1. /\ toWorker # <<>> /\ Head(toWorker).type = "cancel" /\ toWorker' = Tail(toWorker)
          /\ UNCHANGED <<main, clock>> /\ snap # NoSnap /\ toMain' = toMain \o <<a, b>>
      BY <1>11 DEF Rollback, Take, CanCancel
    <2>2. Carries(toWorker, {"response"}) => Carries(toWorker', {"response"})
      BY <1>1, <2>1, CarriesSteps
    <2>3. a \in MainMsgs(Known) /\ b \in MainMsgs(Known)
      <3>1. p \in Players
        BY <2>1, WorkerQueues
      <3>2. snap.memory.turn \in 1..MaxTurn /\ snap.memory.turnPlayer \in Players
        BY <2>1 DEF TypeInv, EngineOK, Snapshots, Memory
      <3> QED BY <3>1, <3>2 DEF MainMsgs
    <2> HIDE DEF a, b
    <2>4. Carries(toMain, {"prompt", "retry"}) => Carries(toMain', {"prompt", "retry"})
      BY <1>1, <2>1, <2>3, CarriesSteps
    <2> QED BY <2>1, <2>2, <2>4 DEF DeadlineInv
  <1>12. CASE SnapshotExpires
    BY <1>2, <1>12 DEF SnapshotExpires, client
  <1>13. CASE ForwardPrompt
    <2>1. info[Head(toMain).prompt].player \in Players
      <3>1. Head(toMain).prompt \in Known
        BY <1>13, ArrivesTypes, MessageFields DEF ForwardPrompt
      <3>2. info[Head(toMain).prompt] \in Asked
        BY <3>1 DEF TypeInv, EngineOK, Known
      <3> QED BY <3>2 DEF Asked
    <2>2. clock' = Armed(clock, info[Head(toMain).prompt].player)
      BY <1>13 DEF ForwardPrompt
    <2>3. clock'.idle # {}
      <3>1. 1 \in 1..MaxTurn
        BY TurnAssumption
      <3> QED BY <1>1, <2>1, <2>2, <3>1, ClockOps
    <2> QED BY <2>3 DEF DeadlineInv
  <1>14. CASE ForwardBoard
    <2>1. /\ toMain # <<>> /\ Head(toMain).type = "board" /\ toMain' = Tail(toMain)
          /\ clock' = TurnChanged(clock, Head(toMain).turnPlayer, Head(toMain).turn)
          /\ UNCHANGED <<toWorker, main>>
      BY <1>14 DEF ForwardBoard, Arrives, client
    <2>2. Head(toMain).turnPlayer \in Players /\ Head(toMain).turn \in 1..MaxTurn
      BY <1>14, ArrivesTypes, MessageFields DEF ForwardBoard
    <2>3. clock'.idle = clock.idle
      BY <1>1, <2>1, <2>2, ClockOps
    <2>4. Carries(toMain, {"prompt", "retry"}) => Carries(toMain', {"prompt", "retry"})
      BY <1>1, <2>1, CarriesSteps
    <2> QED BY <2>1, <2>3, <2>4 DEF DeadlineInv, Carries
  <1>15. CASE ForwardRetry
    <2> DEFINE p == Head(toMain).player
               strike == [main EXCEPT !.strikes[p] = @ + 1]
    <2>1. \/ main' = EndDuel(strike)
          \/ clock' = Armed(clock, p)
      BY <1>15 DEF ForwardRetry
    <2>2. p \in Players
      BY <1>15, ArrivesTypes, MessageFields DEF ForwardRetry
    <2>3. EndDuel(strike).ended
      BY <1>1 DEF EndDuel, Sessions
    <2> HIDE DEF p, strike
    <2>4. Armed(clock, p).idle # {}
      <3>1. 1 \in 1..MaxTurn
        BY TurnAssumption
      <3> QED BY <1>1, <2>2, <3>1, ClockOps
    <2> QED BY <2>1, <2>3, <2>4 DEF DeadlineInv
  <1>16. CASE ApplyCancelRollback
    <2>1. /\ toMain # <<>> /\ Head(toMain).type = "cancelDone" /\ toMain' = Tail(toMain)
          /\ UNCHANGED <<toWorker, clock>>
      BY <1>16 DEF ApplyCancelRollback, Arrives
    <2>2. Carries(toMain, {"prompt", "retry"}) => Carries(toMain', {"prompt", "retry"})
      BY <1>1, <2>1, CarriesSteps
    <2>3. ~main.ended
      BY <1>16 DEF ApplyCancelRollback, Arrives
    <2> QED BY <2>1, <2>2, <2>3 DEF DeadlineInv, Carries
  <1>17. ASSUME NEW p \in Players, TimeOut(p) PROVE DeadlineInv'
    BY <1>1, <1>17 DEF TimeOut, EndDuel, Sessions, DeadlineInv
  <1>18. CASE ClockStarts
    <2>1. clock'.idle = clock.idle /\ UNCHANGED <<toWorker, toMain, main>>
      BY <1>1, <1>18 DEF ClockStarts, Clocks
    <2> QED BY <2>1 DEF DeadlineInv, Carries
  <1>19. CASE UNCHANGED promptVars
    BY <1>2, <1>19 DEF promptVars
  <1> QED BY <1>3, <1>4, <1>5, <1>6, <1>7, <1>8, <1>9, <1>10, <1>11, <1>12, <1>13, <1>14, <1>15,
             <1>16, <1>17, <1>18, <1>19
          DEF PromptNext, RouterStep, WorkerStep, MainStep

\* The duel never waits without a deadline: when nothing is under way inside the server, an
\* inactivity timer is armed.
THEOREM NoDuelWaitsForEver == PromptSpec => []DuelHasDeadline
  <1>1. PromptInit => DeadlineInv
    <2> SUFFICES ASSUME PromptInit PROVE Carries(toMain, {"prompt", "retry"})
      BY DEF DeadlineInv
    <2>1. toMain = <<Prompt(1), Board(1, 0)>> /\ Len(toMain) = 2 /\ toMain[1] = Prompt(1)
      BY DEF PromptInit
    <2> QED BY <2>1 DEF Carries, Prompt
  <1>2. DeadlineInv => DuelHasDeadline
    BY DEF DeadlineInv, DuelHasDeadline, Quiet, Carries
  <1> QED BY <1>1, <1>2, TypeInvariance, DeadlineStep, PTL DEF PromptSpec

-----------------------------------------------------------------------------
(* Agreement.  While no answer has crossed a cancellation, the duel is in  *)
(* one of five phases, and in each of them exactly one thing can make it   *)
(* go on: a player who is asked, his answer, the next prompt, a refusal,   *)
(* or the end of a rollback.  Boards may be under way in every phase, and  *)
(* cancellations only while their player is asked.                         *)

AllBoards(q) == \A i \in 1..Len(q) : q[i].type = "board"

\* m is the only message of the queue that is not a board.
OnlySignal(q, m) ==
    /\ m.type # "board"
    /\ \E i \in 1..Len(q) : q[i] = m /\ \A j \in (1..Len(q)) \ {i} : q[j].type = "board"

OnlyCancelsOf(q, p) == \A i \in 1..Len(q) : q[i] = CancelOf(p)

Silent(p) == shown[p] = NoPrompt /\ link[p] = <<>>

\* The player the engine waits for is awaited and timed, and nobody else is heard.
Turn ==
    /\ main.awaiting = {Awaited} /\ Silent(Other(Awaited))
    /\ Awaited \in clock.idle /\ clock.state # "stopped"

\* Nobody is asked anything.
Waiting == main.awaiting = {} /\ \A p \in Players : Silent(p)

\* The player is asked, and thinks (or takes back), or has answered.
Thinks ==
    /\ link[Awaited] \in {<<>>, <<Cancel>>} /\ shown[Awaited] = engine.at
    /\ OnlyCancelsOf(toWorker, Awaited)
HasAnswered ==
    /\ link[Awaited] = <<Response(engine.at)>> /\ shown[Awaited] = NoPrompt
    /\ toWorker = <<>>

InTurn ==
    /\ Turn /\ main.last[Awaited] = engine.at
    /\ AllBoards(toMain)
    /\ Thinks \/ HasAnswered

\* The worker has rolled back; the main thread has yet to.
RolledBack ==
    /\ Turn /\ main.target[Awaited] = engine.at /\ snap = NoSnap
    /\ OnlySignal(toMain, CancelDone(Awaited))
    /\ link[Awaited] \in {<<>>, <<Cancel>>}
    /\ OnlyCancelsOf(toWorker, Awaited)

Answered ==
    /\ Waiting /\ main.last[Awaited] = engine.at
    /\ AtMenu => main.target[Awaited] = engine.at
    /\ toWorker = <<AnswerOf(Awaited, engine.at)>> /\ AllBoards(toMain)

Prompting ==
    /\ Waiting
    /\ AtMenu => snap = NoSnap
    /\ toWorker = <<>> /\ OnlySignal(toMain, Prompt(engine.at))

Refused ==
    /\ Waiting /\ main.last[Awaited] = engine.at
    /\ toWorker = <<>> /\ OnlySignal(toMain, Retry(Awaited, FALSE))

Phases == InTurn \/ RolledBack \/ Answered \/ Prompting \/ Refused

\* The snapshot is of a menu of its player, the last one if the engine is at a menu, and the main
\* thread remembers it.
SnapIsMenu == snap # NoSnap => info[snap.memory.at] = [player |-> snap.player, type |-> "menu"]
SnapIsTarget ==
    snap # NoSnap => /\ main.target[snap.player] = snap.memory.at
                     /\ AtMenu => snap.memory.at = engine.at

AgreeInv == ~crossed => SnapIsMenu /\ (~main.ended => SnapIsTarget /\ Phases)

\* What becomes of queues that hold boards and one signal, or cancellations of one player.
LEMMA Emitted ==
    ASSUME NEW M, NEW q \in Seq(M), AllBoards(q), NEW m \in M, m.type # "board",
           NEW b \in M, b.type = "board"
    PROVE  OnlySignal(q \o <<m, b>>, m) /\ OnlySignal(q \o <<b, m>>, m)
  <1>1. ASSUME NEW x \in M, NEW y \in M
        PROVE /\ Len(q \o <<x, y>>) = Len(q) + 2
              /\ \A i \in 1..Len(q) : (q \o <<x, y>>)[i] = q[i]
              /\ (q \o <<x, y>>)[Len(q) + 1] = x
              /\ (q \o <<x, y>>)[Len(q) + 2] = y
    OBVIOUS
  <1>2. Len(q) \in Nat
    OBVIOUS
  <1>3. OnlySignal(q \o <<m, b>>, m)
    BY <1>1, <1>2 DEF OnlySignal, AllBoards
  <1>4. OnlySignal(q \o <<b, m>>, m)
    BY <1>1, <1>2 DEF OnlySignal, AllBoards
  <1> QED BY <1>3, <1>4

\* The first message of such a queue is taken.
LEMMA Taken ==
    ASSUME NEW M, NEW q \in Seq(M), q # <<>>
    PROVE  /\ AllBoards(q) => AllBoards(Tail(q)) /\ Head(q).type = "board"
           /\ \A m : OnlySignal(q, m) /\ Head(q).type = "board" => OnlySignal(Tail(q), m)
           /\ \A m : OnlySignal(q, m) /\ Head(q).type # "board" => Head(q) = m /\ AllBoards(Tail(q))
  <1>1. AllBoards(q) => AllBoards(Tail(q)) /\ Head(q).type = "board"
    BY TailElements DEF AllBoards
  <1>2. ASSUME NEW m, OnlySignal(q, m), Head(q).type = "board" PROVE OnlySignal(Tail(q), m)
    <2>1. PICK i \in 1..Len(q) : q[i] = m /\ \A j \in (1..Len(q)) \ {i} : q[j].type = "board"
      BY <1>2 DEF OnlySignal
    <2>2. i # 1 /\ i - 1 \in 1..Len(Tail(q)) /\ Tail(q)[i - 1] = m
      BY <1>2, <2>1, TailElements DEF OnlySignal
    <2>3. \A j \in (1..Len(Tail(q))) \ {i - 1} : Tail(q)[j].type = "board"
      BY <2>1, <2>2, TailElements
    <2> QED BY <1>2, <2>2, <2>3 DEF OnlySignal
  <1>3. ASSUME NEW m, OnlySignal(q, m), Head(q).type # "board" PROVE Head(q) = m /\ AllBoards(Tail(q))
    <2>1. PICK i \in 1..Len(q) : q[i] = m /\ \A j \in (1..Len(q)) \ {i} : q[j].type = "board"
      BY <1>3 DEF OnlySignal
    <2>2. i = 1
      BY <1>3, <2>1, TailElements
    <2> QED BY <2>1, <2>2, TailElements DEF AllBoards
  <1> QED BY <1>1, <1>2, <1>3

\* Cancellations of one player, added and taken.
LEMMA CancelQueues ==
    ASSUME NEW M, NEW q \in Seq(M), NEW p, CancelOf(p) \in M, OnlyCancelsOf(q, p)
    PROVE  /\ OnlyCancelsOf(Append(q, CancelOf(p)), p)
           /\ q # <<>> => /\ Head(q) = CancelOf(p) /\ OnlyCancelsOf(Tail(q), p)
                          /\ Holds(q, CancelOf(p))
  <1>1. OnlyCancelsOf(Append(q, CancelOf(p)), p)
    <2> DEFINE m == CancelOf(p)
    <2>1. /\ Len(Append(q, m)) = Len(q) + 1 /\ Len(q) \in Nat
          /\ \A i \in 1..Len(q) : Append(q, m)[i] = q[i]
          /\ Append(q, m)[Len(q) + 1] = m
      <3> HIDE DEF m
      <3>1. m \in M
        BY DEF m
      <3> QED BY <3>1
    <2> HIDE DEF m
    <2>2. \A i \in 1..Len(q) : q[i] = m
      BY DEF OnlyCancelsOf, m
    <2> QED BY <2>1, <2>2 DEF OnlyCancelsOf, m
  <1>2. ASSUME q # <<>>
        PROVE  Head(q) = CancelOf(p) /\ OnlyCancelsOf(Tail(q), p) /\ Holds(q, CancelOf(p))
    <2>1. Head(q) = CancelOf(p) /\ OnlyCancelsOf(Tail(q), p)
      BY <1>2, TailElements DEF OnlyCancelsOf
    <2>2. 1 \in DOMAIN q /\ q[1] = CancelOf(p)
      BY <1>2, <2>1, TailElements
    <2> QED BY <2>1, <2>2 DEF Holds
  <1> QED BY <1>1, <1>2

\* Queues of at most one message.
LEMMA ShortQueues ==
    /\ \A m : /\ Append(<<>>, m) = <<m>> /\ Head(<<m>>) = m /\ Tail(<<m>>) = <<>> /\ <<m>> # <<>>
              /\ Holds(<<m>>, m)
    /\ \A p : OnlyCancelsOf(<<>>, p)
  BY DEF Holds, OnlyCancelsOf

\* A signal under way is held, and is not a board.
LEMMA SignalHeld ==
    ASSUME NEW M, NEW q \in Seq(M), NEW m, OnlySignal(q, m)
    PROVE  Holds(q, m) /\ ~AllBoards(q) /\ q # <<>>
  <1>1. PICK i \in 1..Len(q) : q[i] = m
    BY DEF OnlySignal
  <1>2. i \in DOMAIN q
    BY <1>1
  <1> QED BY <1>1, <1>2 DEF OnlySignal, Holds, AllBoards

\* There are two players, and the engine waits for one of them.
LEMMA TheAwaited ==
    ASSUME TypeInv
    PROVE  /\ Awaited \in Players /\ Other(Awaited) \in Players /\ Other(Awaited) # Awaited
           /\ \A p \in Players : p = Awaited \/ p = Other(Awaited)
           /\ engine.at # NoPrompt /\ engine.at \in Known
           /\ AtMenu => info[engine.at] = [player |-> Awaited, type |-> "menu"]
  <1>1. engine.at \in 1..Len(info) /\ info \in Seq(Asked)
    BY DEF TypeInv, EngineOK, Known
  <1>2. info[engine.at] \in Asked
    BY <1>1
  <1>3. Awaited \in Players
    BY <1>2 DEF Awaited, Asked
  <1>4. \A x \in Asked : x.type = "menu" => x = [player |-> x.player, type |-> "menu"]
    BY DEF Asked
  <1>5. AtMenu => info[engine.at] = [player |-> Awaited, type |-> "menu"]
    BY <1>2, <1>4 DEF AtMenu, Awaited
  <1> QED BY <1>1, <1>3, <1>5 DEF Players, Other, NoPrompt, Known

\* Only the player the engine waits for has anything on his screen or on his way.
LEMMA OnlyTheAwaited ==
    ASSUME TypeInv, Phases, NEW p \in Players, ~Silent(p)
    PROVE  p = Awaited /\ (InTurn \/ RolledBack)
  BY TheAwaited DEF Phases, InTurn, RolledBack, Answered, Prompting, Refused, Turn, Waiting

\* A client acts in his turn, or while his rollback comes back; unless it crosses, an answer
\* finds no cancellation under way.
LEMMA AgreeClient ==
    ASSUME TypeInv, SnapIsTarget, Phases, ClientStep, ~crossed'
    PROVE  SnapIsTarget' /\ Phases'
  <1>1. UNCHANGED <<info, engine, resolving, captured, snap, toWorker, toMain, main, clock>>
    BY DEF ClientStep, ClientAnswers, ClientCancels, worker
  <1>2. Awaited' = Awaited /\ AtMenu' = AtMenu /\ SnapIsTarget'
    BY <1>1 DEF Awaited, AtMenu, SnapIsTarget
  <1>3. PICK p \in Players : ClientAnswers(p) \/ ClientCancels(p)
    BY DEF ClientStep
  <1>4. p = Awaited /\ (InTurn \/ RolledBack) /\ shown[p] # NoPrompt
    BY <1>3, OnlyTheAwaited DEF ClientAnswers, ClientCancels, Silent
  <1>5. link[p] \in {<<>>, <<Cancel>>} /\ (InTurn => Thinks)
    BY <1>4 DEF InTurn, RolledBack, Thinks, HasAnswered
  <1>6. /\ link \in [Players -> Seq(RouterMsgs(Known))] /\ toMain \in Seq(MainMsgs(Known))
        /\ shown \in [Players -> Known \cup {NoPrompt}] /\ toWorker \in Seq(WorkerMsgs(Known))
    BY DEF TypeInv, LinkOK, QueuesOK
  <1>7. /\ Awaited \in Players /\ Other(Awaited) \in Players /\ Other(Awaited) # Awaited
        /\ CancelOf(Awaited) \in WorkerMsgs(Known)
    BY TheAwaited, MessageKinds
  <1>8. CASE ClientAnswers(p)
    <2>1. ~CancelUnderWay(p)
      BY <1>8 DEF ClientAnswers
    <2>2. link[p] = <<>>
      BY <1>5, <2>1, ShortQueues DEF CancelUnderWay
    <2>3. ~RolledBack
      BY <1>4, <1>6, <2>1, SignalHeld DEF CancelUnderWay, RolledBack
    <2>4. InTurn /\ Thinks
      BY <1>4, <1>5, <2>3
    <2>5. toWorker = <<>> /\ shown[p] = engine.at
      BY <1>4, <1>6, <1>7, <2>1, <2>4, CancelQueues DEF CancelUnderWay, Thinks
    <2>6. link' = [link EXCEPT ![p] = <<Response(engine.at)>>] /\ shown' = [shown EXCEPT ![p] = NoPrompt]
      BY <1>6, <1>8, <2>2, <2>5, ShortQueues DEF ClientAnswers, Send
    <2>7. HasAnswered'
      BY <1>1, <1>2, <1>4, <1>6, <1>7, <2>5, <2>6 DEF HasAnswered
    <2>8. Silent(Other(Awaited))'
      BY <1>2, <1>4, <1>6, <1>7, <2>4, <2>6 DEF Silent, InTurn, Turn
    <2>9. InTurn'
      BY <1>1, <1>2, <2>4, <2>7, <2>8 DEF InTurn, Turn
    <2> QED BY <1>2, <2>9 DEF Phases
  <1>9. CASE ClientCancels(p)
    <2>1. link[p] = <<>>
      BY <1>5, <1>9, ShortQueues DEF ClientCancels
    <2>2. link' = [link EXCEPT ![p] = <<Cancel>>] /\ shown' = shown
      BY <1>6, <1>9, <2>1, ShortQueues DEF ClientCancels, Send
    <2>3. link'[Awaited] = <<Cancel>> /\ link'[Other(Awaited)] = link[Other(Awaited)]
      BY <1>4, <1>6, <1>7, <2>2
    <2>4. Turn => Turn'
      BY <1>1, <1>2, <2>2, <2>3 DEF Turn, Silent
    <2>5. InTurn => InTurn'
      BY <1>1, <1>2, <1>5, <2>2, <2>3, <2>4 DEF InTurn, Thinks
    <2>6. RolledBack => RolledBack'
      BY <1>1, <1>2, <2>3, <2>4 DEF RolledBack
    <2> QED BY <1>2, <1>4, <2>5, <2>6 DEF Phases
  <1> QED BY <1>3, <1>8, <1>9

\* The main thread takes what the awaited client sent: it refuses, accepts or forwards it.
LEMMA AgreeRouter ==
    ASSUME TypeInv, SnapIsMenu, SnapIsTarget, Phases, RouterStep, ~main'.ended
    PROVE  SnapIsTarget' /\ Phases'
  <1>1. UNCHANGED <<info, engine, resolving, captured, snap, toMain, crossed>>
    BY DEF RouterStep, IgnoreAnswer, InvalidAnswer, AcceptAnswer, ReceiveCancel, worker
  <1>2. Awaited' = Awaited /\ AtMenu' = AtMenu
    BY <1>1 DEF Awaited, AtMenu
  <1>3. PICK p \in Players : \/ IgnoreAnswer(p) \/ InvalidAnswer(p) \/ AcceptAnswer(p)
                             \/ \E limited \in BOOLEAN : ReceiveCancel(p, limited)
    BY DEF RouterStep
  <1>4. link[p] # <<>> /\ Receive(p)
    BY <1>3 DEF IgnoreAnswer, InvalidAnswer, AcceptAnswer, ReceiveCancel, Answers
  <1>5. p = Awaited /\ (InTurn \/ RolledBack)
    BY <1>4, OnlyTheAwaited DEF Silent
  <1>6. /\ main \in Sessions(Known) /\ shown \in [Players -> Known \cup {NoPrompt}]
        /\ link \in [Players -> Seq(RouterMsgs(Known))] /\ toWorker \in Seq(WorkerMsgs(Known))
    BY DEF TypeInv, MainOK, LinkOK, QueuesOK
  <1>7. /\ Awaited \in Players /\ Other(Awaited) \in Players /\ Other(Awaited) # Awaited
        /\ CancelOf(Awaited) \in WorkerMsgs(Known) /\ engine.at # NoPrompt
        /\ \A q \in Players : q = Awaited \/ q = Other(Awaited)
    BY TheAwaited, MessageKinds
  <1>8. \/ link[p] = <<Cancel>> /\ Head(link[p]) = Cancel /\ (InTurn => Thinks)
        \/ InTurn /\ HasAnswered /\ Head(link[p]) = Response(engine.at)
    BY <1>4, <1>5, ShortQueues DEF InTurn, RolledBack, Thinks, HasAnswered
  <1>9. link'[Awaited] = <<>> /\ link'[Other(Awaited)] = link[Other(Awaited)]
    <2>1. Tail(link[p]) = <<>>
      BY <1>5, <1>8, ShortQueues DEF HasAnswered
    <2> QED BY <1>4, <1>5, <1>6, <1>7, <2>1 DEF Receive
  <1>10. ASSUME Head(link[p]).type = "response"
         PROVE  InTurn /\ HasAnswered /\ Head(link[p]).prompt = engine.at
    BY <1>8, <1>10 DEF Cancel, Response
  <1>11. ~IgnoreAnswer(p)
    BY <1>5, <1>10 DEF IgnoreAnswer, InTurn, Turn
  <1>12. CASE InvalidAnswer(p)
    <2> DEFINE strike == [main EXCEPT !.strikes[p] = @ + 1]
    <2>1. InTurn /\ HasAnswered
      BY <1>10, <1>12 DEF InvalidAnswer, Answers
    <2>2. /\ strike.awaiting = main.awaiting /\ strike.last = main.last
          /\ strike.target = main.target
      BY <1>6 DEF Sessions
    <2>3. /\ main' = strike /\ shown' = [shown EXCEPT ![p] = main.last[p]]
          /\ UNCHANGED <<clock, toWorker>>
      <3>1. EndDuel(strike).ended
        BY <1>6 DEF EndDuel, Sessions
      <3> QED BY <1>12, <3>1 DEF InvalidAnswer
    <2> HIDE DEF strike
    <2>4. shown'[Awaited] = engine.at /\ shown'[Other(Awaited)] = shown[Other(Awaited)]
      BY <1>5, <1>6, <1>7, <2>1, <2>3 DEF InTurn
    <2>5. Thinks'
      BY <1>1, <1>2, <1>9, <2>1, <2>3, <2>4, ShortQueues DEF Thinks, HasAnswered
    <2>6. InTurn'
      BY <1>1, <1>2, <1>9, <2>1, <2>2, <2>3, <2>4, <2>5 DEF InTurn, Turn, Silent
    <2>7. SnapIsTarget'
      BY <1>1, <1>2, <2>2, <2>3 DEF SnapIsTarget
    <2> QED BY <2>6, <2>7 DEF Phases
  <1>13. CASE AcceptAnswer(p)
    <2> DEFINE n == IF AtMenu THEN main.last[p] ELSE main.target[p]
    <2>1. InTurn /\ HasAnswered /\ Head(link[p]).prompt = engine.at
      BY <1>10, <1>13 DEF AcceptAnswer, Answers
    <2>2. /\ main' = [main EXCEPT !.strikes[p] = 0, !.awaiting = @ \ {p}, !.target[p] = n]
          /\ toWorker' = Append(toWorker, AnswerOf(p, engine.at)) /\ UNCHANGED shown
      BY <1>13, <2>1 DEF AcceptAnswer, AtMenu
    <2>3. toWorker' = <<AnswerOf(Awaited, engine.at)>>
      BY <1>5, <2>1, <2>2, ShortQueues DEF HasAnswered
    <2>4. n = IF AtMenu THEN engine.at ELSE main.target[p]
      BY <1>5, <2>1 DEF InTurn
    <2>5. /\ main'.awaiting = main.awaiting \ {p} /\ main'.last = main.last
          /\ main'.target = [main.target EXCEPT ![p] = n]
      <3> HIDE DEF n
      <3> QED BY <1>6, <2>2 DEF Sessions
    <2>6. main.target \in [Players -> Known \cup {NoPrompt}]
      BY <1>6 DEF Sessions
    <2> HIDE DEF n
    <2>7. Waiting'
      <3>1. main'.awaiting = {}
        BY <1>5, <2>1, <2>5 DEF InTurn, Turn
      <3>2. \A q \in Players : shown'[q] = NoPrompt /\ link'[q] = <<>>
        BY <1>7, <1>9, <2>1, <2>2 DEF InTurn, Turn, Silent, HasAnswered
      <3> QED BY <3>1, <3>2 DEF Waiting, Silent
    <2>8. Answered'
      BY <1>1, <1>2, <1>5, <1>7, <2>1, <2>3, <2>4, <2>5, <2>6, <2>7 DEF Answered, InTurn
    <2>9. SnapIsTarget'
      <3> SUFFICES ASSUME snap # NoSnap PROVE main'.target[snap.player] = snap.memory.at
        BY <1>1, <1>2 DEF SnapIsTarget
      <3>1. CASE snap.player = p /\ AtMenu
        BY <1>5, <1>7, <2>4, <2>5, <2>6, <3>1 DEF SnapIsTarget
      <3>2. CASE snap.player # p \/ ~AtMenu
        BY <1>5, <1>7, <2>4, <2>5, <2>6, <3>2 DEF SnapIsTarget
      <3> QED BY <3>1, <3>2
    <2> QED BY <2>8, <2>9 DEF Phases
  <1>14. ASSUME NEW limited \in BOOLEAN, ReceiveCancel(p, limited) PROVE SnapIsTarget' /\ Phases'
    <2>1. UNCHANGED <<shown, main, clock>> /\ toWorker' \in {toWorker, Append(toWorker, CancelOf(p))}
      BY <1>14 DEF ReceiveCancel
    <2>2. link[p] = <<Cancel>> /\ (InTurn => Thinks)
      BY <1>8, <1>14 DEF ReceiveCancel, Response
    <2>3. OnlyCancelsOf(toWorker', Awaited)
      <3>1. OnlyCancelsOf(toWorker, Awaited)
        BY <1>5, <2>2 DEF Thinks, RolledBack
      <3> QED BY <1>5, <1>6, <1>7, <2>1, <3>1, CancelQueues
    <2>4. Turn => Turn'
      BY <1>1, <1>2, <1>9, <2>1 DEF Turn, Silent
    <2>5. InTurn => InTurn'
      BY <1>1, <1>2, <1>9, <2>1, <2>2, <2>3, <2>4 DEF InTurn, Thinks
    <2>6. RolledBack => RolledBack'
      BY <1>1, <1>2, <1>9, <2>1, <2>3, <2>4 DEF RolledBack
    <2> QED BY <1>1, <1>2, <1>5, <2>1, <2>5, <2>6 DEF Phases, SnapIsTarget
  <1> QED BY <1>3, <1>11, <1>12, <1>13, <1>14

\* An answer the worker takes is to the prompt the engine waits for.
LEMMA AnswerTaken ==
    ASSUME TypeInv, Phases, toWorker # <<>>, Head(toWorker).type = "response"
    PROVE  Answered /\ Head(toWorker) = AnswerOf(Awaited, engine.at) /\ Tail(toWorker) = <<>>
  <1>1. toWorker \in Seq(WorkerMsgs(Known)) /\ CancelOf(Awaited) \in WorkerMsgs(Known)
    BY TheAwaited, MessageKinds DEF TypeInv, QueuesOK
  <1>2. ~OnlyCancelsOf(toWorker, Awaited)
    BY <1>1, CancelQueues DEF CancelOf
  <1>3. Answered
    BY <1>2 DEF Phases, InTurn, Thinks, HasAnswered, RolledBack, Prompting, Refused
  <1> QED BY <1>3, ShortQueues DEF Answered

\* A cancellation it takes is of the player the engine waits for, who has not answered.
LEMMA CancelTaken ==
    ASSUME TypeInv, Phases, toWorker # <<>>, Head(toWorker).type = "cancel"
    PROVE  /\ (InTurn /\ Thinks) \/ RolledBack
           /\ Head(toWorker) = CancelOf(Awaited) /\ OnlyCancelsOf(Tail(toWorker), Awaited)
  <1>1. toWorker \in Seq(WorkerMsgs(Known)) /\ CancelOf(Awaited) \in WorkerMsgs(Known)
    BY TheAwaited, MessageKinds DEF TypeInv, QueuesOK
  <1>2. ~Answered
    BY ShortQueues DEF Answered, AnswerOf
  <1>3. (InTurn /\ Thinks) \/ RolledBack
    BY <1>2 DEF Phases, InTurn, HasAnswered, Prompting, Refused
  <1> QED BY <1>1, <1>3, CancelQueues DEF Thinks, RolledBack

\* The worker takes the one answer, or a cancellation of the awaited player.
LEMMA AgreeWorker ==
    ASSUME TypeInv, SnapIsMenu, SnapIsTarget, Phases, WorkerStep
    PROVE  SnapIsMenu' /\ SnapIsTarget' /\ Phases'
  <1>1. UNCHANGED <<link, shown, crossed, main, clock>>
    BY DEF WorkerStep, WorkerRejects, WorkerAccepts, IgnoreCancel, Rollback, SnapshotExpires, client
  <1>2. /\ toWorker \in Seq(WorkerMsgs(Known)) /\ toMain \in Seq(MainMsgs(Known))
        /\ EngineOK /\ main \in Sessions(Known)
    BY DEF TypeInv, QueuesOK, MainOK
  <1>3. /\ Awaited \in Players /\ Other(Awaited) \in Players /\ Other(Awaited) # Awaited
        /\ CancelOf(Awaited) \in WorkerMsgs(Known) /\ engine.at \in Known
    BY TheAwaited, MessageKinds
  <1>4. ASSUME toWorker # <<>>, Head(toWorker).type = "response"
        PROVE  Answered /\ Head(toWorker) = AnswerOf(Awaited, engine.at) /\ Tail(toWorker) = <<>>
    BY <1>4, AnswerTaken
  <1>5. ASSUME toWorker # <<>>, Head(toWorker).type = "cancel"
        PROVE  /\ (InTurn /\ Thinks) \/ RolledBack
               /\ Head(toWorker) = CancelOf(Awaited) /\ OnlyCancelsOf(Tail(toWorker), Awaited)
    BY <1>5, CancelTaken
  <1>6. CASE WorkerRejects
    <2> DEFINE a == Retry(Awaited, FALSE)
               b == Board(engine.turn, engine.turnPlayer)
    <2>1. Answered /\ toWorker # <<>> /\ Head(toWorker) = AnswerOf(Awaited, engine.at) /\ toWorker' = <<>>
      BY <1>4, <1>6 DEF WorkerRejects, Take
    <2>2. Head(toWorker).player = Awaited /\ Head(toWorker).prompt = engine.at
      BY <2>1 DEF AnswerOf
    <2>3. /\ toMain' = toMain \o <<a, b>> /\ UNCHANGED info
          /\ snap' = IF AtMenu THEN Snapshot(Awaited) ELSE snap
      BY <1>6, <2>2 DEF WorkerRejects, AtMenu
    <2>4. engine'.at = engine.at
      BY <1>2, <1>6 DEF WorkerRejects, EngineOK, Memory
    <2>5. Awaited' = Awaited /\ AtMenu' = AtMenu
      BY <2>3, <2>4 DEF Awaited, AtMenu
    <2>6. OnlySignal(toMain', a)
      <3>1. a \in MainMsgs(Known) /\ b \in MainMsgs(Known)
        BY <1>2, <1>3, MessageKinds DEF EngineOK, Memory
      <3>2. a.type # "board" /\ b.type = "board"
        BY DEF Retry, Board
      <3>3. AllBoards(toMain)
        BY <2>1 DEF Answered
      <3> HIDE DEF a, b
      <3> QED BY <1>2, <2>3, <3>1, <3>2, <3>3, Emitted
    <2>7. Refused'
      BY <1>1, <2>1, <2>4, <2>5, <2>6 DEF Refused, Answered, Waiting, Silent
    <2>8. CASE AtMenu
      <3>1. /\ snap' # NoSnap /\ snap'.player = Awaited /\ snap'.memory = engine
        BY <1>2, <1>3, <2>3, <2>8, SnapshotType
      <3>2. info[engine.at] = [player |-> Awaited, type |-> "menu"]
        BY <2>8, TheAwaited
      <3>3. main.target[Awaited] = engine.at
        BY <2>1, <2>8 DEF Answered
      <3> QED BY <1>1, <2>3, <2>4, <2>7, <3>1, <3>2, <3>3 DEF Phases, SnapIsMenu, SnapIsTarget
    <2>9. CASE ~AtMenu
      BY <1>1, <2>3, <2>5, <2>7, <2>9 DEF Phases, SnapIsMenu, SnapIsTarget
    <2> QED BY <2>8, <2>9
  <1>7. ASSUME NEW p \in Players, NEW type \in {"menu", "step"}, NEW next \in BOOLEAN,
               NEW chain \in BOOLEAN, WorkerAccepts(p, type, next, chain)
        PROVE  SnapIsMenu' /\ SnapIsTarget' /\ Phases'
    <2> DEFINE n == Len(info) + 1
               t == engine.turn + (IF next THEN 1 ELSE 0)
               tp == IF next THEN Other(engine.turnPlayer) ELSE engine.turnPlayer
               a == Prompt(n)
               b == Board(t, tp)
    <2>1. Answered /\ toWorker # <<>> /\ Head(toWorker) = AnswerOf(Awaited, engine.at) /\ toWorker' = <<>>
      BY <1>4, <1>7 DEF WorkerAccepts, Take
    <2>2. Head(toWorker).player = Awaited /\ Head(toWorker).prompt = engine.at
      BY <2>1 DEF AnswerOf
    <2>3. /\ toMain' = toMain \o <<a, b>> /\ engine'.at = n /\ n \in Prompts /\ t <= MaxTurn
          /\ info' = Append(info, [player |-> p, type |-> type])
          /\ snap' = IF type = "menu" THEN NoSnap
                     ELSE IF AtMenu THEN Snapshot(Awaited) ELSE snap
      BY <1>7, <2>2 DEF WorkerAccepts, AtMenu
    <2>4. /\ Len(info) \in Nat /\ \A i \in Known : info'[i] = info[i]
          /\ info'[n] = [player |-> p, type |-> type]
      BY <1>2, <2>3 DEF EngineOK, Known, Asked
    <2>5. AtMenu' <=> type = "menu"
      BY <2>3, <2>4 DEF AtMenu
    <2>6. OnlySignal(toMain', Prompt(engine'.at))
      <3>1. t \in 1..MaxTurn /\ tp \in Players
        BY <1>2, <2>3, TurnAssumption DEF EngineOK, Memory, Other, Players
      <3>2. toMain \in Seq(MainMsgs(Prompts))
        <4>1. Known \subseteq Prompts
          BY <1>2, PromptsAssumption DEF EngineOK, Known, Prompts
        <4> QED BY <1>2, <4>1, MessagesGrow, QueueOfMore
      <3>3. a \in MainMsgs(Prompts) /\ b \in MainMsgs(Prompts)
        BY <2>3, <3>1, MessageKinds
      <3>4. a.type # "board" /\ b.type = "board"
        BY DEF Prompt, Board
      <3>5. AllBoards(toMain)
        BY <2>1 DEF Answered
      <3>6. a = Prompt(engine'.at) /\ toMain' = toMain \o <<a, b>>
        BY <2>3
      <3> HIDE DEF a, b
      <3> QED BY <3>2, <3>3, <3>4, <3>5, <3>6, Emitted
    <2>7. Prompting'
      BY <1>1, <2>1, <2>3, <2>5, <2>6 DEF Prompting, Answered, Waiting, Silent
    <2>8. CASE snap' = NoSnap
      BY <2>7, <2>8 DEF Phases, SnapIsMenu, SnapIsTarget
    <2>9. CASE type # "menu" /\ AtMenu
      <3>1. /\ snap' # NoSnap /\ snap'.player = Awaited /\ snap'.memory = engine
        BY <1>2, <1>3, <2>3, <2>9, SnapshotType
      <3>2. info'[engine.at] = [player |-> Awaited, type |-> "menu"]
        BY <1>3, <2>4, <2>9, TheAwaited
      <3>3. main.target[Awaited] = engine.at
        BY <2>1, <2>9 DEF Answered
      <3> QED BY <1>1, <2>5, <2>7, <2>9, <3>1, <3>2, <3>3 DEF Phases, SnapIsMenu, SnapIsTarget
    <2>10. CASE type # "menu" /\ ~AtMenu /\ snap # NoSnap
      <3>1. snap' = snap /\ snap.memory.at \in Known
        BY <1>2, <2>3, <2>10 DEF EngineOK
      <3> QED BY <1>1, <2>4, <2>5, <2>7, <2>10, <3>1 DEF Phases, SnapIsMenu, SnapIsTarget
    <2> QED BY <2>3, <2>8, <2>9, <2>10
  <1>8. CASE IgnoreCancel
    <2>1. /\ toWorker # <<>> /\ Head(toWorker).type = "cancel" /\ toWorker' = Tail(toWorker)
          /\ UNCHANGED <<info, engine, snap, toMain>>
      BY <1>8 DEF IgnoreCancel, Take, worker
    <2>2. Awaited' = Awaited /\ AtMenu' = AtMenu
      BY <2>1 DEF Awaited, AtMenu
    <2>3. ((InTurn /\ Thinks) \/ RolledBack) /\ OnlyCancelsOf(toWorker', Awaited)
      BY <1>5, <2>1
    <2>4. Turn => Turn'
      BY <1>1, <2>2 DEF Turn, Silent
    <2>5. InTurn /\ Thinks => InTurn'
      BY <1>1, <2>1, <2>2, <2>3, <2>4 DEF InTurn, Thinks
    <2>6. RolledBack => RolledBack'
      BY <1>1, <2>1, <2>2, <2>3, <2>4 DEF RolledBack
    <2> QED BY <1>1, <2>1, <2>2, <2>3, <2>5, <2>6 DEF Phases, SnapIsMenu, SnapIsTarget
  <1>9. CASE Rollback
    <2> DEFINE a == Board(snap.memory.turn, snap.memory.turnPlayer)
               b == CancelDone(Awaited)
    <2>1. /\ toWorker # <<>> /\ Head(toWorker).type = "cancel" /\ toWorker' = Tail(toWorker)
          /\ CanCancel(Head(toWorker).player) /\ UNCHANGED info
          /\ engine' = snap.memory /\ snap' = NoSnap
          /\ toMain' = toMain \o <<a, CancelDone(Head(toWorker).player)>>
      BY <1>9 DEF Rollback, Take
    <2>2. Head(toWorker).player = Awaited
      BY <1>5, <2>1 DEF CancelOf
    <2>3. snap # NoSnap /\ snap.player = Awaited
      BY <2>1, <2>2 DEF CanCancel
    <2>4. InTurn /\ Thinks /\ OnlyCancelsOf(toWorker', Awaited)
      BY <1>5, <2>1, <2>3 DEF RolledBack
    <2>5. Awaited' = Awaited
      BY <2>1, <2>3 DEF Awaited, SnapIsMenu
    <2>6. main.target[Awaited] = engine'.at
      BY <2>1, <2>3 DEF SnapIsTarget
    <2>7. OnlySignal(toMain', b)
      <3>1. snap.memory.turn \in 1..MaxTurn /\ snap.memory.turnPlayer \in Players
        BY <1>2, <2>3 DEF EngineOK, Snapshots, Memory
      <3>2. a \in MainMsgs(Known) /\ b \in MainMsgs(Known)
        BY <1>3, <3>1 DEF MainMsgs
      <3>3. b.type # "board" /\ a.type = "board"
        BY DEF CancelDone, Board
      <3>4. AllBoards(toMain) /\ toMain' = toMain \o <<a, b>>
        BY <2>1, <2>2, <2>4 DEF InTurn
      <3> HIDE DEF a, b
      <3> QED BY <1>2, <3>2, <3>3, <3>4, Emitted
    <2>8. Turn'
      BY <1>1, <2>4, <2>5 DEF InTurn, Turn, Silent
    <2>9. RolledBack'
      BY <1>1, <2>1, <2>4, <2>5, <2>6, <2>7, <2>8 DEF RolledBack, Thinks
    <2> QED BY <2>1, <2>9 DEF Phases, SnapIsMenu, SnapIsTarget
  <1>10. CASE SnapshotExpires
    <2>1. snap' = NoSnap /\ UNCHANGED <<info, engine, toWorker, toMain>>
      BY <1>10 DEF SnapshotExpires
    <2>2. Awaited' = Awaited /\ AtMenu' = AtMenu
      BY <2>1 DEF Awaited, AtMenu
    <2>3. (Turn => Turn') /\ (Waiting => Waiting')
      BY <1>1, <2>2 DEF Turn, Waiting, Silent
    <2>4. Phases'
      BY <1>1, <2>1, <2>2, <2>3
         DEF Phases, InTurn, Thinks, HasAnswered, RolledBack, Answered, Prompting, Refused
    <2> QED BY <2>1, <2>4 DEF SnapIsMenu, SnapIsTarget
  <1> QED BY <1>6, <1>7, <1>8, <1>9, <1>10 DEF WorkerStep

\* The main thread takes a board, or the signal of the phase, which gives the turn back.
LEMMA AgreeMain ==
    ASSUME TypeInv, SnapIsTarget, Phases, MainStep, ~main'.ended
    PROVE  SnapIsTarget' /\ Phases'
  <1>1. UNCHANGED <<info, engine, resolving, captured, snap, toWorker, link, crossed>>
    BY DEF MainStep, ForwardPrompt, ForwardBoard, ForwardRetry, ApplyCancelRollback, worker, client
  <1>2. Awaited' = Awaited /\ AtMenu' = AtMenu
    BY <1>1 DEF Awaited, AtMenu
  <1>3. /\ main \in Sessions(Known) /\ clock \in Clocks /\ toMain \in Seq(MainMsgs(Known))
        /\ shown \in [Players -> Known \cup {NoPrompt}]
        /\ main.last \in [Players -> Known \cup {NoPrompt}]
        /\ main.target \in [Players -> Known \cup {NoPrompt}]
    BY DEF TypeInv, QueuesOK, MainOK, LinkOK, Sessions
  <1>4. /\ Awaited \in Players /\ Other(Awaited) \in Players /\ Other(Awaited) # Awaited
        /\ engine.at # NoPrompt
    BY TheAwaited
  <1>5. PICK type : Arrives(type)
    BY DEF MainStep, ForwardPrompt, ForwardBoard, ForwardRetry, ApplyCancelRollback
  <1>6. toMain # <<>> /\ toMain' = Tail(toMain)
    BY <1>5 DEF Arrives
  <1>7. ASSUME NEW m, OnlySignal(toMain, m), Head(toMain).type # "board"
        PROVE  Head(toMain) = m /\ AllBoards(toMain')
    BY <1>3, <1>6, <1>7, Taken
  <1>8. AllBoards(toMain) => Head(toMain).type = "board"
    BY <1>3, <1>6, Taken
  <1>9. /\ RolledBack /\ Head(toMain).type # "board" =>
             Head(toMain) = CancelDone(Awaited) /\ AllBoards(toMain')
        /\ Prompting /\ Head(toMain).type # "board" =>
             Head(toMain) = Prompt(engine.at) /\ AllBoards(toMain')
        /\ Refused /\ Head(toMain).type # "board" =>
             Head(toMain) = Retry(Awaited, FALSE) /\ AllBoards(toMain')
        /\ InTurn \/ Answered => Head(toMain).type = "board"
    BY <1>7, <1>8 DEF RolledBack, Prompting, Refused, InTurn, Answered
  <1>10. 1 \in 1..MaxTurn
    BY TurnAssumption
  <1>11. CASE ForwardPrompt
    <2> DEFINE a == Awaited
               x == IF AtMenu THEN NoPrompt ELSE main.target[a]
    <2>1. Prompting /\ Head(toMain) = Prompt(engine.at) /\ AllBoards(toMain')
      BY <1>9, <1>11 DEF ForwardPrompt, Arrives, Phases, CancelDone, Retry
    <2>2. Head(toMain).prompt = engine.at
      BY <2>1 DEF Prompt
    <2>3. /\ main' = [main EXCEPT !.awaiting = @ \cup {a}, !.last[a] = engine.at, !.target[a] = x]
          /\ clock' = Armed(clock, a) /\ shown' = [shown EXCEPT ![a] = engine.at]
      BY <1>11, <2>2 DEF ForwardPrompt, Awaited, AtMenu
    <2>4. a \in Players
      BY <1>4
    <2> HIDE DEF a, x
    <2>5. /\ main'.awaiting = main.awaiting \cup {a} /\ main'.last[a] = engine.at
          /\ main'.target = [main.target EXCEPT ![a] = x]
      BY <1>3, <2>3, <2>4 DEF Sessions
    <2>6. clock'.state = "pending" /\ a \in clock'.idle
      BY <1>3, <1>10, <2>3, <2>4, ClockOps
    <2>7. Silent(Other(Awaited))'
      BY <1>1, <1>2, <1>3, <1>4, <2>1, <2>3 DEF Prompting, Waiting, Silent, a
    <2>8. Thinks'
      BY <1>1, <1>2, <1>3, <1>4, <2>1, <2>3, ShortQueues
         DEF Prompting, Waiting, Silent, Thinks, a
    <2>9. InTurn'
      BY <1>1, <1>2, <2>1, <2>5, <2>6, <2>7, <2>8 DEF InTurn, Turn, Prompting, Waiting, a
    <2>10. SnapIsTarget'
      BY <1>1, <1>2, <1>3, <2>1, <2>5 DEF SnapIsTarget, Prompting, x
    <2> QED BY <2>9, <2>10 DEF Phases
  <1>12. CASE ForwardBoard
    <2>1. /\ Head(toMain).type = "board"
          /\ clock' = TurnChanged(clock, Head(toMain).turnPlayer, Head(toMain).turn)
          /\ UNCHANGED <<shown, main>>
      BY <1>12 DEF ForwardBoard, Arrives, client
    <2>2. clock'.idle = clock.idle /\ clock'.state = clock.state
      <3>1. Head(toMain).turnPlayer \in Players /\ Head(toMain).turn \in 1..MaxTurn
        BY <1>12, ArrivesTypes, MessageFields DEF ForwardBoard
      <3> QED BY <1>3, <2>1, <3>1, ClockOps
    <2>3. AllBoards(toMain) => AllBoards(toMain')
      BY <1>3, <1>6, Taken
    <2>4. ASSUME NEW m, OnlySignal(toMain, m) PROVE OnlySignal(toMain', m)
      BY <1>3, <1>6, <2>1, <2>4, Taken
    <2>5. (Turn => Turn') /\ (Waiting => Waiting')
      BY <1>1, <1>2, <2>1, <2>2 DEF Turn, Waiting, Silent
    <2>6. (InTurn => InTurn') /\ (Answered => Answered')
      BY <1>1, <1>2, <2>1, <2>3, <2>5 DEF InTurn, Thinks, HasAnswered, Answered
    <2>7. RolledBack => RolledBack'
      BY <1>1, <1>2, <2>1, <2>4, <2>5 DEF RolledBack
    <2>8. (Prompting => Prompting') /\ (Refused => Refused')
      BY <1>1, <1>2, <2>1, <2>4, <2>5 DEF Prompting, Refused
    <2>9. SnapIsTarget'
      BY <1>1, <1>2, <2>1 DEF SnapIsTarget
    <2> QED BY <2>6, <2>7, <2>8, <2>9 DEF Phases
  <1>13. CASE ForwardRetry
    <2> DEFINE a == Awaited
               strike == [main EXCEPT !.strikes[a] = @ + 1]
    <2>1. Refused /\ Head(toMain) = Retry(a, FALSE) /\ AllBoards(toMain')
      <3>1. Head(toMain).type = "retry"
        BY <1>13 DEF ForwardRetry, Arrives
      <3>2. CancelDone(Awaited).type # "retry" /\ Prompt(engine.at).type # "retry"
        BY DEF CancelDone, Prompt
      <3> QED BY <1>9, <3>1, <3>2 DEF Phases
    <2>2. Head(toMain).player = a
      BY <2>1 DEF Retry
    <2>3. /\ strike.awaiting = main.awaiting /\ strike.last = main.last
          /\ strike.target = main.target
      BY <1>3 DEF Sessions
    <2>4. /\ main' = [strike EXCEPT !.awaiting = @ \cup {a}] /\ clock' = Armed(clock, a)
          /\ shown' = [shown EXCEPT ![a] = main.last[a]]
      <3>1. EndDuel(strike).ended
        BY <1>3 DEF EndDuel, Sessions
      <3> QED BY <1>13, <2>2, <3>1 DEF ForwardRetry
    <2>5. a \in Players /\ main.last[a] = engine.at
      BY <1>4, <2>1 DEF Refused
    <2>6. /\ main'.awaiting = main.awaiting \cup {a} /\ main'.last = main.last
          /\ main'.target = main.target
      BY <1>3, <2>3, <2>4 DEF Sessions
    <2> HIDE DEF strike, a
    <2>7. clock'.state = "pending" /\ a \in clock'.idle
      BY <1>3, <1>10, <2>4, <2>5, ClockOps
    <2>8. Silent(Other(Awaited))'
      BY <1>1, <1>2, <1>3, <1>4, <2>1, <2>4 DEF Refused, Waiting, Silent, a
    <2>9. Thinks'
      BY <1>1, <1>2, <1>3, <1>4, <2>1, <2>4, <2>5, ShortQueues
         DEF Refused, Waiting, Silent, Thinks, a
    <2>10. InTurn'
      BY <1>1, <1>2, <2>1, <2>5, <2>6, <2>7, <2>8, <2>9 DEF InTurn, Turn, Refused, Waiting, a
    <2>11. SnapIsTarget'
      BY <1>1, <1>2, <2>6 DEF SnapIsTarget
    <2> QED BY <2>10, <2>11 DEF Phases
  <1>14. CASE ApplyCancelRollback
    <2> DEFINE a == Awaited
               n == engine.at
    <2>1. RolledBack /\ Head(toMain) = CancelDone(a) /\ AllBoards(toMain')
      BY <1>9, <1>14 DEF ApplyCancelRollback, Arrives, Phases, Prompt, Retry
    <2>2. Head(toMain).player = a /\ main.target[a] = n /\ n # NoPrompt
      BY <1>4, <2>1 DEF CancelDone, RolledBack
    <2>3. /\ main' = [main EXCEPT !.strikes[a] = 0, !.last[a] = n, !.awaiting = @ \cup {a},
                                  !.target[a] = NoPrompt]
          /\ shown' = [shown EXCEPT ![a] = n] /\ UNCHANGED clock
      BY <1>14, <2>2 DEF ApplyCancelRollback
    <2>4. a \in Players
      BY <1>4
    <2> HIDE DEF a, n
    <2>5. main'.awaiting = main.awaiting \cup {a} /\ main'.last[a] = n
      BY <1>3, <2>3, <2>4 DEF Sessions
    <2>6. Silent(Other(Awaited))'
      BY <1>1, <1>2, <1>3, <1>4, <2>1, <2>3 DEF RolledBack, Turn, Silent, a
    <2>7. Thinks'
      BY <1>1, <1>2, <1>3, <1>4, <2>1, <2>3 DEF RolledBack, Thinks, a, n
    <2>8. InTurn'
      BY <1>1, <1>2, <2>1, <2>3, <2>5, <2>6, <2>7 DEF InTurn, Turn, RolledBack, a, n
    <2>9. SnapIsTarget'
      BY <1>1, <2>1 DEF SnapIsTarget, RolledBack
    <2> QED BY <2>8, <2>9 DEF Phases
  <1> QED BY <1>11, <1>12, <1>13, <1>14 DEF MainStep

\* The duel begins with its first prompt under way.
LEMMA AgreeInit == PromptInit => AgreeInv
  <1> SUFFICES ASSUME PromptInit PROVE AgreeInv
    OBVIOUS
  <1>1. Waiting /\ toWorker = <<>> /\ snap = NoSnap
    BY DEF PromptInit, Waiting, Silent
  <1>2. OnlySignal(toMain, Prompt(engine.at))
    <2>1. /\ toMain = <<Prompt(1), Board(1, 0)>> /\ engine.at = 1 /\ Len(toMain) = 2
          /\ toMain[1] = Prompt(1) /\ toMain[2] = Board(1, 0)
      BY DEF PromptInit
    <2>2. Prompt(1).type # "board" /\ Board(1, 0).type = "board"
      BY DEF Prompt, Board
    <2> QED BY <2>1, <2>2 DEF OnlySignal
  <1> QED BY <1>1, <1>2 DEF AgreeInv, SnapIsMenu, SnapIsTarget, Phases, Prompting

\* No step takes back that an answer has crossed a cancellation.
LEMMA NotCrossed == ASSUME [PromptNext]_promptVars, ~crossed', crossed \in BOOLEAN PROVE ~crossed
  <1>1. \/ crossed' = crossed
        \/ \E p \in Players : crossed' = (crossed \/ CancelUnderWay(p))
    <2>1. CASE ClientStep
      BY <2>1 DEF ClientStep, ClientAnswers, ClientCancels
    <2>2. CASE RouterStep
      BY <2>2 DEF RouterStep, IgnoreAnswer, InvalidAnswer, AcceptAnswer, ReceiveCancel
    <2>3. CASE WorkerStep
      BY <2>3 DEF WorkerStep, WorkerRejects, WorkerAccepts, IgnoreCancel, Rollback,
                  SnapshotExpires, client
    <2>4. CASE MainStep
      BY <2>4 DEF MainStep, ForwardPrompt, ForwardBoard, ForwardRetry, ApplyCancelRollback, client
    <2>5. CASE UNCHANGED promptVars \/ ClockStarts \/ \E p \in Players : TimeOut(p)
      BY <2>5 DEF promptVars, ClockStarts, TimeOut, client
    <2> QED BY <2>1, <2>2, <2>3, <2>4, <2>5 DEF PromptNext
  <1> QED BY <1>1

\* Every step keeps the phases.
LEMMA AgreeStep == TypeInv /\ AgreeInv /\ [PromptNext]_promptVars => AgreeInv'
  <1> SUFFICES ASSUME TypeInv, AgreeInv, [PromptNext]_promptVars, ~crossed' PROVE AgreeInv'
    BY DEF AgreeInv
  <1>1. ~crossed
    BY NotCrossed DEF TypeInv, LinkOK
  <1>2. SnapIsMenu /\ (~main.ended => SnapIsTarget /\ Phases)
    BY <1>1 DEF AgreeInv
  <1>3. ASSUME UNCHANGED <<info, snap>> PROVE SnapIsMenu'
    BY <1>2, <1>3 DEF SnapIsMenu
  <1>4. CASE UNCHANGED promptVars
    BY <1>2, <1>4
       DEF promptVars, AgreeInv, SnapIsMenu, SnapIsTarget, AtMenu, Awaited, Silent, Turn, Waiting,
           Thinks, HasAnswered, InTurn, RolledBack, Answered, Prompting, Refused, Phases
  <1>5. CASE ClientStep
    <2>1. UNCHANGED <<info, snap, main>> /\ ~main.ended
      BY <1>5 DEF ClientStep, ClientAnswers, ClientCancels, worker
    <2> QED BY <1>2, <1>3, <1>5, <2>1, AgreeClient DEF AgreeInv
  <1>6. CASE RouterStep
    <2>1. UNCHANGED <<info, snap>> /\ ~main.ended
      BY <1>6 DEF RouterStep, IgnoreAnswer, InvalidAnswer, AcceptAnswer, ReceiveCancel, Answers, worker
    <2> QED BY <1>2, <1>3, <1>6, <2>1, AgreeRouter DEF AgreeInv
  <1>7. CASE WorkerStep
    <2>1. ~main.ended
      BY <1>7 DEF WorkerStep, WorkerRejects, WorkerAccepts, IgnoreCancel, Rollback, SnapshotExpires
    <2> QED BY <1>2, <1>7, <2>1, AgreeWorker DEF AgreeInv
  <1>8. CASE MainStep
    <2>1. UNCHANGED <<info, snap>> /\ ~main.ended
      BY <1>8 DEF MainStep, ForwardPrompt, ForwardBoard, ForwardRetry, ApplyCancelRollback,
                  Arrives, worker
    <2> QED BY <1>2, <1>3, <1>8, <2>1, AgreeMain DEF AgreeInv
  <1>9. CASE ClockStarts
    <2>1. /\ clock' = [clock EXCEPT !.state = "running"]
          /\ UNCHANGED <<info, engine, snap, toWorker, toMain, link, shown, main>>
      BY <1>9 DEF ClockStarts, worker, client
    <2>2. clock'.idle = clock.idle /\ (clock'.state # "stopped")
      BY <2>1 DEF TypeInv, MainOK, Clocks
    <2>3. (Turn => Turn') /\ (Waiting => Waiting') /\ Awaited' = Awaited /\ AtMenu' = AtMenu
      BY <2>1, <2>2 DEF Turn, Waiting, Silent, Awaited, AtMenu
    <2> QED BY <1>2, <1>3, <2>1, <2>3
            DEF AgreeInv, SnapIsTarget, Phases, InTurn, Thinks, HasAnswered, RolledBack, Answered,
                Prompting, Refused
  <1>10. ASSUME NEW p \in Players, TimeOut(p) PROVE AgreeInv'
    <2>1. UNCHANGED <<info, snap>>
      BY <1>10 DEF TimeOut, worker
    <2>2. main'.ended
      BY <1>10 DEF TimeOut, EndDuel, TypeInv, MainOK, Sessions
    <2> QED BY <1>3, <2>1, <2>2 DEF AgreeInv
  <1> QED BY <1>4, <1>5, <1>6, <1>7, <1>8, <1>9, <1>10 DEF PromptNext

\* The phases, in every behaviour.
LEMMA AgreeInvariance == PromptSpec => []AgreeInv
  BY AgreeInit, AgreeStep, TypeInvariance, PTL DEF PromptSpec

\* In a quiet state every phase but the player's turn has something under way.
LEMMA QuietIsTurn ==
    ASSUME TypeInv, AgreeInv, Quiet, ~crossed
    PROVE  InTurn /\ SnapIsTarget
  <1>1. Phases /\ SnapIsTarget /\ toWorker = <<>> /\ toMain = <<>>
    BY DEF AgreeInv, Quiet
  <1>2. toMain \in Seq(MainMsgs(Known))
    BY DEF TypeInv, QueuesOK
  <1> QED BY <1>1, <1>2, SignalHeld, ShortQueues
          DEF Phases, RolledBack, Answered, Prompting, Refused

-----------------------------------------------------------------------------
(* The clock.  Which messages may be under way in each phase is now said   *)
(* in full: at most one board that is late, then the signal, then the      *)
(* board of the turn; and whose clock it is, at each of these points.      *)

\* The board that shows the engine's turn.
EngineBoard == Board(engine.turn, engine.turnPlayer)

\* The main thread has seen the turn; the engine is at the prompt that opened it.
SeenTurn == clock.turn >= engine.turn
AtFirst == engine.at = engine.first

\* A menu is the turn player's.
MenuOwner == AtMenu => Awaited = engine.turnPlayer

\* The snapshot is of this turn or an earlier one, of a menu of its turn player.
SnapTurn ==
    snap # NoSnap =>
        /\ snap.memory.turn <= engine.turn
        /\ snap.memory.turn = engine.turn => snap.memory.turnPlayer = engine.turnPlayer
        /\ snap.memory.turnPlayer = snap.player

Settled == toMain = <<>> /\ SeenTurn /\ HasTheClock
BoardDue == toMain = <<EngineBoard>> /\ clock.active = Awaited /\ (AtFirst \/ SeenTurn)

\* The signal m, which arms the clock for the player the engine waits for, is under way.
Signalled(m, first) ==
    \/ toMain = <<m, EngineBoard>> /\ (first \/ SeenTurn)
    \/ \E t \in 1..MaxTurn, p \in Players :
           toMain = <<Board(t, p), m, EngineBoard>> /\ (first \/ SeenTurn \/ t >= engine.turn)

\* A rollback comes back to a menu, whose board comes first.
ComesBack ==
    \/ toMain = <<CancelDone(Awaited)>> /\ SeenTurn
    \/ toMain = <<EngineBoard, CancelDone(Awaited)>>
    \/ \E t \in 1..MaxTurn, p \in Players :
           /\ toMain = <<Board(t, p), EngineBoard, CancelDone(Awaited)>>
           /\ t >= engine.turn /\ (t = engine.turn => p = engine.turnPlayer)
Returning == AtMenu /\ (clock.active = Awaited \/ clock.turn > engine.turn) /\ ComesBack

ClockForm ==
    \/ Settled \/ BoardDue \/ Returning
    \/ Signalled(Prompt(engine.at), AtFirst) \/ Signalled(Retry(Awaited, FALSE), FALSE)

ClockInv == ~crossed /\ ~main.ended => MenuOwner /\ SnapTurn /\ ClockForm

\* Two messages added to one.
LEMMA OneAndTwo == \A a, b, c : <<c>> \o <<a, b>> = <<c, a, b>>
  <1> TAKE a, b, c
  <1> DEFINE M == {a, b, c}
             s == <<c>> \o <<a, b>>
             t == <<c, a, b>>
  <1>1. <<c>> \in Seq(M) /\ <<a, b>> \in Seq(M) /\ t \in Seq(M) /\ Len(t) = 3
    OBVIOUS
  <1>2. s \in Seq(M) /\ Len(s) = 3 /\ s[1] = c /\ s[2] = a /\ s[3] = b
    BY <1>1
  <1>3. t[1] = c /\ t[2] = a /\ t[3] = b
    OBVIOUS
  <1>4. \A i \in 1..Len(s) : i = 1 \/ i = 2 \/ i = 3
    BY <1>2
  <1> HIDE DEF s, t
  <1>5. \A i \in 1..Len(s) : s[i] = t[i]
    BY <1>2, <1>3, <1>4
  <1>6. s = t
    BY <1>1, <1>2, <1>5, SeqEqual
  <1> QED BY <1>6 DEF s, t

\* Queues of up to three messages.
LEMMA TupleQueues ==
    /\ \A a, b : <<>> \o <<a, b>> = <<a, b>>
    /\ \A a, b, c : /\ Tail(<<a>>) = <<>> /\ Tail(<<a, b>>) = <<b>> /\ Tail(<<a, b, c>>) = <<b, c>>
                    /\ Head(<<a>>) = a /\ Head(<<a, b>>) = a /\ Head(<<a, b, c>>) = a
                    /\ <<a>> # <<>> /\ <<a, b>> # <<>> /\ <<a, b, c>> # <<>>
  OBVIOUS

\* Whose the clock is, and of which turn, after each operator.
LEMMA ClockMoves ==
    ASSUME NEW k \in Clocks, NEW p \in Players, NEW t \in 1..MaxTurn
    PROVE  /\ Armed(k, p).active = p /\ Armed(k, p).turn = k.turn
           /\ Paused(k).active = k.active /\ Paused(k).turn = k.turn
           /\ t <= k.turn => TurnChanged(k, p, t) = k
           /\ t > k.turn => TurnChanged(k, p, t).active = p /\ TurnChanged(k, p, t).turn = t
  <1>1. k.turn \in Int /\ t \in Int
    BY TurnAssumption DEF Clocks
  <1>2. t > k.turn => TurnChanged(k, p, t) = [k EXCEPT !.turn = t, !.active = p]
    BY <1>1 DEF TurnChanged
  <1>3. t <= k.turn => TurnChanged(k, p, t) = k
    BY DEF TurnChanged
  <1>4. t > k.turn => TurnChanged(k, p, t).active = p /\ TurnChanged(k, p, t).turn = t
    BY <1>2 DEF Clocks
  <1>5. Armed(k, p).active = p /\ Armed(k, p).turn = k.turn
    BY DEF Armed, Parked, Clocks
  <1>6. Paused(k).active = k.active /\ Paused(k).turn = k.turn
    BY DEF Paused, Clocks
  <1> QED BY <1>3, <1>4, <1>5, <1>6

\* If only boards are under way, the clock is settled or the board of the turn is due.
LEMMA OnlyBoards == ASSUME ClockForm, AllBoards(toMain) PROVE Settled \/ BoardDue
  <1>1. \A a, b, c : /\ AllBoards(<<a>>) => a.type = "board"
                     /\ AllBoards(<<a, b>>) => a.type = "board" /\ b.type = "board"
                     /\ AllBoards(<<a, b, c>>) => b.type = "board" /\ c.type = "board"
    <2> TAKE a, b, c
    <2>1. AllBoards(<<a>>) => a.type = "board"
      BY DEF AllBoards
    <2>2. AllBoards(<<a, b>>) => a.type = "board" /\ b.type = "board"
      BY DEF AllBoards
    <2>3. AllBoards(<<a, b, c>>) => b.type = "board" /\ c.type = "board"
      BY DEF AllBoards
    <2> QED BY <2>1, <2>2, <2>3
  <1>2. /\ CancelDone(Awaited).type # "board" /\ Prompt(engine.at).type # "board"
        /\ Retry(Awaited, FALSE).type # "board"
    BY DEF CancelDone, Prompt, Retry
  <1>3. ~Returning
    BY <1>1, <1>2 DEF Returning, ComesBack
  <1>4. ~Signalled(Prompt(engine.at), AtFirst) /\ ~Signalled(Retry(Awaited, FALSE), FALSE)
    BY <1>1, <1>2 DEF Signalled
  <1> QED BY <1>3, <1>4 DEF ClockForm

\* Steps that touch neither the engine nor its messages, nor whose clock it is.
LEMMA ClockKept ==
    ASSUME MenuOwner, SnapTurn, ClockForm, UNCHANGED <<info, engine, toMain>>, snap' \in {snap, NoSnap},
           clock'.active = clock.active, clock'.turn = clock.turn
    PROVE  MenuOwner' /\ SnapTurn' /\ ClockForm'
  <1>1. Awaited' = Awaited /\ AtMenu' = AtMenu
    BY DEF Awaited, AtMenu
  <1>2. EngineBoard' = EngineBoard /\ SeenTurn' = SeenTurn /\ AtFirst' = AtFirst /\ HasTheClock' = HasTheClock
    BY <1>1 DEF EngineBoard, SeenTurn, AtFirst, HasTheClock
  <1>3. (Settled => Settled') /\ (BoardDue => BoardDue') /\ (Returning => Returning')
    BY <1>1, <1>2 DEF Settled, BoardDue, Returning, ComesBack
  <1>4. /\ Signalled(Prompt(engine.at), AtFirst) => Signalled(Prompt(engine.at), AtFirst)'
        /\ Signalled(Retry(Awaited, FALSE), FALSE) => Signalled(Retry(Awaited, FALSE), FALSE)'
    BY <1>1, <1>2 DEF Signalled
  <1> QED BY <1>1, <1>3, <1>4 DEF MenuOwner, SnapTurn, ClockForm

\* The engine goes on, refuses or goes back while only boards are under way.
LEMMA ClockWorker ==
    ASSUME TypeInv, SnapIsMenu, Phases, MenuOwner, SnapTurn, ClockForm, WorkerStep
    PROVE  MenuOwner' /\ SnapTurn' /\ ClockForm'
  <1>1. UNCHANGED <<main, clock>>
    BY DEF WorkerStep, WorkerRejects, WorkerAccepts, IgnoreCancel, Rollback, SnapshotExpires, client
  <1>2. /\ EngineOK /\ clock \in Clocks /\ Awaited \in Players
        /\ engine.turn \in 1..MaxTurn /\ engine.turnPlayer \in Players
        /\ engine.turn \in Int /\ clock.turn \in Int
    BY TheAwaited, TurnAssumption DEF TypeInv, MainOK, EngineOK, Memory, Clocks
  <1>3. ASSUME toWorker # <<>>, Head(toWorker).type = "response"
        PROVE  /\ Head(toWorker).player = Awaited /\ Head(toWorker).prompt = engine.at
               /\ Settled \/ BoardDue
    <2>1. Answered /\ Head(toWorker) = AnswerOf(Awaited, engine.at)
      BY <1>3, AnswerTaken
    <2> QED BY <2>1, OnlyBoards DEF AnswerOf, Answered
  <1>4. ASSUME AtMenu
        PROVE  /\ Snapshot(Awaited) # NoSnap /\ Snapshot(Awaited).memory = engine
               /\ Snapshot(Awaited).player = engine.turnPlayer
    BY <1>2, <1>4, SnapshotType DEF MenuOwner
  <1>5. CASE WorkerRejects
    <2> DEFINE m == Retry(Awaited, FALSE)
    <2>1. /\ Head(toWorker).player = Awaited /\ Head(toWorker).prompt = engine.at
          /\ Settled \/ BoardDue
      BY <1>3, <1>5 DEF WorkerRejects
    <2>2. /\ toMain' = toMain \o <<m, EngineBoard>> /\ UNCHANGED info
          /\ snap' = IF AtMenu THEN Snapshot(Awaited) ELSE snap
      BY <1>5, <2>1 DEF WorkerRejects, AtMenu, EngineBoard
    <2>3. /\ engine'.at = engine.at /\ engine'.turn = engine.turn
          /\ engine'.turnPlayer = engine.turnPlayer
      BY <1>2, <1>5 DEF WorkerRejects, EngineOK, Memory
    <2>4. /\ Awaited' = Awaited /\ AtMenu' = AtMenu /\ EngineBoard' = EngineBoard
          /\ SeenTurn' = SeenTurn
      BY <1>1, <2>2, <2>3 DEF Awaited, AtMenu, EngineBoard, SeenTurn
    <2>5. MenuOwner' /\ SnapTurn'
      BY <1>2, <1>4, <2>2, <2>3, <2>4 DEF MenuOwner, SnapTurn
    <2>6. CASE Settled
      <3>1. toMain' = <<m, EngineBoard>> /\ SeenTurn
        BY <2>2, <2>6, TupleQueues DEF Settled
      <3> QED BY <2>4, <2>5, <3>1 DEF ClockForm, Signalled
    <2>7. CASE BoardDue
      <3>1. toMain' = <<Board(engine.turn, engine.turnPlayer), m, EngineBoard>>
        BY <2>2, <2>7, OneAndTwo DEF BoardDue, EngineBoard
      <3>2. engine.turn >= engine'.turn
        BY <1>2, <2>3
      <3> QED BY <1>2, <2>4, <2>5, <3>1, <3>2 DEF ClockForm, Signalled
    <2> QED BY <2>1, <2>6, <2>7
  <1>6. ASSUME NEW p \in Players, NEW type \in {"menu", "step"}, NEW next \in BOOLEAN,
               NEW chain \in BOOLEAN, WorkerAccepts(p, type, next, chain)
        PROVE  MenuOwner' /\ SnapTurn' /\ ClockForm'
    <2> DEFINE n == Len(info) + 1
               t == engine.turn + (IF next THEN 1 ELSE 0)
               tp == IF next THEN Other(engine.turnPlayer) ELSE engine.turnPlayer
    <2>1. /\ Head(toWorker).player = Awaited /\ Head(toWorker).prompt = engine.at
          /\ Settled \/ BoardDue
      BY <1>3, <1>6 DEF WorkerAccepts
    <2>2. /\ toMain' = toMain \o <<Prompt(n), Board(t, tp)>>
          /\ info' = Append(info, [player |-> p, type |-> type])
          /\ snap' = IF type = "menu" THEN NoSnap
                     ELSE IF AtMenu THEN Snapshot(Awaited) ELSE snap
          /\ type = "menu" => p = tp
      BY <1>6, <2>1 DEF WorkerAccepts, AtMenu
    <2>3. /\ engine'.at = n /\ engine'.turn = t /\ engine'.turnPlayer = tp
          /\ engine'.first = IF next THEN n ELSE engine.first
      BY <1>6 DEF WorkerAccepts
    <2>4. info'[n] = [player |-> p, type |-> type]
      BY <1>2, <2>2 DEF EngineOK, Asked
    <2>5. Awaited' = p /\ (AtMenu' <=> type = "menu")
      BY <2>3, <2>4 DEF Awaited, AtMenu
    <2>6. EngineBoard' = Board(t, tp) /\ Prompt(engine'.at) = Prompt(n)
      BY <2>3 DEF EngineBoard
    <2>7. /\ engine.turn <= t /\ t \in Int
          /\ next => engine.turn < t /\ AtFirst'
          /\ ~next => t = engine.turn /\ tp = engine.turnPlayer
      BY <1>2, <2>3 DEF AtFirst
    <2> HIDE DEF n, t, tp
    <2>8. MenuOwner'
      BY <2>2, <2>3, <2>5 DEF MenuOwner
    <2>9. SnapTurn'
      <3>1. CASE snap' = NoSnap
        BY <3>1 DEF SnapTurn
      <3>2. CASE AtMenu /\ snap' = Snapshot(Awaited)
        BY <1>2, <1>4, <2>3, <2>7, <3>2 DEF SnapTurn
      <3>3. CASE snap' = snap /\ snap # NoSnap
        <4>1. snap.memory.turn \in Int
          BY <1>2, <3>3, TurnAssumption DEF EngineOK, Snapshots, Memory
        <4> QED BY <1>2, <2>3, <2>7, <3>3, <4>1 DEF SnapTurn
      <3> QED BY <2>2, <3>1, <3>2, <3>3
    <2>10. CASE Settled
      <3>1. toMain' = <<Prompt(engine'.at), EngineBoard'>>
        BY <2>2, <2>6, <2>10, TupleQueues DEF Settled
      <3>2. AtFirst' \/ SeenTurn'
        BY <1>1, <1>2, <2>3, <2>7, <2>10 DEF SeenTurn, Settled
      <3> QED BY <2>8, <2>9, <3>1, <3>2 DEF ClockForm, Signalled
    <2>11. CASE BoardDue
      <3>1. toMain' = <<Board(engine.turn, engine.turnPlayer), Prompt(engine'.at), EngineBoard'>>
        BY <2>2, <2>6, <2>11, OneAndTwo DEF BoardDue, EngineBoard
      <3>2. AtFirst' \/ engine.turn >= engine'.turn
        BY <1>2, <2>3, <2>7
      <3> QED BY <1>2, <2>8, <2>9, <3>1, <3>2 DEF ClockForm, Signalled
    <2> QED BY <2>1, <2>10, <2>11
  <1>7. CASE Rollback
    <2> DEFINE old == Board(engine.turn, engine.turnPlayer)
    <2>1. /\ toWorker # <<>> /\ Head(toWorker).type = "cancel"
          /\ CanCancel(Head(toWorker).player) /\ UNCHANGED info
          /\ engine' = snap.memory /\ snap' = NoSnap
          /\ toMain' = toMain \o <<Board(snap.memory.turn, snap.memory.turnPlayer),
                                   CancelDone(Head(toWorker).player)>>
      BY <1>7 DEF Rollback, Take
    <2>2. Head(toWorker).player = Awaited /\ ((InTurn /\ Thinks) \/ RolledBack)
      BY <2>1, CancelTaken DEF CancelOf
    <2>3. snap # NoSnap /\ snap.player = Awaited /\ InTurn
      BY <2>1, <2>2 DEF CanCancel, RolledBack
    <2>4. Settled \/ BoardDue
      BY <2>3, OnlyBoards DEF InTurn
    <2>5. Awaited' = Awaited /\ AtMenu' /\ engine'.turnPlayer = Awaited
      BY <2>1, <2>3 DEF Awaited, AtMenu, SnapIsMenu, SnapTurn
    <2>6. /\ engine'.turn <= engine.turn /\ engine'.turn \in Int
          /\ engine'.turn = engine.turn => engine.turnPlayer = Awaited
      BY <1>2, <2>1, <2>3, <2>5, TurnAssumption DEF SnapTurn, EngineOK, Snapshots, Memory
    <2>7. toMain' = toMain \o <<EngineBoard', CancelDone(Awaited)>>
      BY <2>1, <2>2 DEF EngineBoard
    <2>8. CASE Settled
      <3>1. toMain' = <<EngineBoard', CancelDone(Awaited)>>
        BY <2>7, <2>8, TupleQueues DEF Settled
      <3>2. clock.active = Awaited \/ clock.turn > engine'.turn
        BY <1>2, <2>6, <2>8 DEF Settled, SeenTurn, HasTheClock
      <3> QED BY <1>1, <2>1, <2>5, <3>1, <3>2
              DEF ClockForm, Returning, ComesBack, MenuOwner, SnapTurn
    <2>9. CASE BoardDue
      <3>1. toMain' = <<old, EngineBoard', CancelDone(Awaited)>>
        BY <2>7, <2>9, OneAndTwo DEF BoardDue, EngineBoard
      <3>2. clock.active = Awaited /\ engine.turn >= engine'.turn
        BY <1>2, <2>6, <2>9 DEF BoardDue
      <3>3. engine.turn = engine'.turn => engine.turnPlayer = engine'.turnPlayer
        BY <2>5, <2>6
      <3>4. ComesBack'
        BY <1>2, <2>5, <3>1, <3>2, <3>3 DEF ComesBack
      <3> QED BY <1>1, <2>1, <2>5, <3>2, <3>4 DEF ClockForm, Returning, MenuOwner, SnapTurn
    <2> QED BY <2>4, <2>8, <2>9
  <1>8. CASE IgnoreCancel \/ SnapshotExpires
    BY <1>1, <1>8, ClockKept DEF IgnoreCancel, SnapshotExpires, worker
  <1> QED BY <1>5, <1>6, <1>7, <1>8 DEF WorkerStep

\* The main thread takes a signal, and arms the clock, or a board, which may move it.
LEMMA ClockMain ==
    ASSUME TypeInv, MenuOwner, SnapTurn, ClockForm, MainStep, ~main'.ended
    PROVE  MenuOwner' /\ SnapTurn' /\ ClockForm'
  <1>1. UNCHANGED <<info, engine, snap>>
    BY DEF MainStep, ForwardPrompt, ForwardBoard, ForwardRetry, ApplyCancelRollback, worker
  <1>2. /\ Awaited' = Awaited /\ AtMenu' = AtMenu /\ EngineBoard' = EngineBoard
        /\ AtFirst' = AtFirst /\ MenuOwner' /\ SnapTurn'
    BY <1>1 DEF Awaited, AtMenu, EngineBoard, AtFirst, MenuOwner, SnapTurn
  <1>3. /\ clock \in Clocks /\ Awaited \in Players /\ 1 \in 1..MaxTurn
        /\ engine.turn \in 1..MaxTurn /\ engine.turnPlayer \in Players
        /\ engine.turn \in Int /\ clock.turn \in Int
    BY TheAwaited, TurnAssumption DEF TypeInv, MainOK, EngineOK, Memory, Clocks
  <1>4. PICK type : Arrives(type)
    BY DEF MainStep, ForwardPrompt, ForwardBoard, ForwardRetry, ApplyCancelRollback
  <1>5. toMain # <<>> /\ toMain' = Tail(toMain)
    BY <1>4 DEF Arrives
  <1>6. /\ EngineBoard.type = "board" /\ CancelDone(Awaited).type = "cancelDone"
        /\ Prompt(engine.at).type = "prompt" /\ Retry(Awaited, FALSE).type = "retry"
        /\ \A t, p : Board(t, p).type = "board"
    BY DEF EngineBoard, Board, CancelDone, Prompt, Retry
  <1>7. ASSUME NEW m, NEW first \in BOOLEAN, Signalled(m, first), Head(toMain).type # "board"
        PROVE  Head(toMain) = m /\ toMain' = <<EngineBoard>> /\ (first \/ SeenTurn)
    <2>1. ASSUME NEW t, NEW p, toMain = <<Board(t, p), m, EngineBoard>> PROVE FALSE
      <3>1. Head(toMain) = Board(t, p)
        BY <2>1, TupleQueues
      <3> QED BY <1>6, <1>7, <3>1
    <2>2. toMain = <<m, EngineBoard>> /\ (first \/ SeenTurn)
      BY <1>7, <2>1 DEF Signalled
    <2> QED BY <1>5, <2>2, TupleQueues
  <1>8. ASSUME NEW m, NEW first \in BOOLEAN, Signalled(m, first), m.type # "board",
               Head(toMain).type = "board"
        PROVE  \E t \in 1..MaxTurn, p \in Players :
                   /\ Head(toMain) = Board(t, p) /\ toMain' = <<m, EngineBoard>>
                   /\ first \/ SeenTurn \/ t >= engine.turn
    <2>1. toMain # <<m, EngineBoard>>
      BY <1>8, TupleQueues
    <2>2. PICK t \in 1..MaxTurn, p \in Players :
              toMain = <<Board(t, p), m, EngineBoard>> /\ (first \/ SeenTurn \/ t >= engine.turn)
      BY <1>8, <2>1 DEF Signalled
    <2>3. Head(toMain) = Board(t, p) /\ toMain' = <<m, EngineBoard>>
      BY <1>5, <2>2, TupleQueues
    <2> QED BY <2>2, <2>3
  <1>9. ASSUME Returning, Head(toMain).type # "board"
        PROVE  Head(toMain) = CancelDone(Awaited) /\ toMain' = <<>> /\ SeenTurn
    <2>1. ASSUME NEW t, NEW p, toMain = <<Board(t, p), EngineBoard, CancelDone(Awaited)>> PROVE FALSE
      <3>1. Head(toMain) = Board(t, p)
        BY <2>1, TupleQueues
      <3> QED BY <1>6, <1>9, <3>1
    <2>2. toMain # <<EngineBoard, CancelDone(Awaited)>>
      BY <1>6, <1>9, TupleQueues
    <2>3. toMain = <<CancelDone(Awaited)>> /\ SeenTurn
      BY <1>9, <2>1, <2>2 DEF Returning, ComesBack
    <2> QED BY <1>5, <2>3, TupleQueues
  <1>10. BoardDue => Head(toMain) = EngineBoard /\ toMain' = <<>>
    BY <1>5, TupleQueues DEF BoardDue
  <1>11. ~Settled
    BY <1>5 DEF Settled
  <1>12. AtFirst \in BOOLEAN
    BY DEF AtFirst
  <1>13. CASE ForwardPrompt
    <2>1. Head(toMain).type = "prompt"
      BY <1>13 DEF ForwardPrompt, Arrives
    <2>2. Head(toMain) = Prompt(engine.at) /\ toMain' = <<EngineBoard>> /\ (AtFirst \/ SeenTurn)
      BY <1>6, <1>7, <1>9, <1>10, <1>11, <1>12, <2>1 DEF ClockForm
    <2>3. clock' = Armed(clock, Awaited)
      BY <1>13, <2>2 DEF ForwardPrompt, Prompt, Awaited
    <2>4. clock'.active = Awaited /\ clock'.turn = clock.turn
      BY <1>3, <2>3, ClockMoves
    <2> QED BY <1>1, <1>2, <2>2, <2>4 DEF ClockForm, BoardDue, SeenTurn
  <1>14. CASE ForwardRetry
    <2>1. Head(toMain).type = "retry"
      BY <1>14 DEF ForwardRetry, Arrives
    <2>2. Head(toMain) = Retry(Awaited, FALSE) /\ toMain' = <<EngineBoard>> /\ SeenTurn
      BY <1>6, <1>7, <1>9, <1>10, <1>11, <1>12, <2>1 DEF ClockForm
    <2>3. clock' = Armed(clock, Awaited)
      <3>1. Head(toMain).player = Awaited
        BY <2>2 DEF Retry
      <3>2. EndDuel([main EXCEPT !.strikes[Awaited] = @ + 1]).ended
        BY DEF EndDuel, Sessions, TypeInv, MainOK
      <3> QED BY <1>14, <3>1, <3>2 DEF ForwardRetry
    <2>4. clock'.active = Awaited /\ clock'.turn = clock.turn
      BY <1>3, <2>3, ClockMoves
    <2> QED BY <1>1, <1>2, <2>2, <2>4 DEF ClockForm, BoardDue, SeenTurn
  <1>15. CASE ApplyCancelRollback
    <2>1. Head(toMain).type = "cancelDone" /\ UNCHANGED clock
      BY <1>15 DEF ApplyCancelRollback, Arrives
    <2>2. Returning /\ toMain' = <<>> /\ SeenTurn
      BY <1>6, <1>7, <1>9, <1>10, <1>11, <1>12, <2>1 DEF ClockForm
    <2> QED BY <1>1, <1>2, <2>1, <2>2 DEF ClockForm, Settled, SeenTurn, HasTheClock, Returning
  <1>16. CASE ForwardBoard
    <2>1. /\ Head(toMain).type = "board"
          /\ clock' = TurnChanged(clock, Head(toMain).turnPlayer, Head(toMain).turn)
      BY <1>16 DEF ForwardBoard, Arrives
    <2>2. ASSUME NEW t \in 1..MaxTurn, NEW p \in Players, Head(toMain) = Board(t, p)
          PROVE  /\ t \in Int
                 /\ \/ t <= clock.turn /\ clock' = clock
                    \/ t > clock.turn /\ clock'.active = p /\ clock'.turn = t
      BY <1>3, <2>1, <2>2, ClockMoves DEF Board
    <2>3. CASE BoardDue
      <3>1. \/ engine.turn <= clock.turn /\ clock' = clock
            \/ engine.turn > clock.turn /\ clock'.active = engine.turnPlayer /\ clock'.turn = engine.turn
        BY <1>3, <1>10, <2>2, <2>3 DEF EngineBoard
      <3>2. SeenTurn'
        BY <1>1, <1>3, <3>1 DEF SeenTurn
      <3>3. HasTheClock'
        BY <1>1, <1>2, <1>3, <2>3, <3>1 DEF HasTheClock, BoardDue, AtFirst, SeenTurn
      <3> QED BY <1>2, <1>10, <2>3, <3>2, <3>3 DEF ClockForm, Settled
    <2>4. ASSUME NEW m, NEW first \in BOOLEAN, Signalled(m, first), m.type # "board"
          PROVE  toMain' = <<m, EngineBoard>> /\ (first \/ SeenTurn')
      <3>1. PICK t \in 1..MaxTurn, p \in Players :
                /\ Head(toMain) = Board(t, p) /\ toMain' = <<m, EngineBoard>>
                /\ first \/ SeenTurn \/ t >= engine.turn
        BY <1>8, <2>1, <2>4
      <3>2. first \/ SeenTurn'
        BY <1>1, <1>3, <2>2, <3>1 DEF SeenTurn
      <3> QED BY <3>1, <3>2
    <2>5. Signalled(Prompt(engine.at), AtFirst) => Signalled(Prompt(engine.at), AtFirst)'
      BY <1>1, <1>2, <1>6, <1>12, <2>4 DEF Signalled
    <2>6. Signalled(Retry(Awaited, FALSE), FALSE) => Signalled(Retry(Awaited, FALSE), FALSE)'
      BY <1>2, <1>6, <2>4 DEF Signalled
    <2>7. CASE Returning
      <3>1. CASE toMain = <<EngineBoard, CancelDone(Awaited)>>
        <4>1. Head(toMain) = Board(engine.turn, engine.turnPlayer) /\ toMain' = <<CancelDone(Awaited)>>
          BY <1>5, <3>1, TupleQueues DEF EngineBoard
        <4>2. \/ engine.turn <= clock.turn /\ clock' = clock
              \/ /\ engine.turn > clock.turn /\ clock'.active = engine.turnPlayer
                 /\ clock'.turn = engine.turn
          BY <1>3, <2>2, <4>1
        <4>3. SeenTurn'
          BY <1>1, <1>3, <4>2 DEF SeenTurn
        <4>4. clock'.active = Awaited \/ clock'.turn > engine.turn
          BY <2>7, <4>2 DEF Returning, MenuOwner
        <4> QED BY <1>1, <1>2, <2>7, <4>1, <4>3, <4>4 DEF ClockForm, Returning, ComesBack
      <3>2. ASSUME NEW t \in 1..MaxTurn, NEW p \in Players,
                   toMain = <<Board(t, p), EngineBoard, CancelDone(Awaited)>>,
                   t >= engine.turn, t = engine.turn => p = engine.turnPlayer
            PROVE  ClockForm'
        <4>1. Head(toMain) = Board(t, p) /\ toMain' = <<EngineBoard, CancelDone(Awaited)>>
          BY <1>5, <3>2, TupleQueues
        <4>2. \/ t <= clock.turn /\ clock' = clock
              \/ t > clock.turn /\ clock'.active = p /\ clock'.turn = t
          BY <2>2, <4>1
        <4>3. clock'.active = Awaited \/ clock'.turn > engine.turn
          BY <1>3, <2>7, <3>2, <4>2 DEF Returning, MenuOwner
        <4> QED BY <1>1, <1>2, <2>7, <4>1, <4>3 DEF ClockForm, Returning, ComesBack
      <3>3. toMain # <<CancelDone(Awaited)>>
        BY <1>6, <2>1, TupleQueues
      <3> QED BY <1>2, <2>7, <3>1, <3>2, <3>3 DEF Returning, ComesBack
    <2> QED BY <1>2, <1>11, <2>3, <2>5, <2>6, <2>7 DEF ClockForm
  <1> QED BY <1>13, <1>14, <1>15, <1>16 DEF MainStep

\* The duel begins with a menu of the player whose turn it is.
LEMMA ClockInit == PromptInit => ClockInv
  <1> SUFFICES ASSUME PromptInit PROVE ClockInv
    OBVIOUS
  <1>1. /\ engine.at = 1 /\ engine.turn = 1 /\ engine.turnPlayer = 0 /\ engine.first = 1
        /\ info[1] = [player |-> 0, type |-> "menu"] /\ snap = NoSnap
        /\ toMain = <<Prompt(1), Board(1, 0)>>
    BY DEF PromptInit
  <1>2. Awaited = 0 /\ AtFirst /\ EngineBoard = Board(1, 0)
    BY <1>1 DEF Awaited, AtFirst, EngineBoard
  <1>3. Signalled(Prompt(engine.at), AtFirst)
    BY <1>1, <1>2 DEF Signalled
  <1> QED BY <1>1, <1>2, <1>3 DEF ClockInv, MenuOwner, SnapTurn, ClockForm

\* Every step keeps the clock where it should be.
LEMMA ClockStep == TypeInv /\ AgreeInv /\ ClockInv /\ [PromptNext]_promptVars => ClockInv'
  <1> SUFFICES ASSUME TypeInv, AgreeInv, ClockInv, [PromptNext]_promptVars, ~crossed', ~main'.ended
               PROVE  MenuOwner' /\ SnapTurn' /\ ClockForm'
    BY DEF ClockInv
  <1>1. ~crossed
    BY NotCrossed DEF TypeInv, LinkOK
  <1>2. ASSUME ~main.ended
        PROVE  SnapIsMenu /\ Phases /\ MenuOwner /\ SnapTurn /\ ClockForm
    BY <1>1, <1>2 DEF AgreeInv, ClockInv
  <1>3. clock \in Clocks /\ 0 \in Players /\ 1 \in 1..MaxTurn
    BY TurnAssumption DEF TypeInv, MainOK, Players
  <1>4. CASE UNCHANGED promptVars
    BY <1>2, <1>4, ClockKept DEF promptVars
  <1>5. CASE ClientStep
    <2>1. ~main.ended /\ UNCHANGED <<info, engine, toMain, snap, clock>>
      BY <1>5 DEF ClientStep, ClientAnswers, ClientCancels, worker
    <2> QED BY <1>2, <2>1, ClockKept
  <1>6. CASE RouterStep
    <2>1. ~main.ended /\ UNCHANGED <<info, engine, toMain, snap>>
      BY <1>6 DEF RouterStep, IgnoreAnswer, InvalidAnswer, AcceptAnswer, ReceiveCancel, Answers, worker
    <2>2. PICK p \in Players : \/ IgnoreAnswer(p) \/ InvalidAnswer(p) \/ AcceptAnswer(p)
                               \/ \E limited \in BOOLEAN : ReceiveCancel(p, limited)
      BY <1>6 DEF RouterStep
    <2>3. CASE AcceptAnswer(p)
      <3>1. clock' = [Paused(clock) EXCEPT !.idle = @ \ {p}]
        BY <2>3 DEF AcceptAnswer
      <3>2. Paused(clock) \in Clocks
        BY <1>3 DEF Paused, Clocks
      <3>3. Paused(clock).active = clock.active /\ Paused(clock).turn = clock.turn
        BY <1>3, ClockMoves
      <3>4. clock'.active = clock.active /\ clock'.turn = clock.turn
        BY <3>1, <3>2, <3>3 DEF Clocks
      <3> QED BY <1>2, <2>1, <3>4, ClockKept
    <2>4. CASE InvalidAnswer(p)
      <3>1. EndDuel([main EXCEPT !.strikes[p] = @ + 1]).ended
        BY DEF EndDuel, Sessions, TypeInv, MainOK
      <3>2. UNCHANGED clock
        BY <2>4, <3>1 DEF InvalidAnswer
      <3> QED BY <1>2, <2>1, <3>2, ClockKept
    <2>5. CASE IgnoreAnswer(p) \/ \E limited \in BOOLEAN : ReceiveCancel(p, limited)
      <3>1. UNCHANGED clock
        BY <2>5 DEF IgnoreAnswer, ReceiveCancel
      <3> QED BY <1>2, <2>1, <3>1, ClockKept
    <2> QED BY <2>2, <2>3, <2>4, <2>5
  <1>7. CASE WorkerStep
    <2>1. ~main.ended
      BY <1>7 DEF WorkerStep, WorkerRejects, WorkerAccepts, IgnoreCancel, Rollback, SnapshotExpires
    <2> QED BY <1>2, <1>7, <2>1, ClockWorker
  <1>8. CASE MainStep
    <2>1. ~main.ended
      BY <1>8 DEF MainStep, ForwardPrompt, ForwardBoard, ForwardRetry, ApplyCancelRollback, Arrives
    <2> QED BY <1>2, <1>8, <2>1, ClockMain
  <1>9. CASE ClockStarts
    <2>1. clock' = [clock EXCEPT !.state = "running"] /\ UNCHANGED <<info, engine, toMain, snap, main>>
      BY <1>9 DEF ClockStarts, worker, client
    <2>2. clock'.active = clock.active /\ clock'.turn = clock.turn
      BY <1>3, <2>1 DEF Clocks
    <2> QED BY <1>2, <2>1, <2>2, ClockKept
  <1>10. ASSUME NEW p \in Players, TimeOut(p) PROVE FALSE
    BY <1>10 DEF TimeOut, EndDuel, TypeInv, MainOK, Sessions
  <1> QED BY <1>4, <1>5, <1>6, <1>7, <1>8, <1>9, <1>10 DEF PromptNext

\* The clock, in every behaviour.
LEMMA ClockInvariance == PromptSpec => []ClockInv
  BY ClockInit, ClockStep, TypeInvariance, AgreeInvariance, PTL DEF PromptSpec

-----------------------------------------------------------------------------
(* What the runs check.                                                    *)

\* Unless an answer crosses a cancellation, the two threads agree on who is asked what whenever
\* nothing is under way between them, after any refusals and rollbacks.
THEOREM ThreadsAgree == PromptSpec => []PromptsAgree
  <1>1. TypeInv /\ AgreeInv => PromptsAgree
    BY QuietIsTurn DEF PromptsAgree, InTurn, Turn
  <1> QED BY <1>1, TypeInvariance, AgreeInvariance, PTL

\* The player who is asked then has a deadline, and the clock is his, except at the first prompt
\* of a turn and at a menu rolled back to from a later turn.
THEOREM TheAskedIsTimed == PromptSpec => []AwaitedIsTimed
  <1>1. ASSUME TypeInv, AgreeInv, ClockInv, Quiet, ~crossed
        PROVE  Awaited \in clock.idle /\ clock.state # "stopped" /\ HasTheClock
    <2>1. Awaited \in clock.idle /\ clock.state # "stopped"
      BY <1>1, QuietIsTurn DEF InTurn, Turn
    <2>2. ClockForm /\ toMain = <<>>
      BY <1>1 DEF ClockInv, Quiet
    <2>3. AllBoards(toMain)
      BY <2>2 DEF AllBoards
    <2>4. ~BoardDue
      BY <2>2, TupleQueues DEF BoardDue
    <2> QED BY <2>1, <2>2, <2>3, <2>4, OnlyBoards DEF Settled
  <1>2. TypeInv /\ AgreeInv /\ ClockInv => AwaitedIsTimed
    BY <1>1 DEF AwaitedIsTimed
  <1> QED BY <1>2, TypeInvariance, AgreeInvariance, ClockInvariance, PTL

\* A rollback goes to a menu of the player who asks for it, the one the main thread will show.
THEOREM RollbacksAgree == PromptSpec => []RollbackTarget
  <1>1. TypeInv /\ AgreeInv => RollbackTarget
    BY QuietIsTurn DEF RollbackTarget, AgreeInv, SnapIsMenu, SnapIsTarget
  <1> QED BY <1>1, TypeInvariance, AgreeInvariance, PTL

=============================================================================

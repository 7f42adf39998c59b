------------------------- MODULE DuelSession_proofs -------------------------
(***************************************************************************)
(* Proofs about DuelSession, for every mode and every number of rematches: *)
(* its safety properties, from the inductive invariant Inv, and that it    *)
(* implements SessionLifecycle.                                            *)
(*                                                                         *)
(* The first lemmas say what the operators shared by the handlers do; then *)
(* each part of Inv has a lemma with one step per action of Next.          *)
(***************************************************************************)
EXTENDS DuelSession, TLAPS


\* The first duel, until it ends, has a worker at work that has not been asked for its replay,
\* and no replay POST in flight whose finally could terminate it.
FirstDuelLives ==
    /\ ForkMode => duel = 1
    /\ duel = 1 /\ registered /\ ~ended =>
          /\ persisting = {} /\ ~asked
          /\ phase = "DUELING" => worker \in {"booting", "forked", "thinking", "waiting"}

IdleTimers == Slots \X (Slots \cup {Nobody})

LEMMA ProceedWorker ==
    ASSUME NEW c, NEW r, NEW t, NEW g, NEW i, Proceed(c, r, t, g, i)
    PROVE  \/ UNCHANGED <<phase, worker, threads>>
           \/ phase = "WAITING_PLAYERS" /\ phase' = "ROLLING_DICE" /\ UNCHANGED <<worker, threads>>
           \/ /\ phase = "WAITING_PLAYERS" /\ phase' = "DUELING"
              /\ worker' = "booting" /\ threads' = threads + 1
           \/ worker = "forked" /\ worker' = "thinking" /\ UNCHANGED <<phase, threads>>
  BY DEF Proceed, StartDuelWithOrder, StartFirstPlayerPhase, handle

LEMMA ProceedSockets ==
    ASSUME NEW c, NEW r, NEW t, NEW g, NEW i, Proceed(c, r, t, g, i)
    PROVE  connected' = c /\ grace' = g /\ idle' = i
  <1>1. CASE StartDuelWithOrder(0, c, t, g, i)
    <2>1. 0 # 1
      OBVIOUS
    <2> QED BY <1>1, <2>1 DEF StartDuelWithOrder
  <1>2. CASE ~StartDuelWithOrder(0, c, t, g, i)
    BY <1>2 DEF Proceed
  <1> QED BY <1>1, <1>2

LEMMA ProceedTimers ==
    ASSUME NEW c, NEW r, NEW t, NEW g, NEW i, Proceed(c, r, t, g, i)
    PROVE  \/ /\ timers' = t /\ UNCHANGED <<phase, started, rolled, pick>>
              /\ ~(ForkMode /\ ReadyToStart(c, r))
           \/ /\ ReadyToStart(c, r) /\ phase = "WAITING_PLAYERS"
              /\ \/ phase' = "DUELING" /\ SoloMode /\ timers' = t \ {"dice"}
                 \/ phase' = "ROLLING_DICE" /\ ~SoloMode /\ timers' = t \cup {"dice"}
           \/ /\ ReadyToStart(c, r) /\ ForkMode /\ timers' = t \ {"forkConnection"}
              /\ UNCHANGED <<phase, started>>
  BY DEF Proceed, StartDuelWithOrder, StartFirstPlayerPhase

LEMMA ZeroPlus ==
    ASSUME NEW x \in Nat, NEW s \in Nat, NEW d \in Nat, x = 0, s <= d
    PROVE  x + s <= d + 1
  OBVIOUS

LEMMA HeldByType == \A H, S, p : S \in SUBSET (Slots \X H) => HeldBy(S, p) \in SUBSET (Slots \X H)
  BY DEF HeldBy

LEMMA WithoutType == \A H, S, p : S \in SUBSET (Slots \X H) => Without(S, p) \in SUBSET (Slots \X H)
  BY DEF Without, HeldBy

LEMMA RestartedType ==
    ASSUME NEW H, Slots \subseteq H, NEW S \in SUBSET (Slots \X H), NEW P \in SUBSET Slots
    PROVE  Restarted(S, P) \in SUBSET (Slots \X H)
  <1>1. {t \in S : t[2] \notin P} \in SUBSET (Slots \X H)
    OBVIOUS
  <1>2. {<<p, p>> : p \in P} \in SUBSET (Slots \X H)
    OBVIOUS
  <1> QED BY <1>1, <1>2 DEF Restarted

LEMMA GracedType ==
    ASSUME NEW S \in SUBSET (Slots \X Slots), NEW p \in Slots
    PROVE  Graced(S, p) \in SUBSET (Slots \X Slots)
  BY DEF Graced

LEMMA SwappedGrace ==
    ASSUME NEW S \in SUBSET (Slots \X Slots)
    PROVE  Swapped(S) \in SUBSET (Slots \X Slots)
  BY DEF Swapped, Other, Slots, Nobody

LEMMA SwappedIdle ==
    ASSUME NEW S \in SUBSET IdleTimers
    PROVE  Swapped(S) \in SUBSET IdleTimers
  BY DEF Swapped, Other, Slots, Nobody, IdleTimers

LEMMA IdleType ==
    ASSUME NEW S \in SUBSET IdleTimers
    PROVE  /\ \A p : HeldBy(S, p) \in SUBSET IdleTimers /\ Without(S, p) \in SUBSET IdleTimers
           /\ \A P \in SUBSET Slots : Restarted(S, P) \in SUBSET IdleTimers
  BY HeldByType, WithoutType, RestartedType DEF IdleTimers

LEMMA DeadlineArmedType ==
    ASSUME NEW t \in SUBSET TimerNames, NEW ph, NEW c, NEW r
    PROVE  DeadlineArmed(t, ph, c, r) \in SUBSET TimerNames
  BY DEF DeadlineArmed, TimerNames

LEMMA StopThreadType ==
    ASSUME TypeOK, WorkerAccounting, StopThread
    PROVE  threads' \in Nat /\ served' \in Nat
  BY DEF TypeOK, WorkerAccounting, StopThread

LEMMA RequestReplayType ==
    ASSUME TypeOK, RequestReplay
    PROVE  asked' \in BOOLEAN /\ override' \in 0..MaxDuels
  <1>1. duel \in 0..MaxDuels
    BY DuelsAssumption DEF TypeOK
  <1> QED BY <1>1 DEF TypeOK, RequestReplay

LEMMA EndDuelType ==
    ASSUME TypeOK, NEW t \in SUBSET TimerNames, NEW i \in SUBSET IdleTimers, EndDuel(t, i)
    PROVE  /\ ended' \in BOOLEAN /\ timers' \in SUBSET TimerNames
           /\ idle' \in SUBSET IdleTimers
           /\ clock' \in {"null", "stopped", "pending", "running"} /\ active' \in Slots
  <1>1. HeldBy(i, Nobody) \in SUBSET IdleTimers
    BY IdleType DEF Slots
  <1> QED BY <1>1 DEF EndDuel, TypeOK, turn, DuelTimers, TimerNames, Slots

LEMMA ResolveDiceRoundType ==
    ASSUME TypeOK, NEW t \in SUBSET TimerNames, ResolveDiceRound(t)
    PROVE  /\ rolled' \in SUBSET Slots /\ timers' \in SUBSET TimerNames
           /\ phase' \in Phases /\ pick' \in Slots \cup {Nobody}
  BY DEF ResolveDiceRound, TypeOK, TimerNames, Phases

LEMMA StartDuelType ==
    ASSUME TypeOK, NEW first, NEW c \in [Slots -> BOOLEAN], NEW t \in SUBSET TimerNames,
           NEW g \in SUBSET (Slots \X Slots), NEW i \in SUBSET IdleTimers,
           StartDuelWithOrder(first, c, t, g, i)
    PROVE  /\ phase' \in Phases /\ started' \in BOOLEAN /\ connected' \in [Slots -> BOOLEAN]
           /\ rolled' \in SUBSET Slots /\ pick' \in Slots \cup {Nobody}
           /\ timers' \in SUBSET TimerNames /\ awaiting' \in [Slots -> BOOLEAN]
           /\ grace' \in SUBSET (Slots \X Slots) /\ idle' \in SUBSET IdleTimers
           /\ worker' \in WorkerStages /\ asked' \in BOOLEAN /\ emitted' \in BOOLEAN
           /\ threads' \in Nat
  <1>1. connected' \in [Slots -> BOOLEAN]
    BY DEF StartDuelWithOrder, Slots, Other
  <1>2. grace' \in SUBSET (Slots \X Slots) /\ idle' \in SUBSET IdleTimers
    BY SwappedGrace, SwappedIdle DEF StartDuelWithOrder
  <1>3. awaiting' \in [Slots -> BOOLEAN] /\ threads' \in Nat
    BY DEF StartDuelWithOrder, Both, TypeOK
  <1> QED BY <1>1, <1>2, <1>3 DEF StartDuelWithOrder, Phases, WorkerStages, Alive

LEMMA StartFirstPlayerType ==
    ASSUME NEW t \in SUBSET TimerNames, StartFirstPlayerPhase(t)
    PROVE  /\ phase' \in Phases /\ rolled' \in SUBSET Slots /\ pick' \in Slots \cup {Nobody}
           /\ awaiting' \in [Slots -> BOOLEAN] /\ timers' \in SUBSET TimerNames
  BY DEF StartFirstPlayerPhase, Phases, Both, TimerNames

LEMMA ProceedType ==
    ASSUME TypeOK, NEW c \in [Slots -> BOOLEAN], NEW r, NEW t \in SUBSET TimerNames,
           NEW g \in SUBSET (Slots \X Slots), NEW i \in SUBSET IdleTimers, Proceed(c, r, t, g, i)
    PROVE  /\ phase' \in Phases /\ started' \in BOOLEAN /\ connected' \in [Slots -> BOOLEAN]
           /\ rolled' \in SUBSET Slots /\ pick' \in Slots \cup {Nobody}
           /\ timers' \in SUBSET TimerNames /\ awaiting' \in [Slots -> BOOLEAN]
           /\ grace' \in SUBSET (Slots \X Slots) /\ idle' \in SUBSET IdleTimers
           /\ worker' \in WorkerStages /\ asked' \in BOOLEAN /\ emitted' \in BOOLEAN
           /\ threads' \in Nat
  <1>1. CASE StartDuelWithOrder(0, c, t, g, i)
    BY <1>1, StartDuelType
  <1>2. CASE StartFirstPlayerPhase(t) /\ ~StartDuelWithOrder(0, c, t, g, i)
    <2>1. worker' \in WorkerStages /\ started' \in BOOLEAN /\ UNCHANGED <<asked, emitted, threads>>
      BY <1>2 DEF Proceed, TypeOK, handle, WorkerStages, Alive
    <2> QED BY <1>2, <2>1, StartFirstPlayerType, ProceedSockets DEF TypeOK
  <1>3. CASE ~StartFirstPlayerPhase(t) /\ ~StartDuelWithOrder(0, c, t, g, i)
    BY <1>3 DEF Proceed, TypeOK, handle, WorkerStages, Alive
  <1> QED BY <1>1, <1>2, <1>3

LEMMA CleanupType ==
    ASSUME TypeOK, WorkerAccounting, CleanupDuelSession
    PROVE  TypeOK'
  <1>1. idle' \in SUBSET IdleTimers /\ grace' \in SUBSET (Slots \X Slots)
    BY IdleType DEF CleanupDuelSession, TypeOK, IdleTimers
  <1>2. threads' \in Nat /\ served' \in Nat /\ worker' \in WorkerStages
    BY StopThreadType DEF CleanupDuelSession, SafeTerminateWorker, TypeOK, WorkerStages
  <1>3. connected' \in [Slots -> BOOLEAN]
    BY DEF CleanupDuelSession, Both
  <1> QED BY <1>1, <1>2, <1>3 DEF CleanupDuelSession, TypeOK, IdleTimers, Slots

LEMMA SpentType == \A n : TypeOK /\ Spent(n) => TypeOK'
  BY DEF TypeOK, Spent, handle, dice, turn, replay

LEMMA AttachType ==
    ASSUME TypeOK, NEW p \in Slots, NEW reconnect \in BOOLEAN, Attach(p, reconnect),
           tokens' \in SUBSET Slots
    PROVE  TypeOK'
  <1> DEFINE c      == [connected EXCEPT ![p] = TRUE]
             resume == reconnect /\ \E q \in Slots : awaiting[q]
             armed  == {q \in Slots : awaiting[q] /\ (SoloMode /\ q = 1 => ~awaiting[0])}
             rejoin == reconnect /\ bothGone /\ ~stored
             t0     == DeadlineArmed(timers \ {"soloOrphan"}, phase, c, ready)
             g0     == IF reconnect THEN Without(grace, p) ELSE grace
             t      == IF rejoin THEN t0 \ {"combinedGrace"} ELSE t0
             g      == IF rejoin /\ ~c[Other(p)] THEN Graced(g0, Other(p)) ELSE g0
             i      == IF resume THEN Restarted(idle, armed) ELSE idle
  <1>1. Proceed(c, ready, t, g, i)
    BY DEF Attach
  <1>2. c \in [Slots -> BOOLEAN]
    BY DEF TypeOK
  <1>3. t \in SUBSET TimerNames
    <2>1. timers \ {"soloOrphan"} \in SUBSET TimerNames
      BY DEF TypeOK
    <2> QED BY <2>1, DeadlineArmedType
  <1>4. g \in SUBSET (Slots \X Slots)
    <2>1. g0 \in SUBSET (Slots \X Slots)
      BY WithoutType DEF TypeOK
    <2> QED BY <2>1, GracedType DEF Other, Slots
  <1>5. i \in SUBSET IdleTimers
    <2>1. armed \in SUBSET Slots
      OBVIOUS
    <2> QED BY <2>1, IdleType DEF TypeOK, IdleTimers
  <1>6. /\ clock' \in {"null", "stopped", "pending", "running"} /\ bothGone' \in BOOLEAN
        /\ UNCHANGED <<registered, ended, ready, stored, active, rematch, served, duel,
                       override, persisting>>
    BY DEF Attach, TypeOK, replay
  <1> HIDE DEF c, t, g, i
  <1>7. /\ phase' \in Phases /\ started' \in BOOLEAN /\ connected' \in [Slots -> BOOLEAN]
        /\ rolled' \in SUBSET Slots /\ pick' \in Slots \cup {Nobody}
        /\ timers' \in SUBSET TimerNames /\ awaiting' \in [Slots -> BOOLEAN]
        /\ grace' \in SUBSET (Slots \X Slots) /\ idle' \in SUBSET IdleTimers
        /\ worker' \in WorkerStages /\ asked' \in BOOLEAN /\ emitted' \in BOOLEAN
        /\ threads' \in Nat
    BY <1>1, <1>2, <1>3, <1>4, <1>5, ProceedType
  <1> QED BY <1>6, <1>7 DEF TypeOK, IdleTimers

-----------------------------------------------------------------------------
(* One lemma for each part of the invariant, and one for the refinement.   *)

\* Types are preserved.
LEMMA TypeStep ==
    ASSUME Inv, [Next]_vars
    PROVE  TypeOK'
  <1> USE DEF Inv
  <1>1. ASSUME NEW p \in Slots, Connect(p) PROVE TypeOK'
    BY <1>1, AttachType DEF Connect, TypeOK
  <1>2. ASSUME NEW p \in Slots, Reconnect(p) PROVE TypeOK'
    BY <1>2, AttachType DEF Reconnect, TypeOK
  <1>3. ASSUME NEW p \in Slots, CollectStoredResult(p) PROVE TypeOK'
    BY <1>3, CleanupType DEF CollectStoredResult
  <1>4. ASSUME NEW p \in Slots, CloseLive(p) PROVE TypeOK'
    BY <1>4, IdleType, WithoutType, GracedType DEF CloseLive, PauseTurnTimer, TimerNames,
       handle, dice, replay, TypeOK
  <1>5. ASSUME NEW p \in Slots, CloseEnded(p) PROVE TypeOK'
    BY <1>5, CleanupType DEF CloseEnded, handle, dice, turn, replay, TypeOK
  <1>6. CASE DeleteDuel
    BY <1>6, CleanupType DEF DeleteDuel
  <1>7. CASE ConnectionTimeout
    BY <1>7, CleanupType, SpentType DEF ConnectionTimeout
  <1>8. CASE ForkConnectionTimeout
    BY <1>8, CleanupType, SpentType DEF ForkConnectionTimeout
  <1>9. CASE AnimationsReadyTimeout
    BY <1>9, CleanupType, SpentType DEF AnimationsReadyTimeout
  <1>10. CASE SoloOrphanTimeout
    BY <1>10, EndDuelType, RequestReplayType, SpentType DEF SoloOrphanTimeout, IdleTimers,
       dice, TypeOK
  <1>11. CASE CombinedGraceTimeout
    BY <1>11, EndDuelType, RequestReplayType, SpentType DEF CombinedGraceTimeout, IdleTimers,
       TimerNames, dice, TypeOK
  <1>12. CASE PreservationTimeout
    BY <1>12, CleanupType DEF PreservationTimeout
  <1>13. CASE RematchTimeout
    BY <1>13, CleanupType DEF RematchTimeout
  <1>14. CASE TurnTimeout
    BY <1>14, EndDuelType, RequestReplayType DEF TurnTimeout, IdleTimers, dice, TypeOK
  <1>15. CASE PendingTimeout
    BY <1>15 DEF PendingTimeout, handle, dice, replay, TypeOK
  <1>16. ASSUME NEW t \in grace, GraceTimeout(t) PROVE TypeOK'
    BY <1>16, EndDuelType, RequestReplayType DEF GraceTimeout, IdleTimers, dice, turn, TypeOK
  <1>17. ASSUME NEW t \in idle, IdleTimeout(t) PROVE TypeOK'
    <2> DEFINE left == {IF u[2] = t[1] THEN <<u[1], Nobody>> ELSE u : u \in idle \ {t}}
    <2>1. t[1] \in Slots /\ <<t[1], t[1]>> \in IdleTimers
      BY DEF TypeOK, IdleTimers
    <2>2. left \in SUBSET IdleTimers
      BY DEF TypeOK, IdleTimers
    <2>3. timers \in SUBSET TimerNames
      BY DEF TypeOK
    <2>4. CASE /\ EndDuel(timers, left) /\ RequestReplay
               /\ awaiting' = [awaiting EXCEPT ![t[1]] = FALSE]
      <3> HIDE DEF left
      <3>1. /\ ended' \in BOOLEAN /\ timers' \in SUBSET TimerNames /\ idle' \in SUBSET IdleTimers
            /\ clock' \in {"null", "stopped", "pending", "running"} /\ active' \in Slots
            /\ asked' \in BOOLEAN /\ override' \in 0..MaxDuels
        BY <2>2, <2>3, <2>4, EndDuelType, RequestReplayType
      <3>2. awaiting' \in [Slots -> BOOLEAN]
        BY <2>1, <2>4 DEF TypeOK
      <3> QED BY <1>17, <3>1, <3>2 DEF IdleTimeout, TypeOK, IdleTimers, dice
    <2>5. CASE /\ idle' = IF ended THEN left ELSE left \cup {<<t[1], t[1]>>}
               /\ UNCHANGED <<ended, awaiting, timers, turn, asked, override>>
      <3> HIDE DEF left
      <3>1. idle' \in SUBSET IdleTimers
        BY <2>1, <2>2, <2>5
      <3> QED BY <1>17, <2>5, <3>1 DEF IdleTimeout, TypeOK, IdleTimers, dice, turn
    <2> QED BY <1>17, <2>4, <2>5 DEF IdleTimeout
  <1>18. CASE AutoFillStalledRolls
    BY <1>18, ResolveDiceRoundType DEF AutoFillStalledRolls, handle, turn, replay, TypeOK
  <1>19. CASE TieReroll
    BY <1>19, StartFirstPlayerType DEF TieReroll, handle, turn, replay, TypeOK
  <1>20. CASE PromoteToChooseFirstPlayer
    BY <1>20 DEF PromoteToChooseFirstPlayer, Phases, handle, dice, turn, replay, TypeOK
  <1>21. CASE FirstPlayerTimeout
    BY <1>21 DEF FirstPlayerTimeout, BroadcastFinalAndBridge, Phases, handle, turn, replay,
       TypeOK
  <1>22. CASE BannerElapsed
    BY <1>22, StartDuelType DEF BannerElapsed, IdleTimers, turn, replay, TypeOK
  <1>23. ASSUME NEW p \in Slots, RollDice(p) PROVE TypeOK'
    BY <1>23, ResolveDiceRoundType DEF RollDice, handle, turn, replay, TypeOK
  <1>24. ASSUME NEW p \in Slots, ChooseFirstPlayer(p) PROVE TypeOK'
    BY <1>24 DEF ChooseFirstPlayer, BroadcastFinalAndBridge, Phases, TimerNames, handle, turn,
       replay, TypeOK
  <1>25. ASSUME NEW p \in Slots, PlayerResponse(p) PROVE TypeOK'
    BY <1>25, IdleType DEF PlayerResponse, PauseTurnTimer, WorkerStages, Alive, IdleTimers,
       dice, replay, TypeOK
  <1>26. ASSUME NEW p \in Slots, TooManyInvalidResponses(p) PROVE TypeOK'
    BY <1>26, EndDuelType, RequestReplayType DEF TooManyInvalidResponses, Forfeit, IdleTimers,
       dice, TypeOK
  <1>27. ASSUME NEW p \in Slots, Surrender(p) PROVE TypeOK'
    BY <1>27, EndDuelType, RequestReplayType DEF Surrender, Forfeit, IdleTimers, dice, TypeOK
  <1>28. ASSUME NEW p \in Slots, RematchRequest(p) PROVE TypeOK'
    <2>1. CASE StartRematch
      <3>1. threads' \in Nat /\ served' \in Nat
        BY <2>1, StopThreadType DEF StartRematch
      <3>2. duel' \in 1..MaxDuels
        BY <2>1, DuelsAssumption DEF StartRematch, TypeOK
      <3>3. timers' \in SUBSET TimerNames
        <4>1. timers \ (DuelTimers \cup {"rematchTimeout", "dice"}) \in SUBSET TimerNames
          BY DEF TypeOK
        <4> QED BY <2>1, <4>1, DeadlineArmedType DEF StartRematch
      <3>4. idle' \in SUBSET IdleTimers /\ grace' \in SUBSET (Slots \X Slots)
        BY <2>1, IdleType DEF StartRematch, TypeOK, IdleTimers
      <3> QED BY <2>1, <3>1, <3>2, <3>3, <3>4
              DEF StartRematch, ReadyForRematch, Both, Phases, WorkerStages, IdleTimers, Slots,
                  TypeOK, replay
    <2>2. CASE ~StartRematch
      BY <1>28, <2>2 DEF RematchRequest, TypeOK, handle, dice, turn, replay
    <2> QED BY <2>1, <2>2
  <1>29. ASSUME NEW p \in Slots, ActivityPing(p) PROVE TypeOK'
    <2>1. Restarted(idle, {p}) \in SUBSET IdleTimers
      <3>1. idle \in SUBSET IdleTimers /\ {p} \in SUBSET Slots
        BY DEF TypeOK, IdleTimers
      <3> QED BY <3>1, IdleType
    <2> QED BY <1>29, <2>1 DEF ActivityPing, TypeOK, IdleTimers, dice, handle,
                       replay, turn
  <1>30. ASSUME NEW p \in Slots, AnimationsDone(p) PROVE TypeOK'
    BY <1>30 DEF AnimationsDone, handle, dice, replay, TypeOK
  <1>31. ASSUME NEW p \in Slots, AnimationsReady(p) PROVE TypeOK'
    BY <1>31, ProceedType DEF AnimationsReady, IdleTimers, turn, replay, TypeOK
  <1>32. CASE DuelCreated
    BY <1>32 DEF DuelCreated, WorkerStages, Alive, Slots, dice, replay, TypeOK
  <1>33. CASE RetryLimit
    BY <1>33, EndDuelType, RequestReplayType DEF RetryLimit, Forfeit, IdleTimers, WorkerStages,
       Alive, dice, TypeOK
  <1>34. CASE MsgWin
    BY <1>34, EndDuelType DEF MsgWin, IdleTimers, WorkerStages, Alive, dice, replay, TypeOK
  <1>35. CASE ReplayData
    <2>1. threads' \in Nat /\ served' \in Nat
      BY <1>35, StopThreadType DEF ReplayData, SafeTerminateWorker, TypeOK
    <2>2. worker' \in WorkerStages
      BY <1>35 DEF ReplayData, SafeTerminateWorker, TypeOK, WorkerStages, Alive
    <2>3. override' \in 0..MaxDuels /\ persisting' \in SUBSET (1..MaxDuels)
      <3>1. 0 \in 0..MaxDuels
        BY DuelsAssumption
      <3>2. CASE UNCHANGED <<override, persisting>>
        BY <3>2 DEF TypeOK
      <3>3. CASE override' = 0 /\ persisting' = persisting \cup {duel}
        BY <3>1, <3>3 DEF TypeOK
      <3> QED BY <1>35, <3>2, <3>3 DEF ReplayData, replay
    <2> QED BY <1>35, <2>1, <2>2, <2>3 DEF ReplayData, TypeOK, dice, turn
  <1>36. CASE WorkerError
    BY <1>36, EndDuelType, StopThreadType DEF WorkerError, SafeTerminateWorker, IdleTimers,
       WorkerStages, dice, replay, TypeOK
  <1>37. CASE WorkerExit
    BY <1>37, CleanupType, StopThreadType DEF WorkerExit, ExitCounted, SafeTerminateWorker,
       WorkerStages, dice, turn, replay, TypeOK
  <1>38. ASSUME NEW p \in Slots, Prompt(p) PROVE TypeOK'
    <2>1. Restarted(idle, {p}) \in SUBSET IdleTimers
      <3>1. idle \in SUBSET IdleTimers /\ {p} \in SUBSET Slots
        BY DEF TypeOK, IdleTimers
      <3> QED BY <3>1, IdleType
    <2> QED BY <1>38, <2>1 DEF Prompt, WorkerStages, Alive, turn, TypeOK, IdleTimers, dice, handle,
                       replay
  <1>39. ASSUME NEW p \in Slots, TurnChange(p) PROVE TypeOK'
    BY <1>39 DEF TurnChange, handle, dice, replay, TypeOK
  <1>40. ASSUME NEW d \in persisting, PersistSettled(d) PROVE TypeOK'
    BY <1>40, StopThreadType DEF PersistSettled, SafeTerminateWorker, WorkerStages, dice, turn,
       TypeOK
  <1>41. CASE UNCHANGED vars
    BY <1>41 DEF vars, handle, dice, turn, replay, TypeOK
  <1> QED
    BY <1>1, <1>2, <1>3, <1>4, <1>5, <1>6, <1>7, <1>8, <1>9, <1>10, <1>11, <1>12, <1>13, <1>14,
       <1>15, <1>16, <1>17, <1>18, <1>19, <1>20, <1>21, <1>22, <1>23, <1>24, <1>25, <1>26,
       <1>27, <1>28, <1>29, <1>30, <1>31, <1>32, <1>33, <1>34, <1>35, <1>36, <1>37, <1>38,
       <1>39, <1>40, <1>41
       DEF Next, Sockets, Expiry, DiceTimer, ClientMessage, WorkerMessage

\* Solo sessions stay out of the dice, forks out of the waiting phase.
LEMMA ModeStep ==
    ASSUME Inv, [Next]_vars
    PROVE  ModeFits'
  <1> USE DEF Inv, ModeFits
  <1>1. ASSUME NEW p \in Slots, Connect(p) PROVE ModeFits'
    BY <1>1 DEF Connect, Attach, Proceed, StartDuelWithOrder
  <1>2. ASSUME NEW p \in Slots, Reconnect(p) PROVE ModeFits'
    BY <1>2 DEF Reconnect, Attach, Proceed, StartDuelWithOrder
  <1>3. ASSUME NEW p \in Slots, CollectStoredResult(p) PROVE ModeFits'
    BY <1>3 DEF CollectStoredResult, CleanupDuelSession
  <1>4. ASSUME NEW p \in Slots, CloseLive(p) PROVE ModeFits'
    BY <1>4 DEF CloseLive
  <1>5. ASSUME NEW p \in Slots, CloseEnded(p) PROVE ModeFits'
    BY <1>5 DEF CloseEnded, CleanupDuelSession
  <1>6. CASE DeleteDuel
    BY <1>6 DEF DeleteDuel, CleanupDuelSession
  <1>7. CASE ConnectionTimeout
    BY <1>7 DEF ConnectionTimeout, Spent, CleanupDuelSession
  <1>8. CASE ForkConnectionTimeout
    BY <1>8 DEF ForkConnectionTimeout, Spent, CleanupDuelSession
  <1>9. CASE AnimationsReadyTimeout
    BY <1>9 DEF AnimationsReadyTimeout, Spent, CleanupDuelSession
  <1>10. CASE SoloOrphanTimeout
    BY <1>10 DEF SoloOrphanTimeout, Spent
  <1>11. CASE CombinedGraceTimeout
    BY <1>11 DEF CombinedGraceTimeout, Spent
  <1>12. CASE PreservationTimeout
    BY <1>12 DEF PreservationTimeout, CleanupDuelSession
  <1>13. CASE RematchTimeout
    BY <1>13 DEF RematchTimeout, CleanupDuelSession
  <1>14. CASE TurnTimeout
    BY <1>14 DEF TurnTimeout
  <1>15. CASE PendingTimeout
    BY <1>15 DEF PendingTimeout
  <1>16. ASSUME NEW t \in grace, GraceTimeout(t) PROVE ModeFits'
    BY <1>16 DEF GraceTimeout
  <1>17. ASSUME NEW t \in idle, IdleTimeout(t) PROVE ModeFits'
    BY <1>17 DEF IdleTimeout
  <1>18. CASE AutoFillStalledRolls
    BY <1>18 DEF AutoFillStalledRolls
  <1>19. CASE TieReroll
    BY <1>19 DEF TieReroll
  <1>20. CASE PromoteToChooseFirstPlayer
    BY <1>20 DEF PromoteToChooseFirstPlayer
  <1>21. CASE FirstPlayerTimeout
    BY <1>21 DEF FirstPlayerTimeout
  <1>22. CASE BannerElapsed
    BY <1>22 DEF BannerElapsed
  <1>23. ASSUME NEW p \in Slots, RollDice(p) PROVE ModeFits'
    BY <1>23 DEF RollDice
  <1>24. ASSUME NEW p \in Slots, ChooseFirstPlayer(p) PROVE ModeFits'
    BY <1>24 DEF ChooseFirstPlayer
  <1>25. ASSUME NEW p \in Slots, PlayerResponse(p) PROVE ModeFits'
    BY <1>25 DEF PlayerResponse
  <1>26. ASSUME NEW p \in Slots, TooManyInvalidResponses(p) PROVE ModeFits'
    BY <1>26 DEF TooManyInvalidResponses, Forfeit
  <1>27. ASSUME NEW p \in Slots, Surrender(p) PROVE ModeFits'
    BY <1>27 DEF Surrender, Forfeit
  <1>28. ASSUME NEW p \in Slots, RematchRequest(p) PROVE ModeFits'
    BY <1>28 DEF RematchRequest, StartRematch
  <1>29. ASSUME NEW p \in Slots, ActivityPing(p) PROVE ModeFits'
    BY <1>29 DEF ActivityPing
  <1>30. ASSUME NEW p \in Slots, AnimationsDone(p) PROVE ModeFits'
    BY <1>30 DEF AnimationsDone
  <1>31. ASSUME NEW p \in Slots, AnimationsReady(p) PROVE ModeFits'
    BY <1>31 DEF AnimationsReady, Proceed, StartDuelWithOrder
  <1>32. CASE DuelCreated
    BY <1>32 DEF DuelCreated
  <1>33. CASE RetryLimit
    BY <1>33 DEF RetryLimit, Forfeit
  <1>34. CASE MsgWin
    BY <1>34 DEF MsgWin
  <1>35. CASE ReplayData
    BY <1>35 DEF ReplayData
  <1>36. CASE WorkerError
    BY <1>36 DEF WorkerError
  <1>37. CASE WorkerExit
    BY <1>37 DEF WorkerExit, ExitCounted, CleanupDuelSession
  <1>38. ASSUME NEW p \in Slots, Prompt(p) PROVE ModeFits'
    BY <1>38 DEF Prompt
  <1>39. ASSUME NEW p \in Slots, TurnChange(p) PROVE ModeFits'
    BY <1>39 DEF TurnChange
  <1>40. ASSUME NEW d \in persisting, PersistSettled(d) PROVE ModeFits'
    BY <1>40 DEF PersistSettled
  <1>41. CASE UNCHANGED vars
    BY <1>41 DEF vars
  <1> QED
    BY <1>1, <1>2, <1>3, <1>4, <1>5, <1>6, <1>7, <1>8, <1>9, <1>10, <1>11, <1>12, <1>13, <1>14,
       <1>15, <1>16, <1>17, <1>18, <1>19, <1>20, <1>21, <1>22, <1>23, <1>24, <1>25, <1>26,
       <1>27, <1>28, <1>29, <1>30, <1>31, <1>32, <1>33, <1>34, <1>35, <1>36, <1>37, <1>38,
       <1>39, <1>40, <1>41
       DEF Next, Sockets, Expiry, DiceTimer, ClientMessage, WorkerMessage

\* A worker appears only when its duel starts.
LEMMA WorkerStep ==
    ASSUME Inv, [Next]_vars
    PROVE  WorkerComesWithDuel'
  <1> USE DEF Inv, WorkerComesWithDuel
  <1>1. ASSUME NEW p \in Slots, Connect(p) PROVE WorkerComesWithDuel'
    BY <1>1, ProceedWorker DEF Connect, Attach
  <1>2. ASSUME NEW p \in Slots, Reconnect(p) PROVE WorkerComesWithDuel'
    BY <1>2, ProceedWorker DEF Reconnect, Attach
  <1>3. ASSUME NEW p \in Slots, CollectStoredResult(p) PROVE WorkerComesWithDuel'
    BY <1>3 DEF CollectStoredResult, CleanupDuelSession, SafeTerminateWorker, StopThread, Alive
  <1>4. ASSUME NEW p \in Slots, CloseLive(p) PROVE WorkerComesWithDuel'
    BY <1>4 DEF CloseLive, handle
  <1>5. ASSUME NEW p \in Slots, CloseEnded(p) PROVE WorkerComesWithDuel'
    BY <1>5 DEF CloseEnded, CleanupDuelSession, SafeTerminateWorker, StopThread, handle, Alive
  <1>6. CASE DeleteDuel
    BY <1>6 DEF DeleteDuel, CleanupDuelSession, SafeTerminateWorker, StopThread, Alive
  <1>7. CASE ConnectionTimeout
    BY <1>7 DEF ConnectionTimeout, Spent, CleanupDuelSession, SafeTerminateWorker, StopThread,
       handle, Alive
  <1>8. CASE ForkConnectionTimeout
    BY <1>8 DEF ForkConnectionTimeout, Spent, CleanupDuelSession, SafeTerminateWorker,
       StopThread, handle, Alive
  <1>9. CASE AnimationsReadyTimeout
    BY <1>9 DEF AnimationsReadyTimeout, Spent, CleanupDuelSession, SafeTerminateWorker,
       StopThread, handle, Alive
  <1>10. CASE SoloOrphanTimeout
    BY <1>10 DEF SoloOrphanTimeout, Spent, handle
  <1>11. CASE CombinedGraceTimeout
    BY <1>11 DEF CombinedGraceTimeout, Spent, handle
  <1>12. CASE PreservationTimeout
    BY <1>12 DEF PreservationTimeout, CleanupDuelSession, SafeTerminateWorker, StopThread, Alive
  <1>13. CASE RematchTimeout
    BY <1>13 DEF RematchTimeout, CleanupDuelSession, SafeTerminateWorker, StopThread, Alive
  <1>14. CASE TurnTimeout
    BY <1>14 DEF TurnTimeout
  <1>15. CASE PendingTimeout
    BY <1>15 DEF PendingTimeout, handle
  <1>16. ASSUME NEW t \in grace, GraceTimeout(t) PROVE WorkerComesWithDuel'
    BY <1>16 DEF GraceTimeout
  <1>17. ASSUME NEW t \in idle, IdleTimeout(t) PROVE WorkerComesWithDuel'
    BY <1>17 DEF IdleTimeout
  <1>18. CASE AutoFillStalledRolls
    BY <1>18 DEF AutoFillStalledRolls, handle
  <1>19. CASE TieReroll
    BY <1>19 DEF TieReroll, handle
  <1>20. CASE PromoteToChooseFirstPlayer
    BY <1>20 DEF PromoteToChooseFirstPlayer, handle
  <1>21. CASE FirstPlayerTimeout
    BY <1>21 DEF FirstPlayerTimeout, BroadcastFinalAndBridge, handle
  <1>22. CASE BannerElapsed
    BY <1>22 DEF BannerElapsed, StartDuelWithOrder
  <1>23. ASSUME NEW p \in Slots, RollDice(p) PROVE WorkerComesWithDuel'
    BY <1>23 DEF RollDice, handle
  <1>24. ASSUME NEW p \in Slots, ChooseFirstPlayer(p) PROVE WorkerComesWithDuel'
    BY <1>24 DEF ChooseFirstPlayer, BroadcastFinalAndBridge, handle
  <1>25. ASSUME NEW p \in Slots, PlayerResponse(p) PROVE WorkerComesWithDuel'
    BY <1>25 DEF PlayerResponse
  <1>26. ASSUME NEW p \in Slots, TooManyInvalidResponses(p) PROVE WorkerComesWithDuel'
    BY <1>26 DEF TooManyInvalidResponses, Forfeit
  <1>27. ASSUME NEW p \in Slots, Surrender(p) PROVE WorkerComesWithDuel'
    BY <1>27 DEF Surrender, Forfeit
  <1>28. ASSUME NEW p \in Slots, RematchRequest(p) PROVE WorkerComesWithDuel'
    <2>1. CASE StartRematch
      <3>1. duel \in Nat /\ served \in Nat /\ threads \in Nat
        BY DEF TypeOK
      <3>2. served' <= duel /\ threads' = 0 /\ served' \in Nat
        BY <2>1, <3>1 DEF StartRematch, StopThread, WorkerAccounting
      <3>3. duel' = duel + 1 /\ worker' = "none"
        BY <2>1 DEF StartRematch
      <3> QED BY <3>1, <3>2, <3>3 DEF WorkerComesWithDuel, WorkerAccounting, Alive
    <2>2. CASE ~StartRematch
      BY <1>28, <2>2 DEF RematchRequest, handle, WorkerComesWithDuel, WorkerAccounting
    <2> QED BY <2>1, <2>2
  <1>29. ASSUME NEW p \in Slots, ActivityPing(p) PROVE WorkerComesWithDuel'
    BY <1>29 DEF ActivityPing, handle
  <1>30. ASSUME NEW p \in Slots, AnimationsDone(p) PROVE WorkerComesWithDuel'
    BY <1>30 DEF AnimationsDone, handle
  <1>31. ASSUME NEW p \in Slots, AnimationsReady(p) PROVE WorkerComesWithDuel'
    BY <1>31, ProceedWorker DEF AnimationsReady
  <1>32. CASE DuelCreated
    BY <1>32 DEF DuelCreated
  <1>33. CASE RetryLimit
    BY <1>33 DEF RetryLimit, Forfeit
  <1>34. CASE MsgWin
    BY <1>34 DEF MsgWin
  <1>35. CASE ReplayData
    BY <1>35 DEF ReplayData, CanEmitReplay, SafeTerminateWorker
  <1>36. CASE WorkerError
    BY <1>36 DEF WorkerError, SafeTerminateWorker
  <1>37. CASE WorkerExit
    BY <1>37 DEF WorkerExit, ExitCounted, CleanupDuelSession, SafeTerminateWorker, Alive
  <1>38. ASSUME NEW p \in Slots, Prompt(p) PROVE WorkerComesWithDuel'
    BY <1>38 DEF Prompt
  <1>39. ASSUME NEW p \in Slots, TurnChange(p) PROVE WorkerComesWithDuel'
    BY <1>39 DEF TurnChange, handle
  <1>40. ASSUME NEW d \in persisting, PersistSettled(d) PROVE WorkerComesWithDuel'
    BY <1>40 DEF PersistSettled, SafeTerminateWorker, StopThread, Alive
  <1>41. CASE UNCHANGED vars
    BY <1>41 DEF vars, handle
  <1> QED
    BY <1>1, <1>2, <1>3, <1>4, <1>5, <1>6, <1>7, <1>8, <1>9, <1>10, <1>11, <1>12, <1>13, <1>14,
       <1>15, <1>16, <1>17, <1>18, <1>19, <1>20, <1>21, <1>22, <1>23, <1>24, <1>25, <1>26,
       <1>27, <1>28, <1>29, <1>30, <1>31, <1>32, <1>33, <1>34, <1>35, <1>36, <1>37, <1>38,
       <1>39, <1>40, <1>41
       DEF Next, Sockets, Expiry, DiceTimer, ClientMessage, WorkerMessage

\* One thread at most, counted once.
LEMMA AccountingStep ==
    ASSUME Inv, [Next]_vars
    PROVE  WorkerAccounting'
  <1> USE DEF Inv, WorkerAccounting
  <1>1. ASSUME NEW p \in Slots, Connect(p) PROVE WorkerAccounting'
    BY <1>1, ProceedWorker DEF Connect, Attach, WorkerComesWithDuel, TypeOK, Alive
  <1>2. ASSUME NEW p \in Slots, Reconnect(p) PROVE WorkerAccounting'
    BY <1>2, ProceedWorker DEF Reconnect, Attach, WorkerComesWithDuel, TypeOK, Alive
  <1>3. ASSUME NEW p \in Slots, CollectStoredResult(p) PROVE WorkerAccounting'
    BY <1>3 DEF CollectStoredResult, CleanupDuelSession, SafeTerminateWorker, StopThread,
       Alive, WorkerComesWithDuel, TypeOK
  <1>4. ASSUME NEW p \in Slots, CloseLive(p) PROVE WorkerAccounting'
    BY <1>4 DEF CloseLive, handle, WorkerComesWithDuel
  <1>5. ASSUME NEW p \in Slots, CloseEnded(p) PROVE WorkerAccounting'
    <2>1. CASE CleanupDuelSession
      BY <2>1 DEF CleanupDuelSession, SafeTerminateWorker, StopThread, WorkerAccounting, TypeOK,
              Alive
    <2>2. CASE ~CleanupDuelSession
      BY <1>5, <2>2 DEF CloseEnded, handle, WorkerAccounting
    <2> QED BY <2>1, <2>2
  <1>6. CASE DeleteDuel
    BY <1>6 DEF DeleteDuel, CleanupDuelSession, SafeTerminateWorker, StopThread, Alive,
       WorkerComesWithDuel, TypeOK
  <1>7. CASE ConnectionTimeout
    BY <1>7 DEF ConnectionTimeout, Spent, CleanupDuelSession, SafeTerminateWorker, StopThread,
       Both, handle, Alive, WorkerComesWithDuel, TypeOK
  <1>8. CASE ForkConnectionTimeout
    BY <1>8 DEF ForkConnectionTimeout, Spent, CleanupDuelSession, SafeTerminateWorker,
       StopThread, Both, handle, Alive, WorkerComesWithDuel, TypeOK
  <1>9. CASE AnimationsReadyTimeout
    BY <1>9 DEF AnimationsReadyTimeout, Spent, CleanupDuelSession, SafeTerminateWorker,
       StopThread, handle, Alive, WorkerComesWithDuel
  <1>10. CASE SoloOrphanTimeout
    BY <1>10 DEF SoloOrphanTimeout, Spent, handle, WorkerComesWithDuel
  <1>11. CASE CombinedGraceTimeout
    BY <1>11 DEF CombinedGraceTimeout, Spent, handle, WorkerComesWithDuel
  <1>12. CASE PreservationTimeout
    BY <1>12 DEF PreservationTimeout, CleanupDuelSession, SafeTerminateWorker, StopThread,
       Alive, WorkerComesWithDuel, TypeOK
  <1>13. CASE RematchTimeout
    BY <1>13 DEF RematchTimeout, CleanupDuelSession, SafeTerminateWorker, StopThread, Alive,
       WorkerComesWithDuel, TypeOK
  <1>14. CASE TurnTimeout
    BY <1>14 DEF TurnTimeout, WorkerComesWithDuel
  <1>15. CASE PendingTimeout
    BY <1>15 DEF PendingTimeout, handle, WorkerComesWithDuel
  <1>16. ASSUME NEW t \in grace, GraceTimeout(t) PROVE WorkerAccounting'
    BY <1>16 DEF GraceTimeout, WorkerComesWithDuel
  <1>17. ASSUME NEW t \in idle, IdleTimeout(t) PROVE WorkerAccounting'
    BY <1>17 DEF IdleTimeout, WorkerComesWithDuel
  <1>18. CASE AutoFillStalledRolls
    BY <1>18 DEF AutoFillStalledRolls, handle, WorkerComesWithDuel
  <1>19. CASE TieReroll
    BY <1>19 DEF TieReroll, handle, WorkerComesWithDuel
  <1>20. CASE PromoteToChooseFirstPlayer
    BY <1>20 DEF PromoteToChooseFirstPlayer, handle, WorkerComesWithDuel
  <1>21. CASE FirstPlayerTimeout
    BY <1>21 DEF FirstPlayerTimeout, BroadcastFinalAndBridge, handle, WorkerComesWithDuel
  <1>22. CASE BannerElapsed
    BY <1>22 DEF BannerElapsed, StartDuelWithOrder, Alive, WorkerComesWithDuel, TypeOK
  <1>23. ASSUME NEW p \in Slots, RollDice(p) PROVE WorkerAccounting'
    BY <1>23 DEF RollDice, handle, WorkerComesWithDuel
  <1>24. ASSUME NEW p \in Slots, ChooseFirstPlayer(p) PROVE WorkerAccounting'
    BY <1>24 DEF ChooseFirstPlayer, BroadcastFinalAndBridge, handle, WorkerComesWithDuel
  <1>25. ASSUME NEW p \in Slots, PlayerResponse(p) PROVE WorkerAccounting'
    BY <1>25 DEF PlayerResponse, Alive, WorkerComesWithDuel
  <1>26. ASSUME NEW p \in Slots, TooManyInvalidResponses(p) PROVE WorkerAccounting'
    BY <1>26 DEF TooManyInvalidResponses, Forfeit, WorkerComesWithDuel
  <1>27. ASSUME NEW p \in Slots, Surrender(p) PROVE WorkerAccounting'
    BY <1>27 DEF Surrender, Forfeit, WorkerComesWithDuel
  <1>28. ASSUME NEW p \in Slots, RematchRequest(p) PROVE WorkerAccounting'
    <2>1. CASE StartRematch
      <3>1. duel \in Nat /\ served \in Nat /\ threads \in Nat
        BY DEF TypeOK
      <3>2. served' <= duel /\ threads' = 0 /\ served' \in Nat
        BY <2>1, <3>1 DEF StartRematch, StopThread, WorkerAccounting
      <3>3. duel' = duel + 1 /\ worker' = "none"
        BY <2>1 DEF StartRematch
      <3>4. threads' + served' <= duel'
        BY <3>1, <3>2, <3>3, ZeroPlus
      <3> QED BY <3>1, <3>2, <3>3, <3>4 DEF WorkerAccounting, Alive
    <2>2. CASE ~StartRematch
      BY <1>28, <2>2 DEF RematchRequest, handle, WorkerComesWithDuel, WorkerAccounting
    <2> QED BY <2>1, <2>2
  <1>29. ASSUME NEW p \in Slots, ActivityPing(p) PROVE WorkerAccounting'
    BY <1>29 DEF ActivityPing, handle, WorkerComesWithDuel
  <1>30. ASSUME NEW p \in Slots, AnimationsDone(p) PROVE WorkerAccounting'
    BY <1>30 DEF AnimationsDone, handle, WorkerComesWithDuel
  <1>31. ASSUME NEW p \in Slots, AnimationsReady(p) PROVE WorkerAccounting'
    BY <1>31, ProceedWorker DEF AnimationsReady, WorkerComesWithDuel, TypeOK, Alive
  <1>32. CASE DuelCreated
    BY <1>32 DEF DuelCreated, Alive, WorkerComesWithDuel
  <1>33. CASE RetryLimit
    BY <1>33 DEF RetryLimit, Forfeit, Alive, WorkerComesWithDuel
  <1>34. CASE MsgWin
    BY <1>34 DEF MsgWin, Alive, WorkerComesWithDuel
  <1>35. CASE ReplayData
    BY <1>35 DEF ReplayData, CanEmitReplay, SafeTerminateWorker, StopThread, Alive,
       WorkerComesWithDuel, TypeOK
  <1>36. CASE WorkerError
    BY <1>36 DEF WorkerError, SafeTerminateWorker, StopThread, Alive, WorkerComesWithDuel,
       TypeOK
  <1>37. CASE WorkerExit
    BY <1>37 DEF WorkerExit, ExitCounted, CleanupDuelSession, SafeTerminateWorker, StopThread,
       Both, Alive, WorkerComesWithDuel, TypeOK
  <1>38. ASSUME NEW p \in Slots, Prompt(p) PROVE WorkerAccounting'
    BY <1>38 DEF Prompt, Alive, WorkerComesWithDuel
  <1>39. ASSUME NEW p \in Slots, TurnChange(p) PROVE WorkerAccounting'
    BY <1>39 DEF TurnChange, handle, WorkerComesWithDuel
  <1>40. ASSUME NEW d \in persisting, PersistSettled(d) PROVE WorkerAccounting'
    BY <1>40 DEF PersistSettled, SafeTerminateWorker, StopThread, Alive, WorkerComesWithDuel,
       TypeOK
  <1>41. CASE UNCHANGED vars
    BY <1>41 DEF vars, handle
  <1> QED
    BY <1>1, <1>2, <1>3, <1>4, <1>5, <1>6, <1>7, <1>8, <1>9, <1>10, <1>11, <1>12, <1>13, <1>14,
       <1>15, <1>16, <1>17, <1>18, <1>19, <1>20, <1>21, <1>22, <1>23, <1>24, <1>25, <1>26,
       <1>27, <1>28, <1>29, <1>30, <1>31, <1>32, <1>33, <1>34, <1>35, <1>36, <1>37, <1>38,
       <1>39, <1>40, <1>41
       DEF Next, Sockets, Expiry, DiceTimer, ClientMessage, WorkerMessage

\* A released session enables no action that would give it anything back.
LEMMA GoneStep ==
    ASSUME Inv, [Next]_vars
    PROVE  GoneIsQuiet'
  <1> USE DEF Inv, GoneIsQuiet
  <1>1. ASSUME NEW p \in Slots, Connect(p) PROVE GoneIsQuiet'
    BY <1>1 DEF Connect, Attach
  <1>2. ASSUME NEW p \in Slots, Reconnect(p) PROVE GoneIsQuiet'
    BY <1>2 DEF Reconnect, CanReconnect, Attach
  <1>3. ASSUME NEW p \in Slots, CollectStoredResult(p) PROVE GoneIsQuiet'
    BY <1>3 DEF CollectStoredResult, CleanupDuelSession, SafeTerminateWorker, Alive
  <1>4. ASSUME NEW p \in Slots, CloseLive(p) PROVE GoneIsQuiet'
    BY <1>4 DEF CloseLive
  <1>5. ASSUME NEW p \in Slots, CloseEnded(p) PROVE GoneIsQuiet'
    BY <1>5 DEF CloseEnded, CleanupDuelSession, SafeTerminateWorker, Both, Alive
  <1>6. CASE DeleteDuel
    BY <1>6 DEF DeleteDuel, CleanupDuelSession, SafeTerminateWorker, Alive
  <1>7. CASE ConnectionTimeout
    BY <1>7 DEF ConnectionTimeout, Spent, CleanupDuelSession, SafeTerminateWorker, handle,
       turn, Alive
  <1>8. CASE ForkConnectionTimeout
    BY <1>8 DEF ForkConnectionTimeout, Spent, CleanupDuelSession, SafeTerminateWorker, Alive
  <1>9. CASE AnimationsReadyTimeout
    BY <1>9 DEF AnimationsReadyTimeout, Spent, CleanupDuelSession, SafeTerminateWorker, Alive
  <1>10. CASE SoloOrphanTimeout
    BY <1>10 DEF SoloOrphanTimeout, Spent
  <1>11. CASE CombinedGraceTimeout
    BY <1>11 DEF CombinedGraceTimeout, Spent
  <1>12. CASE PreservationTimeout
    BY <1>12 DEF PreservationTimeout, CleanupDuelSession, SafeTerminateWorker, Alive
  <1>13. CASE RematchTimeout
    BY <1>13 DEF RematchTimeout, CleanupDuelSession, SafeTerminateWorker, Alive
  <1>14. CASE TurnTimeout
    BY <1>14 DEF TurnTimeout
  <1>15. CASE PendingTimeout
    BY <1>15 DEF PendingTimeout
  <1>16. ASSUME NEW t \in grace, GraceTimeout(t) PROVE GoneIsQuiet'
    BY <1>16 DEF GraceTimeout
  <1>17. ASSUME NEW t \in idle, IdleTimeout(t) PROVE GoneIsQuiet'
    BY <1>17 DEF IdleTimeout, turn
  <1>18. CASE AutoFillStalledRolls
    BY <1>18 DEF AutoFillStalledRolls
  <1>19. CASE TieReroll
    BY <1>19 DEF TieReroll
  <1>20. CASE PromoteToChooseFirstPlayer
    BY <1>20 DEF PromoteToChooseFirstPlayer
  <1>21. CASE FirstPlayerTimeout
    BY <1>21 DEF FirstPlayerTimeout, BroadcastFinalAndBridge
  <1>22. CASE BannerElapsed
    BY <1>22 DEF BannerElapsed
  <1>23. ASSUME NEW p \in Slots, RollDice(p) PROVE GoneIsQuiet'
    BY <1>23 DEF RollDice, Sender, Slots, Both
  <1>24. ASSUME NEW p \in Slots, ChooseFirstPlayer(p) PROVE GoneIsQuiet'
    BY <1>24 DEF ChooseFirstPlayer, Sender, BroadcastFinalAndBridge, Slots, Both
  <1>25. ASSUME NEW p \in Slots, PlayerResponse(p) PROVE GoneIsQuiet'
    BY <1>25 DEF PlayerResponse, PauseTurnTimer
  <1>26. ASSUME NEW p \in Slots, TooManyInvalidResponses(p) PROVE GoneIsQuiet'
    BY <1>26 DEF TooManyInvalidResponses, Forfeit, EndDuel, turn
  <1>27. ASSUME NEW p \in Slots, Surrender(p) PROVE GoneIsQuiet'
    BY <1>27 DEF Surrender, Forfeit, EndDuel, turn
  <1>28. ASSUME NEW p \in Slots, RematchRequest(p) PROVE GoneIsQuiet'
    BY <1>28 DEF RematchRequest, Sender, StartRematch, Both, Slots
  <1>29. ASSUME NEW p \in Slots, ActivityPing(p) PROVE GoneIsQuiet'
    BY <1>29 DEF ActivityPing, handle, turn
  <1>30. ASSUME NEW p \in Slots, AnimationsDone(p) PROVE GoneIsQuiet'
    BY <1>30 DEF AnimationsDone
  <1>31. ASSUME NEW p \in Slots, AnimationsReady(p) PROVE GoneIsQuiet'
    BY <1>31 DEF AnimationsReady, Sender, Slots, Both
  <1>32. CASE DuelCreated
    BY <1>32 DEF DuelCreated, Alive
  <1>33. CASE RetryLimit
    BY <1>33 DEF RetryLimit, Forfeit, Alive
  <1>34. CASE MsgWin
    BY <1>34 DEF MsgWin, Alive
  <1>35. CASE ReplayData
    BY <1>35 DEF ReplayData, CanEmitReplay, Alive
  <1>36. CASE WorkerError
    BY <1>36 DEF WorkerError, EndDuel, SafeTerminateWorker, turn
  <1>37. CASE WorkerExit
    BY <1>37 DEF WorkerExit, ExitCounted, CleanupDuelSession, SafeTerminateWorker, Alive
  <1>38. ASSUME NEW p \in Slots, Prompt(p) PROVE GoneIsQuiet'
    BY <1>38 DEF Prompt, Alive
  <1>39. ASSUME NEW p \in Slots, TurnChange(p) PROVE GoneIsQuiet'
    BY <1>39 DEF TurnChange
  <1>40. ASSUME NEW d \in persisting, PersistSettled(d) PROVE GoneIsQuiet'
    BY <1>40 DEF PersistSettled, SafeTerminateWorker, turn
  <1>41. CASE UNCHANGED vars
    BY <1>41 DEF vars, handle, turn
  <1> QED
    BY <1>1, <1>2, <1>3, <1>4, <1>5, <1>6, <1>7, <1>8, <1>9, <1>10, <1>11, <1>12, <1>13, <1>14,
       <1>15, <1>16, <1>17, <1>18, <1>19, <1>20, <1>21, <1>22, <1>23, <1>24, <1>25, <1>26,
       <1>27, <1>28, <1>29, <1>30, <1>31, <1>32, <1>33, <1>34, <1>35, <1>36, <1>37, <1>38,
       <1>39, <1>40, <1>41
       DEF Next, Sockets, Expiry, DiceTimer, ClientMessage, WorkerMessage

\* No path disarms the rematch expiry of an ended session.
LEMMA EndedStep ==
    ASSUME Inv, [Next]_vars
    PROVE  EndedSessionHasDeadline'
  <1> USE DEF Inv, EndedSessionHasDeadline
  <1>1. ASSUME NEW p \in Slots, Connect(p) PROVE EndedSessionHasDeadline'
    BY <1>1 DEF Connect, Attach, Proceed, StartDuelWithOrder, StartFirstPlayerPhase,
       DeadlineArmed
  <1>2. ASSUME NEW p \in Slots, Reconnect(p) PROVE EndedSessionHasDeadline'
    BY <1>2 DEF Reconnect, Attach, Proceed, StartDuelWithOrder, StartFirstPlayerPhase,
       DeadlineArmed
  <1>3. ASSUME NEW p \in Slots, CollectStoredResult(p) PROVE EndedSessionHasDeadline'
    BY <1>3 DEF CollectStoredResult, CleanupDuelSession
  <1>4. ASSUME NEW p \in Slots, CloseLive(p) PROVE EndedSessionHasDeadline'
    BY <1>4 DEF CloseLive
  <1>5. ASSUME NEW p \in Slots, CloseEnded(p) PROVE EndedSessionHasDeadline'
    BY <1>5 DEF CloseEnded, CleanupDuelSession
  <1>6. CASE DeleteDuel
    BY <1>6 DEF DeleteDuel, CleanupDuelSession
  <1>7. CASE ConnectionTimeout
    BY <1>7 DEF ConnectionTimeout, Spent, CleanupDuelSession
  <1>8. CASE ForkConnectionTimeout
    BY <1>8 DEF ForkConnectionTimeout, Spent, CleanupDuelSession
  <1>9. CASE AnimationsReadyTimeout
    BY <1>9 DEF AnimationsReadyTimeout, Spent, CleanupDuelSession
  <1>10. CASE SoloOrphanTimeout
    BY <1>10 DEF SoloOrphanTimeout, Spent, EndDuel
  <1>11. CASE CombinedGraceTimeout
    BY <1>11 DEF CombinedGraceTimeout, Spent, EndDuel
  <1>12. CASE PreservationTimeout
    BY <1>12 DEF PreservationTimeout, CleanupDuelSession
  <1>13. CASE RematchTimeout
    BY <1>13 DEF RematchTimeout, CleanupDuelSession
  <1>14. CASE TurnTimeout
    BY <1>14 DEF TurnTimeout, EndDuel
  <1>15. CASE PendingTimeout
    BY <1>15 DEF PendingTimeout
  <1>16. ASSUME NEW t \in grace, GraceTimeout(t) PROVE EndedSessionHasDeadline'
    BY <1>16 DEF GraceTimeout, EndDuel
  <1>17. ASSUME NEW t \in idle, IdleTimeout(t) PROVE EndedSessionHasDeadline'
    BY <1>17 DEF IdleTimeout, EndDuel
  <1>18. CASE AutoFillStalledRolls
    BY <1>18 DEF AutoFillStalledRolls, ResolveDiceRound
  <1>19. CASE TieReroll
    BY <1>19 DEF TieReroll, StartFirstPlayerPhase
  <1>20. CASE PromoteToChooseFirstPlayer
    BY <1>20 DEF PromoteToChooseFirstPlayer
  <1>21. CASE FirstPlayerTimeout
    BY <1>21 DEF FirstPlayerTimeout, BroadcastFinalAndBridge
  <1>22. CASE BannerElapsed
    BY <1>22 DEF BannerElapsed, StartDuelWithOrder
  <1>23. ASSUME NEW p \in Slots, RollDice(p) PROVE EndedSessionHasDeadline'
    BY <1>23 DEF RollDice, ResolveDiceRound
  <1>24. ASSUME NEW p \in Slots, ChooseFirstPlayer(p) PROVE EndedSessionHasDeadline'
    BY <1>24 DEF ChooseFirstPlayer, BroadcastFinalAndBridge
  <1>25. ASSUME NEW p \in Slots, PlayerResponse(p) PROVE EndedSessionHasDeadline'
    BY <1>25 DEF PlayerResponse
  <1>26. ASSUME NEW p \in Slots, TooManyInvalidResponses(p) PROVE EndedSessionHasDeadline'
    BY <1>26 DEF TooManyInvalidResponses, Forfeit, EndDuel
  <1>27. ASSUME NEW p \in Slots, Surrender(p) PROVE EndedSessionHasDeadline'
    BY <1>27 DEF Surrender, Forfeit, EndDuel
  <1>28. ASSUME NEW p \in Slots, RematchRequest(p) PROVE EndedSessionHasDeadline'
    BY <1>28 DEF RematchRequest, StartRematch
  <1>29. ASSUME NEW p \in Slots, ActivityPing(p) PROVE EndedSessionHasDeadline'
    BY <1>29 DEF ActivityPing
  <1>30. ASSUME NEW p \in Slots, AnimationsDone(p) PROVE EndedSessionHasDeadline'
    BY <1>30 DEF AnimationsDone
  <1>31. ASSUME NEW p \in Slots, AnimationsReady(p) PROVE EndedSessionHasDeadline'
    BY <1>31 DEF AnimationsReady, Proceed, StartDuelWithOrder, StartFirstPlayerPhase
  <1>32. CASE DuelCreated
    BY <1>32 DEF DuelCreated
  <1>33. CASE RetryLimit
    BY <1>33 DEF RetryLimit, Forfeit, EndDuel
  <1>34. CASE MsgWin
    BY <1>34 DEF MsgWin, EndDuel
  <1>35. CASE ReplayData
    BY <1>35 DEF ReplayData
  <1>36. CASE WorkerError
    BY <1>36 DEF WorkerError, EndDuel
  <1>37. CASE WorkerExit
    BY <1>37 DEF WorkerExit, ExitCounted, CleanupDuelSession
  <1>38. ASSUME NEW p \in Slots, Prompt(p) PROVE EndedSessionHasDeadline'
    BY <1>38 DEF Prompt
  <1>39. ASSUME NEW p \in Slots, TurnChange(p) PROVE EndedSessionHasDeadline'
    BY <1>39 DEF TurnChange
  <1>40. ASSUME NEW d \in persisting, PersistSettled(d) PROVE EndedSessionHasDeadline'
    BY <1>40 DEF PersistSettled
  <1>41. CASE UNCHANGED vars
    BY <1>41 DEF vars
  <1> QED
    BY <1>1, <1>2, <1>3, <1>4, <1>5, <1>6, <1>7, <1>8, <1>9, <1>10, <1>11, <1>12, <1>13, <1>14,
       <1>15, <1>16, <1>17, <1>18, <1>19, <1>20, <1>21, <1>22, <1>23, <1>24, <1>25, <1>26,
       <1>27, <1>28, <1>29, <1>30, <1>31, <1>32, <1>33, <1>34, <1>35, <1>36, <1>37, <1>38,
       <1>39, <1>40, <1>41
       DEF Next, Sockets, Expiry, DiceTimer, ClientMessage, WorkerMessage

\* Whoever leaves last, and whatever expires then, leaves a deadline.
LEMMA AbandonedStep ==
    ASSUME Inv, [Next]_vars
    PROVE  AbandonedBeforeStart'
  <1> USE DEF Inv, AbandonedBeforeStart
  <1>1. ASSUME NEW p \in Slots, Connect(p) PROVE AbandonedBeforeStart'
    <2>1. connected' = [connected EXCEPT ![p] = TRUE]
      BY <1>1, ProceedSockets DEF Connect, Attach
    <2>2. SoloMode => p = 0
      BY <1>1 DEF Connect, ModeFits
    <2> QED BY <2>1, <2>2 DEF AbandonedBeforeStart, FullyDisconnected, TypeOK, Slots
  <1>2. ASSUME NEW p \in Slots, Reconnect(p) PROVE AbandonedBeforeStart'
    <2>1. connected' = [connected EXCEPT ![p] = TRUE]
      BY <1>2, ProceedSockets DEF Reconnect, Attach
    <2>2. SoloMode => p = 0
      BY <1>2 DEF Reconnect, CanReconnect, ModeFits
    <2> QED BY <2>1, <2>2 DEF AbandonedBeforeStart, FullyDisconnected, TypeOK, Slots
  <1>3. ASSUME NEW p \in Slots, CollectStoredResult(p) PROVE AbandonedBeforeStart'
    BY <1>3 DEF CollectStoredResult, CleanupDuelSession
  <1>4. ASSUME NEW p \in Slots, CloseLive(p) PROVE AbandonedBeforeStart'
    BY <1>4 DEF CloseLive
  <1>5. ASSUME NEW p \in Slots, CloseEnded(p) PROVE AbandonedBeforeStart'
    BY <1>5 DEF CloseEnded, CleanupDuelSession
  <1>6. CASE DeleteDuel
    BY <1>6 DEF DeleteDuel, CleanupDuelSession
  <1>7. CASE ConnectionTimeout
    BY <1>7 DEF ConnectionTimeout, Spent, CleanupDuelSession
  <1>8. CASE ForkConnectionTimeout
    BY <1>8 DEF ForkConnectionTimeout, Spent, CleanupDuelSession
  <1>9. CASE AnimationsReadyTimeout
    BY <1>9 DEF AnimationsReadyTimeout, Spent, CleanupDuelSession
  <1>10. CASE SoloOrphanTimeout
    BY <1>10 DEF SoloOrphanTimeout, Spent, EndDuel
  <1>11. CASE CombinedGraceTimeout
    BY <1>11 DEF CombinedGraceTimeout, Spent, EndDuel
  <1>12. CASE PreservationTimeout
    BY <1>12 DEF PreservationTimeout, CleanupDuelSession
  <1>13. CASE RematchTimeout
    BY <1>13 DEF RematchTimeout, CleanupDuelSession
  <1>14. CASE TurnTimeout
    BY <1>14 DEF TurnTimeout, EndDuel
  <1>15. CASE PendingTimeout
    BY <1>15 DEF PendingTimeout
  <1>16. ASSUME NEW t \in grace, GraceTimeout(t) PROVE AbandonedBeforeStart'
    BY <1>16 DEF GraceTimeout, EndDuel
  <1>17. ASSUME NEW t \in idle, IdleTimeout(t) PROVE AbandonedBeforeStart'
    BY <1>17 DEF IdleTimeout, EndDuel
  <1>18. CASE AutoFillStalledRolls
    BY <1>18 DEF AutoFillStalledRolls, ResolveDiceRound
  <1>19. CASE TieReroll
    BY <1>19 DEF TieReroll, StartFirstPlayerPhase
  <1>20. CASE PromoteToChooseFirstPlayer
    BY <1>20 DEF PromoteToChooseFirstPlayer
  <1>21. CASE FirstPlayerTimeout
    BY <1>21 DEF FirstPlayerTimeout, BroadcastFinalAndBridge
  <1>22. CASE BannerElapsed
    BY <1>22 DEF BannerElapsed, StartDuelWithOrder, Slots, FullyDisconnected, Other, ModeFits
  <1>23. ASSUME NEW p \in Slots, RollDice(p) PROVE AbandonedBeforeStart'
    BY <1>23 DEF RollDice, ResolveDiceRound
  <1>24. ASSUME NEW p \in Slots, ChooseFirstPlayer(p) PROVE AbandonedBeforeStart'
    BY <1>24 DEF ChooseFirstPlayer, BroadcastFinalAndBridge
  <1>25. ASSUME NEW p \in Slots, PlayerResponse(p) PROVE AbandonedBeforeStart'
    BY <1>25 DEF PlayerResponse
  <1>26. ASSUME NEW p \in Slots, TooManyInvalidResponses(p) PROVE AbandonedBeforeStart'
    BY <1>26 DEF TooManyInvalidResponses, Forfeit, EndDuel
  <1>27. ASSUME NEW p \in Slots, Surrender(p) PROVE AbandonedBeforeStart'
    BY <1>27 DEF Surrender, Forfeit, EndDuel
  <1>28. ASSUME NEW p \in Slots, RematchRequest(p) PROVE AbandonedBeforeStart'
    BY <1>28 DEF RematchRequest, Sender, StartRematch, FullyDisconnected
  <1>29. ASSUME NEW p \in Slots, ActivityPing(p) PROVE AbandonedBeforeStart'
    BY <1>29 DEF ActivityPing
  <1>30. ASSUME NEW p \in Slots, AnimationsDone(p) PROVE AbandonedBeforeStart'
    BY <1>30 DEF AnimationsDone
  <1>31. ASSUME NEW p \in Slots, AnimationsReady(p) PROVE AbandonedBeforeStart'
    BY <1>31, ProceedTimers, ProceedSockets DEF AnimationsReady, Sender, FullyDisconnected
  <1>32. CASE DuelCreated
    BY <1>32 DEF DuelCreated, WorkerComesWithDuel
  <1>33. CASE RetryLimit
    BY <1>33 DEF RetryLimit, Forfeit, EndDuel
  <1>34. CASE MsgWin
    BY <1>34 DEF MsgWin, EndDuel
  <1>35. CASE ReplayData
    BY <1>35 DEF ReplayData
  <1>36. CASE WorkerError
    BY <1>36 DEF WorkerError, EndDuel
  <1>37. CASE WorkerExit
    BY <1>37 DEF WorkerExit, ExitCounted, CleanupDuelSession
  <1>38. ASSUME NEW p \in Slots, Prompt(p) PROVE AbandonedBeforeStart'
    BY <1>38 DEF Prompt
  <1>39. ASSUME NEW p \in Slots, TurnChange(p) PROVE AbandonedBeforeStart'
    BY <1>39 DEF TurnChange
  <1>40. ASSUME NEW d \in persisting, PersistSettled(d) PROVE AbandonedBeforeStart'
    BY <1>40 DEF PersistSettled
  <1>41. CASE UNCHANGED vars
    BY <1>41 DEF vars
  <1> QED
    BY <1>1, <1>2, <1>3, <1>4, <1>5, <1>6, <1>7, <1>8, <1>9, <1>10, <1>11, <1>12, <1>13, <1>14,
       <1>15, <1>16, <1>17, <1>18, <1>19, <1>20, <1>21, <1>22, <1>23, <1>24, <1>25, <1>26,
       <1>27, <1>28, <1>29, <1>30, <1>31, <1>32, <1>33, <1>34, <1>35, <1>36, <1>37, <1>38,
       <1>39, <1>40, <1>41
       DEF Next, Sockets, Expiry, DiceTimer, ClientMessage, WorkerMessage

\* A dice phase keeps its timer, the other phases have none.
LEMMA DiceStep ==
    ASSUME Inv, [Next]_vars
    PROVE  DicePhaseHasTimer'
  <1> USE DEF Inv, DicePhaseHasTimer
  <1>1. ASSUME NEW p \in Slots, Connect(p) PROVE DicePhaseHasTimer'
    BY <1>1, ProceedTimers DEF Connect, Attach, DeadlineArmed
  <1>2. ASSUME NEW p \in Slots, Reconnect(p) PROVE DicePhaseHasTimer'
    BY <1>2, ProceedTimers DEF Reconnect, Attach, DeadlineArmed
  <1>3. ASSUME NEW p \in Slots, CollectStoredResult(p) PROVE DicePhaseHasTimer'
    BY <1>3 DEF CollectStoredResult, CleanupDuelSession
  <1>4. ASSUME NEW p \in Slots, CloseLive(p) PROVE DicePhaseHasTimer'
    BY <1>4 DEF CloseLive
  <1>5. ASSUME NEW p \in Slots, CloseEnded(p) PROVE DicePhaseHasTimer'
    BY <1>5 DEF CloseEnded, CleanupDuelSession
  <1>6. CASE DeleteDuel
    BY <1>6 DEF DeleteDuel, CleanupDuelSession
  <1>7. CASE ConnectionTimeout
    BY <1>7 DEF ConnectionTimeout, Spent, CleanupDuelSession
  <1>8. CASE ForkConnectionTimeout
    BY <1>8 DEF ForkConnectionTimeout, Spent, CleanupDuelSession
  <1>9. CASE AnimationsReadyTimeout
    BY <1>9 DEF AnimationsReadyTimeout, Spent, CleanupDuelSession
  <1>10. CASE SoloOrphanTimeout
    <2>1. "dice" \in timers' <=> "dice" \in timers
      BY <1>10 DEF SoloOrphanTimeout, Spent, EndDuel, DuelTimers
    <2>2. UNCHANGED <<registered, phase>>
      BY <1>10 DEF SoloOrphanTimeout, Spent
    <2> QED BY <2>1, <2>2 DEF DicePhaseHasTimer
  <1>11. CASE CombinedGraceTimeout
    <2>1. "dice" \in timers' <=> "dice" \in timers
      BY <1>11 DEF CombinedGraceTimeout, Spent, EndDuel, DuelTimers
    <2>2. UNCHANGED <<registered, phase>>
      BY <1>11 DEF CombinedGraceTimeout, Spent
    <2> QED BY <2>1, <2>2 DEF DicePhaseHasTimer
  <1>12. CASE PreservationTimeout
    BY <1>12 DEF PreservationTimeout, CleanupDuelSession
  <1>13. CASE RematchTimeout
    BY <1>13 DEF RematchTimeout, CleanupDuelSession
  <1>14. CASE TurnTimeout
    BY <1>14 DEF TurnTimeout, EndDuel, DuelTimers
  <1>15. CASE PendingTimeout
    BY <1>15 DEF PendingTimeout
  <1>16. ASSUME NEW t \in grace, GraceTimeout(t) PROVE DicePhaseHasTimer'
    BY <1>16 DEF GraceTimeout, EndDuel, DuelTimers
  <1>17. ASSUME NEW t \in idle, IdleTimeout(t) PROVE DicePhaseHasTimer'
    BY <1>17 DEF IdleTimeout, EndDuel, DuelTimers
  <1>18. CASE AutoFillStalledRolls
    BY <1>18 DEF AutoFillStalledRolls, ResolveDiceRound
  <1>19. CASE TieReroll
    BY <1>19 DEF TieReroll, StartFirstPlayerPhase
  <1>20. CASE PromoteToChooseFirstPlayer
    BY <1>20 DEF PromoteToChooseFirstPlayer
  <1>21. CASE FirstPlayerTimeout
    BY <1>21 DEF FirstPlayerTimeout, BroadcastFinalAndBridge
  <1>22. CASE BannerElapsed
    BY <1>22 DEF BannerElapsed, StartDuelWithOrder
  <1>23. ASSUME NEW p \in Slots, RollDice(p) PROVE DicePhaseHasTimer'
    BY <1>23 DEF RollDice, ResolveDiceRound
  <1>24. ASSUME NEW p \in Slots, ChooseFirstPlayer(p) PROVE DicePhaseHasTimer'
    BY <1>24 DEF ChooseFirstPlayer, BroadcastFinalAndBridge
  <1>25. ASSUME NEW p \in Slots, PlayerResponse(p) PROVE DicePhaseHasTimer'
    BY <1>25 DEF PlayerResponse
  <1>26. ASSUME NEW p \in Slots, TooManyInvalidResponses(p) PROVE DicePhaseHasTimer'
    BY <1>26 DEF TooManyInvalidResponses, Forfeit, EndDuel, DuelTimers
  <1>27. ASSUME NEW p \in Slots, Surrender(p) PROVE DicePhaseHasTimer'
    BY <1>27 DEF Surrender, Forfeit, EndDuel, DuelTimers
  <1>28. ASSUME NEW p \in Slots, RematchRequest(p) PROVE DicePhaseHasTimer'
    BY <1>28 DEF RematchRequest, StartRematch, DeadlineArmed
  <1>29. ASSUME NEW p \in Slots, ActivityPing(p) PROVE DicePhaseHasTimer'
    BY <1>29 DEF ActivityPing
  <1>30. ASSUME NEW p \in Slots, AnimationsDone(p) PROVE DicePhaseHasTimer'
    BY <1>30 DEF AnimationsDone
  <1>31. ASSUME NEW p \in Slots, AnimationsReady(p) PROVE DicePhaseHasTimer'
    BY <1>31, ProceedTimers DEF AnimationsReady
  <1>32. CASE DuelCreated
    BY <1>32 DEF DuelCreated
  <1>33. CASE RetryLimit
    BY <1>33 DEF RetryLimit, Forfeit, EndDuel, DuelTimers
  <1>34. CASE MsgWin
    BY <1>34 DEF MsgWin, EndDuel, DuelTimers
  <1>35. CASE ReplayData
    BY <1>35 DEF ReplayData
  <1>36. CASE WorkerError
    BY <1>36 DEF WorkerError, EndDuel, DuelTimers
  <1>37. CASE WorkerExit
    BY <1>37 DEF WorkerExit, ExitCounted, CleanupDuelSession
  <1>38. ASSUME NEW p \in Slots, Prompt(p) PROVE DicePhaseHasTimer'
    BY <1>38 DEF Prompt
  <1>39. ASSUME NEW p \in Slots, TurnChange(p) PROVE DicePhaseHasTimer'
    BY <1>39 DEF TurnChange
  <1>40. ASSUME NEW d \in persisting, PersistSettled(d) PROVE DicePhaseHasTimer'
    BY <1>40 DEF PersistSettled
  <1>41. CASE UNCHANGED vars
    BY <1>41 DEF vars
  <1> QED
    BY <1>1, <1>2, <1>3, <1>4, <1>5, <1>6, <1>7, <1>8, <1>9, <1>10, <1>11, <1>12, <1>13, <1>14,
       <1>15, <1>16, <1>17, <1>18, <1>19, <1>20, <1>21, <1>22, <1>23, <1>24, <1>25, <1>26,
       <1>27, <1>28, <1>29, <1>30, <1>31, <1>32, <1>33, <1>34, <1>35, <1>36, <1>37, <1>38,
       <1>39, <1>40, <1>41
       DEF Next, Sockets, Expiry, DiceTimer, ClientMessage, WorkerMessage

\* The last of the handshake, ANIMATIONS_READY and rematch starts the duel.
LEMMA GateStep ==
    ASSUME Inv, [Next]_vars
    PROVE  GateNeverWedges'
  <1> USE DEF Inv, GateNeverWedges
  <1>1. ASSUME NEW p \in Slots, Connect(p) PROVE GateNeverWedges'
    BY <1>1 DEF Connect, Attach, Proceed, StartDuelWithOrder, StartFirstPlayerPhase, ModeFits
  <1>2. ASSUME NEW p \in Slots, Reconnect(p) PROVE GateNeverWedges'
    BY <1>2 DEF Reconnect, Attach, Proceed, StartDuelWithOrder, StartFirstPlayerPhase, ModeFits
  <1>3. ASSUME NEW p \in Slots, CollectStoredResult(p) PROVE GateNeverWedges'
    BY <1>3 DEF CollectStoredResult, CleanupDuelSession
  <1>4. ASSUME NEW p \in Slots, CloseLive(p) PROVE GateNeverWedges'
    BY <1>4 DEF CloseLive, ReadyToStart
  <1>5. ASSUME NEW p \in Slots, CloseEnded(p) PROVE GateNeverWedges'
    BY <1>5 DEF CloseEnded, CleanupDuelSession, Slots, ReadyToStart, TypeOK
  <1>6. CASE DeleteDuel
    BY <1>6 DEF DeleteDuel, CleanupDuelSession
  <1>7. CASE ConnectionTimeout
    BY <1>7 DEF ConnectionTimeout, Spent, CleanupDuelSession
  <1>8. CASE ForkConnectionTimeout
    BY <1>8 DEF ForkConnectionTimeout, Spent, CleanupDuelSession
  <1>9. CASE AnimationsReadyTimeout
    BY <1>9 DEF AnimationsReadyTimeout, Spent, CleanupDuelSession
  <1>10. CASE SoloOrphanTimeout
    BY <1>10 DEF SoloOrphanTimeout, Spent
  <1>11. CASE CombinedGraceTimeout
    BY <1>11 DEF CombinedGraceTimeout, Spent
  <1>12. CASE PreservationTimeout
    BY <1>12 DEF PreservationTimeout, CleanupDuelSession
  <1>13. CASE RematchTimeout
    BY <1>13 DEF RematchTimeout, CleanupDuelSession
  <1>14. CASE TurnTimeout
    BY <1>14 DEF TurnTimeout
  <1>15. CASE PendingTimeout
    BY <1>15 DEF PendingTimeout
  <1>16. ASSUME NEW t \in grace, GraceTimeout(t) PROVE GateNeverWedges'
    BY <1>16 DEF GraceTimeout
  <1>17. ASSUME NEW t \in idle, IdleTimeout(t) PROVE GateNeverWedges'
    BY <1>17 DEF IdleTimeout
  <1>18. CASE AutoFillStalledRolls
    BY <1>18 DEF AutoFillStalledRolls, ResolveDiceRound
  <1>19. CASE TieReroll
    BY <1>19 DEF TieReroll, StartFirstPlayerPhase
  <1>20. CASE PromoteToChooseFirstPlayer
    BY <1>20 DEF PromoteToChooseFirstPlayer
  <1>21. CASE FirstPlayerTimeout
    BY <1>21 DEF FirstPlayerTimeout, BroadcastFinalAndBridge
  <1>22. CASE BannerElapsed
    BY <1>22 DEF BannerElapsed, StartDuelWithOrder
  <1>23. ASSUME NEW p \in Slots, RollDice(p) PROVE GateNeverWedges'
    BY <1>23 DEF RollDice, ResolveDiceRound
  <1>24. ASSUME NEW p \in Slots, ChooseFirstPlayer(p) PROVE GateNeverWedges'
    BY <1>24 DEF ChooseFirstPlayer, BroadcastFinalAndBridge
  <1>25. ASSUME NEW p \in Slots, PlayerResponse(p) PROVE GateNeverWedges'
    BY <1>25 DEF PlayerResponse
  <1>26. ASSUME NEW p \in Slots, TooManyInvalidResponses(p) PROVE GateNeverWedges'
    BY <1>26 DEF TooManyInvalidResponses, Forfeit
  <1>27. ASSUME NEW p \in Slots, Surrender(p) PROVE GateNeverWedges'
    BY <1>27 DEF Surrender, Forfeit
  <1>28. ASSUME NEW p \in Slots, RematchRequest(p) PROVE GateNeverWedges'
    BY <1>28 DEF RematchRequest, StartRematch, ReadyForRematch, Both, Slots, ReadyToStart
  <1>29. ASSUME NEW p \in Slots, ActivityPing(p) PROVE GateNeverWedges'
    BY <1>29 DEF ActivityPing
  <1>30. ASSUME NEW p \in Slots, AnimationsDone(p) PROVE GateNeverWedges'
    BY <1>30 DEF AnimationsDone
  <1>31. ASSUME NEW p \in Slots, AnimationsReady(p) PROVE GateNeverWedges'
    BY <1>31 DEF AnimationsReady, Proceed, StartDuelWithOrder, StartFirstPlayerPhase, ModeFits
  <1>32. CASE DuelCreated
    BY <1>32 DEF DuelCreated
  <1>33. CASE RetryLimit
    BY <1>33 DEF RetryLimit, Forfeit
  <1>34. CASE MsgWin
    BY <1>34 DEF MsgWin
  <1>35. CASE ReplayData
    BY <1>35 DEF ReplayData
  <1>36. CASE WorkerError
    BY <1>36 DEF WorkerError
  <1>37. CASE WorkerExit
    BY <1>37 DEF WorkerExit, ExitCounted, CleanupDuelSession
  <1>38. ASSUME NEW p \in Slots, Prompt(p) PROVE GateNeverWedges'
    BY <1>38 DEF Prompt
  <1>39. ASSUME NEW p \in Slots, TurnChange(p) PROVE GateNeverWedges'
    BY <1>39 DEF TurnChange
  <1>40. ASSUME NEW d \in persisting, PersistSettled(d) PROVE GateNeverWedges'
    BY <1>40 DEF PersistSettled
  <1>41. CASE UNCHANGED vars
    BY <1>41 DEF vars
  <1> QED
    BY <1>1, <1>2, <1>3, <1>4, <1>5, <1>6, <1>7, <1>8, <1>9, <1>10, <1>11, <1>12, <1>13, <1>14,
       <1>15, <1>16, <1>17, <1>18, <1>19, <1>20, <1>21, <1>22, <1>23, <1>24, <1>25, <1>26,
       <1>27, <1>28, <1>29, <1>30, <1>31, <1>32, <1>33, <1>34, <1>35, <1>36, <1>37, <1>38,
       <1>39, <1>40, <1>41
       DEF Next, Sockets, Expiry, DiceTimer, ClientMessage, WorkerMessage

\* Every step is a step of SessionLifecycle or changes nothing of it.
LEMMA LifecycleStep ==
    ASSUME Inv, [Next]_vars
    PROVE  [Lifecycle!LNext]_(Lifecycle!lvars)
  <1> USE DEF Inv, Status, Thread, Lifecycle!LNext, Lifecycle!lvars
  <1>1. ASSUME NEW p \in Slots, Connect(p) PROVE [Lifecycle!LNext]_(Lifecycle!lvars)
    BY <1>1, ProceedWorker DEF Connect, Attach, Lifecycle!Start, WorkerComesWithDuel, Alive
  <1>2. ASSUME NEW p \in Slots, Reconnect(p) PROVE [Lifecycle!LNext]_(Lifecycle!lvars)
    BY <1>2, ProceedWorker DEF Reconnect, CanReconnect, Attach, Lifecycle!Start,
       WorkerComesWithDuel, Alive
  <1>3. ASSUME NEW p \in Slots, CollectStoredResult(p) PROVE [Lifecycle!LNext]_(Lifecycle!lvars)
    BY <1>3 DEF CollectStoredResult, CanReconnect, CleanupDuelSession, SafeTerminateWorker,
       Alive, Lifecycle!Release
  <1>4. ASSUME NEW p \in Slots, CloseLive(p) PROVE [Lifecycle!LNext]_(Lifecycle!lvars)
    BY <1>4 DEF CloseLive, handle
  <1>5. ASSUME NEW p \in Slots, CloseEnded(p) PROVE [Lifecycle!LNext]_(Lifecycle!lvars)
    BY <1>5 DEF CloseEnded, CleanupDuelSession, SafeTerminateWorker, Both, handle, Alive,
       Lifecycle!Release, GoneIsQuiet
  <1>6. CASE DeleteDuel
    BY <1>6 DEF DeleteDuel, CleanupDuelSession, SafeTerminateWorker, Alive, Lifecycle!Release
  <1>7. CASE ConnectionTimeout
    BY <1>7 DEF ConnectionTimeout, Spent, CleanupDuelSession, SafeTerminateWorker, Both,
       handle, Alive, Lifecycle!Release
  <1>8. CASE ForkConnectionTimeout
    BY <1>8 DEF ForkConnectionTimeout, Spent, CleanupDuelSession, SafeTerminateWorker, Both,
       handle, Alive, Lifecycle!Release, GoneIsQuiet
  <1>9. CASE AnimationsReadyTimeout
    BY <1>9 DEF AnimationsReadyTimeout, Spent, CleanupDuelSession, SafeTerminateWorker, Both,
       handle, Alive, Lifecycle!Release
  <1>10. CASE SoloOrphanTimeout
    BY <1>10 DEF SoloOrphanTimeout, Spent, handle, Lifecycle!End
  <1>11. CASE CombinedGraceTimeout
    BY <1>11 DEF CombinedGraceTimeout, Spent, handle, Lifecycle!End
  <1>12. CASE PreservationTimeout
    BY <1>12 DEF PreservationTimeout, CleanupDuelSession, SafeTerminateWorker, Alive,
       Lifecycle!Release, GoneIsQuiet
  <1>13. CASE RematchTimeout
    BY <1>13 DEF RematchTimeout, CleanupDuelSession, SafeTerminateWorker, Alive,
       Lifecycle!Release, GoneIsQuiet
  <1>14. CASE TurnTimeout
    BY <1>14 DEF TurnTimeout
  <1>15. CASE PendingTimeout
    BY <1>15 DEF PendingTimeout, handle
  <1>16. ASSUME NEW t \in grace, GraceTimeout(t) PROVE [Lifecycle!LNext]_(Lifecycle!lvars)
    BY <1>16 DEF GraceTimeout
  <1>17. ASSUME NEW t \in idle, IdleTimeout(t) PROVE [Lifecycle!LNext]_(Lifecycle!lvars)
    BY <1>17 DEF IdleTimeout
  <1>18. CASE AutoFillStalledRolls
    BY <1>18 DEF AutoFillStalledRolls, handle
  <1>19. CASE TieReroll
    BY <1>19 DEF TieReroll, handle
  <1>20. CASE PromoteToChooseFirstPlayer
    BY <1>20 DEF PromoteToChooseFirstPlayer, handle
  <1>21. CASE FirstPlayerTimeout
    BY <1>21 DEF FirstPlayerTimeout, BroadcastFinalAndBridge, handle
  <1>22. CASE BannerElapsed
    BY <1>22 DEF BannerElapsed, StartDuelWithOrder, Alive, Lifecycle!Start, GoneIsQuiet,
       WorkerComesWithDuel
  <1>23. ASSUME NEW p \in Slots, RollDice(p) PROVE [Lifecycle!LNext]_(Lifecycle!lvars)
    BY <1>23 DEF RollDice, handle
  <1>24. ASSUME NEW p \in Slots, ChooseFirstPlayer(p) PROVE [Lifecycle!LNext]_(Lifecycle!lvars)
    BY <1>24 DEF ChooseFirstPlayer, BroadcastFinalAndBridge, handle
  <1>25. ASSUME NEW p \in Slots, PlayerResponse(p) PROVE [Lifecycle!LNext]_(Lifecycle!lvars)
    BY <1>25 DEF PlayerResponse, Alive
  <1>26. ASSUME NEW p \in Slots,
       TooManyInvalidResponses(p) PROVE [Lifecycle!LNext]_(Lifecycle!lvars)
    BY <1>26 DEF TooManyInvalidResponses, Forfeit
  <1>27. ASSUME NEW p \in Slots, Surrender(p) PROVE [Lifecycle!LNext]_(Lifecycle!lvars)
    BY <1>27 DEF Surrender, Forfeit
  <1>28. ASSUME NEW p \in Slots, RematchRequest(p) PROVE [Lifecycle!LNext]_(Lifecycle!lvars)
    BY <1>28 DEF RematchRequest, Sender, StartRematch, Both, handle, Slots, Lifecycle!Rematch,
       GoneIsQuiet
  <1>29. ASSUME NEW p \in Slots, ActivityPing(p) PROVE [Lifecycle!LNext]_(Lifecycle!lvars)
    BY <1>29 DEF ActivityPing, handle
  <1>30. ASSUME NEW p \in Slots, AnimationsDone(p) PROVE [Lifecycle!LNext]_(Lifecycle!lvars)
    BY <1>30 DEF AnimationsDone, handle
  <1>31. ASSUME NEW p \in Slots, AnimationsReady(p) PROVE [Lifecycle!LNext]_(Lifecycle!lvars)
    <2>1. registered
      BY <1>31 DEF AnimationsReady, Sender, GoneIsQuiet, Both, Slots
    <2>2. /\ UNCHANGED <<registered, ended, duel>>
          /\ \E t : Proceed(connected, [ready EXCEPT ![p] = TRUE], t, grace, idle)
      BY <1>31 DEF AnimationsReady
    <2> QED BY <2>1, <2>2, ProceedWorker
            DEF Status, Thread, Lifecycle!LNext, Lifecycle!lvars, Lifecycle!Start,
                WorkerComesWithDuel, Alive
  <1>32. CASE DuelCreated
    BY <1>32 DEF DuelCreated, Alive
  <1>33. CASE RetryLimit
    BY <1>33 DEF RetryLimit, Forfeit, Alive
  <1>34. CASE MsgWin
    BY <1>34 DEF MsgWin, Alive
  <1>35. CASE ReplayData
    BY <1>35 DEF ReplayData, CanEmitReplay, SafeTerminateWorker, Alive, Lifecycle!ThreadEnds,
       GoneIsQuiet
  <1>36. CASE WorkerError
    BY <1>36 DEF WorkerError, EndDuel, SafeTerminateWorker, Lifecycle!End,
       Lifecycle!ThreadEnds, GoneIsQuiet
  <1>37. CASE WorkerExit
    BY <1>37 DEF WorkerExit, ExitCounted, CleanupDuelSession, SafeTerminateWorker, Both, Alive,
       Lifecycle!ThreadEnds, Lifecycle!Release, GoneIsQuiet
  <1>38. ASSUME NEW p \in Slots, Prompt(p) PROVE [Lifecycle!LNext]_(Lifecycle!lvars)
    BY <1>38 DEF Prompt, Alive
  <1>39. ASSUME NEW p \in Slots, TurnChange(p) PROVE [Lifecycle!LNext]_(Lifecycle!lvars)
    BY <1>39 DEF TurnChange, handle
  <1>40. ASSUME NEW d \in persisting,
       PersistSettled(d) PROVE [Lifecycle!LNext]_(Lifecycle!lvars)
    BY <1>40 DEF PersistSettled, SafeTerminateWorker, Alive, Lifecycle!ThreadEnds, GoneIsQuiet
  <1>41. CASE UNCHANGED vars
    BY <1>41 DEF vars, handle
  <1> QED
    BY <1>1, <1>2, <1>3, <1>4, <1>5, <1>6, <1>7, <1>8, <1>9, <1>10, <1>11, <1>12, <1>13, <1>14,
       <1>15, <1>16, <1>17, <1>18, <1>19, <1>20, <1>21, <1>22, <1>23, <1>24, <1>25, <1>26,
       <1>27, <1>28, <1>29, <1>30, <1>31, <1>32, <1>33, <1>34, <1>35, <1>36, <1>37, <1>38,
       <1>39, <1>40, <1>41
       DEF Next, Sockets, Expiry, DiceTimer, ClientMessage, WorkerMessage

\* What a handshake and onAnimationsReady leave of the worker.
LEMMA ProceedHandle ==
    ASSUME NEW c, NEW r, NEW t, NEW g, NEW i, Proceed(c, r, t, g, i)
    PROVE  /\ asked' = asked \/ ~asked'
           /\ \/ UNCHANGED <<phase, worker>>
              \/ phase' = "ROLLING_DICE" /\ UNCHANGED worker
              \/ phase' = "DUELING" /\ worker' = "booting"
              \/ worker = "forked" /\ worker' = "thinking" /\ UNCHANGED phase
  BY DEF Proceed, StartDuelWithOrder, StartFirstPlayerPhase, handle

\* The first duel, until it ends, has a worker at work and no replay behind it; a fork has no
\* other duel.
LEMMA FirstDuelStep ==
    ASSUME Inv, FirstDuelLives, [Next]_vars
    PROVE  FirstDuelLives'
  <1> USE DEF Inv, FirstDuelLives
  <1>1. ASSUME NEW p \in Slots, Connect(p) PROVE FirstDuelLives'
    BY <1>1, ProceedHandle DEF Connect, Attach, replay
  <1>2. ASSUME NEW p \in Slots, Reconnect(p) PROVE FirstDuelLives'
    BY <1>2, ProceedHandle DEF Reconnect, Attach, replay
  <1>3. ASSUME NEW p \in Slots, CollectStoredResult(p) PROVE FirstDuelLives'
    BY <1>3 DEF CollectStoredResult, CleanupDuelSession
  <1>4. ASSUME NEW p \in Slots, CloseLive(p) PROVE FirstDuelLives'
    BY <1>4 DEF CloseLive, handle, replay
  <1>5. ASSUME NEW p \in Slots, CloseEnded(p) PROVE FirstDuelLives'
    BY <1>5 DEF CloseEnded, CleanupDuelSession, handle, replay
  <1>6. CASE DeleteDuel
    BY <1>6 DEF DeleteDuel, CleanupDuelSession
  <1>7. CASE ConnectionTimeout
    BY <1>7 DEF ConnectionTimeout, Spent, CleanupDuelSession, handle, replay
  <1>8. CASE ForkConnectionTimeout
    BY <1>8 DEF ForkConnectionTimeout, Spent, CleanupDuelSession, handle, replay
  <1>9. CASE AnimationsReadyTimeout
    BY <1>9 DEF AnimationsReadyTimeout, Spent, CleanupDuelSession, handle, replay
  <1>10. CASE SoloOrphanTimeout
    BY <1>10 DEF SoloOrphanTimeout, Spent, EndDuel, handle, replay
  <1>11. CASE CombinedGraceTimeout
    BY <1>11 DEF CombinedGraceTimeout, Spent, EndDuel, handle, replay
  <1>12. CASE PreservationTimeout
    BY <1>12 DEF PreservationTimeout, CleanupDuelSession
  <1>13. CASE RematchTimeout
    BY <1>13 DEF RematchTimeout, CleanupDuelSession
  <1>14. CASE TurnTimeout
    BY <1>14 DEF TurnTimeout, EndDuel
  <1>15. CASE PendingTimeout
    BY <1>15 DEF PendingTimeout, handle, replay
  <1>16. ASSUME NEW t \in grace, GraceTimeout(t) PROVE FirstDuelLives'
    BY <1>16 DEF GraceTimeout, EndDuel
  <1>17. ASSUME NEW t \in idle, IdleTimeout(t) PROVE FirstDuelLives'
    BY <1>17 DEF IdleTimeout, EndDuel
  <1>18. CASE AutoFillStalledRolls
    BY <1>18 DEF AutoFillStalledRolls, ResolveDiceRound, handle, replay
  <1>19. CASE TieReroll
    BY <1>19 DEF TieReroll, StartFirstPlayerPhase, handle, replay
  <1>20. CASE PromoteToChooseFirstPlayer
    BY <1>20 DEF PromoteToChooseFirstPlayer, handle, replay
  <1>21. CASE FirstPlayerTimeout
    BY <1>21 DEF FirstPlayerTimeout, BroadcastFinalAndBridge, handle, replay
  <1>22. CASE BannerElapsed
    BY <1>22 DEF BannerElapsed, StartDuelWithOrder, replay
  <1>23. ASSUME NEW p \in Slots, RollDice(p) PROVE FirstDuelLives'
    BY <1>23 DEF RollDice, ResolveDiceRound, handle, replay
  <1>24. ASSUME NEW p \in Slots, ChooseFirstPlayer(p) PROVE FirstDuelLives'
    BY <1>24 DEF ChooseFirstPlayer, BroadcastFinalAndBridge, handle, replay
  <1>25. ASSUME NEW p \in Slots, PlayerResponse(p) PROVE FirstDuelLives'
    BY <1>25 DEF PlayerResponse, replay
  <1>26. ASSUME NEW p \in Slots, TooManyInvalidResponses(p) PROVE FirstDuelLives'
    BY <1>26 DEF TooManyInvalidResponses, Forfeit, EndDuel
  <1>27. ASSUME NEW p \in Slots, Surrender(p) PROVE FirstDuelLives'
    BY <1>27 DEF Surrender, Forfeit, EndDuel
  <1>28. ASSUME NEW p \in Slots, RematchRequest(p) PROVE FirstDuelLives'
    <2>1. duel \in 1..MaxDuels
      BY DEF TypeOK
    <2>2. CASE StartRematch
      <3>1. duel' = duel + 1 /\ ~ForkMode
        BY <1>28, <2>2 DEF StartRematch, RematchRequest
      <3>2. duel' # 1
        BY <2>1, <3>1, DuelsAssumption
      <3>3. QED BY <3>1, <3>2
    <2>3. CASE ~StartRematch
      BY <1>28, <2>3 DEF RematchRequest, handle, replay
    <2>4. QED BY <2>2, <2>3
  <1>29. ASSUME NEW p \in Slots, ActivityPing(p) PROVE FirstDuelLives'
    BY <1>29 DEF ActivityPing, handle, replay
  <1>30. ASSUME NEW p \in Slots, AnimationsDone(p) PROVE FirstDuelLives'
    BY <1>30 DEF AnimationsDone, handle, replay
  <1>31. ASSUME NEW p \in Slots, AnimationsReady(p) PROVE FirstDuelLives'
    BY <1>31, ProceedHandle DEF AnimationsReady, replay
  <1>32. CASE DuelCreated
    BY <1>32 DEF DuelCreated, replay
  <1>33. CASE RetryLimit
    BY <1>33 DEF RetryLimit, Forfeit, EndDuel
  <1>34. CASE MsgWin
    BY <1>34 DEF MsgWin, EndDuel
  <1>35. CASE ReplayData
    BY <1>35 DEF ReplayData, CanEmitReplay, WorkerComesWithDuel
  <1>36. CASE WorkerError
    BY <1>36 DEF WorkerError, EndDuel
  <1>37. CASE WorkerExit
    <2>1. CASE ended /\ ExitCounted
      BY <2>1 DEF ExitCounted
    <2>2. CASE CleanupDuelSession
      BY <2>2 DEF CleanupDuelSession
    <2>3. QED BY <1>37, <2>1, <2>2 DEF WorkerExit
  <1>38. ASSUME NEW p \in Slots, Prompt(p) PROVE FirstDuelLives'
    BY <1>38 DEF Prompt, replay
  <1>39. ASSUME NEW p \in Slots, TurnChange(p) PROVE FirstDuelLives'
    BY <1>39 DEF TurnChange, handle, replay
  <1>40. ASSUME NEW d \in persisting, PersistSettled(d) PROVE FirstDuelLives'
    BY <1>40 DEF PersistSettled
  <1>41. CASE UNCHANGED vars
    BY <1>41 DEF vars
  <1> QED
    BY <1>1, <1>2, <1>3, <1>4, <1>5, <1>6, <1>7, <1>8, <1>9, <1>10, <1>11, <1>12, <1>13, <1>14,
       <1>15, <1>16, <1>17, <1>18, <1>19, <1>20, <1>21, <1>22, <1>23, <1>24, <1>25, <1>26,
       <1>27, <1>28, <1>29, <1>30, <1>31, <1>32, <1>33, <1>34, <1>35, <1>36, <1>37, <1>38,
       <1>39, <1>40, <1>41
       DEF Next, Sockets, Expiry, DiceTimer, ClientMessage, WorkerMessage

-----------------------------------------------------------------------------
(* The theorems.                                                           *)

LEMMA InitInv == Init => Inv
  <1> SUFFICES ASSUME Init PROVE Inv
    OBVIOUS
  <1> USE DuelsAssumption, ModeAssumption DEF Init, SoloMode, ForkMode
  <1>1. TypeOK
    <2>1. duel \in 1..MaxDuels /\ override \in 0..MaxDuels /\ threads \in Nat /\ served \in Nat
      OBVIOUS
    <2>2. \A b \in BOOLEAN : Both(b) \in [Slots -> BOOLEAN]
      BY DEF Both
    <2>3. tokens \in SUBSET Slots /\ pick \in Slots \cup {Nobody} /\ active \in Slots
      BY DEF Slots
    <2>4. phase \in Phases /\ timers \in SUBSET TimerNames /\ worker \in WorkerStages
      BY DEF Phases, TimerNames, WorkerStages, Alive
    <2> QED BY <2>1, <2>2, <2>3, <2>4 DEF TypeOK
  <1>2. ModeFits /\ WorkerComesWithDuel /\ GoneIsQuiet /\ EndedSessionHasDeadline
    BY DEF ModeFits, WorkerComesWithDuel, GoneIsQuiet, EndedSessionHasDeadline
  <1>3. AbandonedBeforeStart /\ DicePhaseHasTimer
    BY DEF AbandonedBeforeStart, DicePhaseHasTimer
  <1>4. WorkerAccounting
    BY DEF WorkerAccounting, Alive
  <1>5. GateNeverWedges
    BY DEF GateNeverWedges, ReadyToStart, Both, Slots
  <1> QED BY <1>1, <1>2, <1>3, <1>4, <1>5 DEF Inv

\* Every session keeps the inductive invariant, whatever its mode and however many rematches.
THEOREM Invariance == Spec => []Inv
  <1>1. Inv /\ [Next]_vars => Inv'
    BY TypeStep, ModeStep, WorkerStep, GoneStep, EndedStep, AbandonedStep, AccountingStep,
       DiceStep, GateStep DEF Inv
  <1> QED BY InitInv, <1>1, PTL DEF Spec

\* The fields of a session keep their types.
THEOREM TypeCorrect == Spec => []TypeOK
  <1>1. Inv => TypeOK
    BY DEF Inv
  <1> QED BY Invariance, <1>1, PTL

\* A session that left the manager is inert: no late event of a socket, a timer or a worker can
\* revive it (cleanupDuelSession).
THEOREM ReleaseIsFinal == Spec => []GoneIsQuiet
  <1>1. Inv => GoneIsQuiet
    BY DEF Inv
  <1> QED BY Invariance, <1>1, PTL

\* Whatever ended the duel, the rematch expiry that releases the session is armed (handleDuelEnd).
THEOREM EndedSessionsExpire == Spec => []EndedSessionHasDeadline
  <1>1. Inv => EndedSessionHasDeadline
    BY DEF Inv
  <1> QED BY Invariance, <1>1, PTL

\* A live session without its players has a timer that will end it (the close handlers).
THEOREM AbandonedSessionsExpire == Spec => []AbandonedSessionHasDeadline
  <1>1. Inv => AbandonedSessionHasDeadline
    BY DEF Inv, AbandonedBeforeStart, AbandonedSessionHasDeadline
  <1> QED BY Invariance, <1>1, PTL

\* No worker thread is leaked or counted twice (safeTerminateWorker, the exit handler and
\* startDuelWithOrder).
THEOREM NoThreadIsLost == Spec => []WorkerAccounting
  <1>1. Inv => WorkerAccounting
    BY DEF Inv
  <1> QED BY Invariance, <1>1, PTL

\* The dice flow always has the timer that moves it on (first-player-coordinator).
THEOREM DiceNeverStall == Spec => []DicePhaseHasTimer
  <1>1. Inv => DicePhaseHasTimer
    BY DEF Inv
  <1> QED BY Invariance, <1>1, PTL

\* No session waits behind an open gate (onAnimationsReady and the handshake).
THEOREM GateOpensDuel == Spec => []GateNeverWedges
  <1>1. Inv => GateNeverWedges
    BY DEF Inv
  <1> QED BY Invariance, <1>1, PTL

\* FirstDuelLives holds throughout, with Inv.
LEMMA FirstDuelInvariance == Spec => []FirstDuelLives
  <1>1. Init => FirstDuelLives
    BY DEF Init, FirstDuelLives
  <1>2. Inv /\ FirstDuelLives /\ [Next]_vars => FirstDuelLives'
    BY FirstDuelStep
  <1> QED BY <1>1, <1>2, Invariance, PTL DEF Spec

\* While its first duel is live, a session has a running worker, in every mode and whatever
\* rematches follow (startDuelWithOrder against the exits, errors and the replay of the worker).
THEOREM FirstDuelHasWorker == Spec => [](duel = 1 => LiveDuelHasWorker)
  <1>1. FirstDuelLives => (duel = 1 => LiveDuelHasWorker)
    BY DEF FirstDuelLives, LiveDuelHasWorker, Alive
  <1> QED BY FirstDuelInvariance, <1>1, PTL

\* A duel forked from a replay keeps its worker as long as it is live: it is never rematched
\* (handleRematchRequest).
THEOREM ForkHasWorker == ASSUME ForkMode PROVE Spec => []LiveDuelHasWorker
  <1>1. FirstDuelLives => LiveDuelHasWorker
    BY DEF FirstDuelLives, LiveDuelHasWorker, Alive
  <1> QED BY FirstDuelInvariance, <1>1, PTL

LEMMA LifecycleInit == Init => Lifecycle!LInit
  BY DEF Init, Lifecycle!LInit, Status, Thread, Alive

\* A duel session implements the lifecycle its users rely on.
THEOREM SessionImplementsLifecycle == Spec => ImplementsLifecycle
  <1>1. Inv /\ [Next]_vars => [Lifecycle!LNext]_(Lifecycle!lvars)
    BY LifecycleStep
  <1> QED BY LifecycleInit, Invariance, <1>1, PTL DEF Spec, ImplementsLifecycle, Lifecycle!LSpec

=============================================================================

------------------------- MODULE ReplayPool_proofs --------------------------
(***************************************************************************)
(* Proof that the pool of replay workers accounts for its slots and is a   *)
(* first-come first-served semaphore, for any viewers, jobs and slots.     *)
(*                                                                         *)
(* The handlers are compositions of calls, so the argument is about states *)
(* and not about actions: Frees(s, t, c, D) says what every handler that   *)
(* gives slots back has done when it returns, however it composed it; that *)
(* a state so reached is good is then proved once. The heart is Unique: a  *)
(* connection has one job at most that waits or holds a slot. It is why a  *)
(* start that runs inside the release cannot touch the pointers of the     *)
(* connection whose handler is still at work.                              *)
(***************************************************************************)
EXTENDS ReplayPool, FiniteSetTheorems, TLAPS

\* What the viewer does, and no fork that crashes: see PoolBounded.
AsViewed == Fork \in {"never", "shown"} /\ Crashing \subseteq {"replay"}

Typed(s) ==
    s \in [count   : 0..MaxWorkers, queue : Seq(Jobs), owner : [Jobs -> Conns \cup {NoConn}],
           kind    : [Jobs -> Kinds], stage : [Jobs -> Stages], state : [Conns -> States],
           worker  : [Conns -> Jobs \cup {NoJob}], pending : [Conns -> Jobs \cup {NoJob}],
           timer   : [Conns -> Jobs \cup {NoJob}], armed : SUBSET Jobs, active : SUBSET Conns]

Holding(s) == {j \in Jobs : s.stage[j] \in {"running", "parked"}}
Busy(s) == {j \in Jobs : s.stage[j] \in {"queued", "running", "parked"}}

\* Whoever asked for a job has connected.
Owned(s) ==
    \A j \in Jobs : s.stage[j] # "unused" => s.owner[j] \in Conns /\ s.state[s.owner[j]] # "none"

\* A connection has one job at most that waits or holds a slot.
Unique(s) == \A i, j \in Busy(s) : s.owner[i] = s.owner[j] => i = j

\* The jobs that hold a slot are the ones that the connections point at.
Pointed(s) ==
    /\ \A j \in Jobs :
          /\ s.stage[j] = "running" => s.worker[s.owner[j]] = j
          /\ s.stage[j] = "parked" => s.pending[s.owner[j]] = j /\ s.kind[j] = "fork"
    /\ \A c \in Conns :
          /\ s.worker[c] # NoJob => s.stage[s.worker[c]] = "running" /\ s.owner[s.worker[c]] = c
          /\ s.pending[c] # NoJob =>
                /\ s.stage[s.pending[c]] = "parked" /\ s.owner[s.pending[c]] = c
                /\ s.state[c] = "fork_warning"

\* A connection knows the watchdog that will fire for it; one of a fork finds its worker running.
Watched(s) ==
    \A j \in s.armed :
        /\ s.stage[j] # "unused" /\ s.timer[s.owner[j]] = j
        /\ s.kind[j] = "fork" => s.stage[j] = "running"

Queued(s) ==
    /\ \A i \in 1..Len(s.queue) : s.stage[s.queue[i]] = "queued"
    /\ \A i, k \in 1..Len(s.queue) : s.queue[i] = s.queue[k] => i = k

Counted(s) == s.count = Cardinality(Holding(s))

Good(s) == Typed(s) /\ Owned(s) /\ Unique(s) /\ Pointed(s) /\ Watched(s) /\ Queued(s) /\ Counted(s)

PoolInv == Good(pool) /\ listening \subseteq Conns /\ down \in BOOLEAN

-----------------------------------------------------------------------------
(* What the calls do to the fields of a state. *)

LEMMA ClearFields ==
    ASSUME NEW s, Typed(s), NEW c \in Conns
    PROVE  LET t == ClearWatchdog(s, c)
           IN /\ Typed(t)
              /\ t.timer = [s.timer EXCEPT ![c] = NoJob] /\ t.armed = s.armed \ {s.timer[c]}
              /\ t.count = s.count /\ t.queue = s.queue /\ t.owner = s.owner /\ t.kind = s.kind
              /\ t.stage = s.stage /\ t.state = s.state /\ t.worker = s.worker
              /\ t.pending = s.pending /\ t.active = s.active
  BY DEF Typed, ClearWatchdog

LEMMA ArmFields ==
    ASSUME NEW s, Typed(s), NEW c \in Conns, NEW j \in Jobs
    PROVE  LET t == ArmWatchdog(s, c, j)
           IN /\ Typed(t)
              /\ t.timer = [s.timer EXCEPT ![c] = j]
              /\ t.armed = (s.armed \ {s.timer[c]}) \cup {j}
              /\ t.count = s.count /\ t.queue = s.queue /\ t.owner = s.owner /\ t.kind = s.kind
              /\ t.stage = s.stage /\ t.state = s.state /\ t.worker = s.worker
              /\ t.pending = s.pending /\ t.active = s.active
  BY DEF Typed, ArmWatchdog

LEMMA SpawnFields ==
    ASSUME NEW s, Typed(s), NEW j \in Jobs, s.owner[j] \in Conns
    PROVE  LET t == Spawn(s, j)
               c == s.owner[j]
           IN /\ Typed(t)
              /\ t.stage = [s.stage EXCEPT ![j] = "running"]
              /\ t.worker = [s.worker EXCEPT ![c] = j]
              /\ t.timer = [s.timer EXCEPT ![c] = j]
              /\ t.armed = (s.armed \ {s.timer[c]}) \cup {j}
              /\ t.count = s.count /\ t.queue = s.queue /\ t.owner = s.owner /\ t.kind = s.kind
              /\ t.state = s.state /\ t.pending = s.pending /\ t.active = s.active
  <1> DEFINE r == [s EXCEPT !.stage[j] = "running", !.worker[s.owner[j]] = j]
  <1>1. /\ Typed(r)
        /\ r.stage = [s.stage EXCEPT ![j] = "running"]
        /\ r.worker = [s.worker EXCEPT ![s.owner[j]] = j]
        /\ r.count = s.count /\ r.queue = s.queue /\ r.owner = s.owner /\ r.kind = s.kind
        /\ r.state = s.state /\ r.pending = s.pending /\ r.active = s.active
        /\ r.timer = s.timer /\ r.armed = s.armed
    BY DEF Typed, Stages
  <1>2. Spawn(s, j) = ArmWatchdog(r, s.owner[j], j)
    BY Zenon DEF Spawn
  <1> HIDE DEF r
  <1>3. QED BY <1>1, <1>2, ArmFields

\* A freed slot goes to the oldest waiting job, if there is one.
Starts(s) == IF s.queue = <<>> THEN {} ELSE {Head(s.queue)}

LEMMA DoneFields ==
    ASSUME NEW s, Typed(s), s.queue # <<>> => s.owner[Head(s.queue)] \in Conns,
           s.queue = <<>> => s.count # 0
    PROVE  LET t == WorkerDone(s)
               h == Head(s.queue)
               c == s.owner[h]
           IN /\ Typed(t)
              /\ t.owner = s.owner /\ t.kind = s.kind
              /\ t.state = s.state /\ t.pending = s.pending /\ t.active = s.active
              /\ s.queue = <<>> =>
                    /\ t.count = s.count - 1 /\ t.queue = s.queue /\ t.stage = s.stage
                    /\ t.worker = s.worker /\ t.timer = s.timer /\ t.armed = s.armed
              /\ s.queue # <<>> =>
                    /\ h \in Jobs
                    /\ t.count = s.count /\ t.queue = Tail(s.queue)
                    /\ t.stage = [s.stage EXCEPT ![h] = "running"]
                    /\ t.worker = [s.worker EXCEPT ![c] = h]
                    /\ t.timer = [s.timer EXCEPT ![c] = h]
                    /\ t.armed = (s.armed \ {s.timer[c]}) \cup {h}
  <1>1. CASE s.queue = <<>>
    <2> DEFINE t == [s EXCEPT !.count = s.count - 1]
    <2>1. WorkerDone(s) = t
      BY <1>1, Zenon DEF WorkerDone
    <2>2. s.count - 1 \in 0..MaxWorkers
      BY <1>1, WorkersAssumption DEF Typed
    <2>3. /\ Typed(t)
          /\ t.owner = s.owner /\ t.kind = s.kind
          /\ t.state = s.state /\ t.pending = s.pending /\ t.active = s.active
          /\ t.count = s.count - 1 /\ t.queue = s.queue /\ t.stage = s.stage
          /\ t.worker = s.worker /\ t.timer = s.timer /\ t.armed = s.armed
      BY <2>2 DEF Typed
    <2> HIDE DEF t
    <2>4. QED BY <1>1, <2>1, <2>3
  <1>2. CASE s.queue # <<>>
    <2> DEFINE r == [s EXCEPT !.queue = Tail(s.queue)]
    <2>1. WorkerDone(s) = Spawn(r, Head(s.queue))
      BY <1>2, Zenon DEF WorkerDone
    <2>2. Head(s.queue) \in Jobs /\ Tail(s.queue) \in Seq(Jobs)
      BY <1>2 DEF Typed
    <2>3. /\ Typed(r)
          /\ r.owner = s.owner /\ r.kind = s.kind
          /\ r.state = s.state /\ r.pending = s.pending /\ r.active = s.active
          /\ r.count = s.count /\ r.queue = Tail(s.queue) /\ r.stage = s.stage
          /\ r.worker = s.worker /\ r.timer = s.timer /\ r.armed = s.armed
      BY <2>2 DEF Typed
    <2> HIDE DEF r
    <2> DEFINE h == Head(s.queue)
    <2>4. h \in Jobs /\ r.owner[h] \in Conns /\ WorkerDone(s) = Spawn(r, h)
      BY <1>2, <2>1, <2>2, <2>3
    <2> HIDE DEF h
    <2> DEFINE t == Spawn(r, h)
    <2>5. /\ Typed(t)
          /\ t.stage = [r.stage EXCEPT ![h] = "running"]
          /\ t.worker = [r.worker EXCEPT ![r.owner[h]] = h]
          /\ t.timer = [r.timer EXCEPT ![r.owner[h]] = h]
          /\ t.armed = (r.armed \ {r.timer[r.owner[h]]}) \cup {h}
          /\ t.count = r.count /\ t.queue = r.queue /\ t.owner = r.owner /\ t.kind = r.kind
          /\ t.state = r.state /\ t.pending = r.pending /\ t.active = r.active
      BY <2>3, <2>4, SpawnFields
    <2> HIDE DEF t
    <2>6. WorkerDone(s) = t /\ h = Head(s.queue)
      BY <2>4 DEF t, h
    <2>7. QED BY <1>2, <2>3, <2>4, <2>5, <2>6
  <1>3. QED BY <1>1, <1>2

-----------------------------------------------------------------------------
(* Giving slots back. *)

\* The connection c has given the jobs D, all that it had in the pool, out of its hands.
Gives(s, u, c, D) ==
    /\ Typed(u)
    /\ \A j \in D : j \in Holding(s) /\ s.owner[j] = c
    /\ \A j \in Holding(s) : s.owner[j] = c => j \in D
    /\ u.owner = s.owner /\ u.kind = s.kind
    /\ \A d \in Conns \ {c} : u.state[d] = s.state[d] /\ u.pending[d] = s.pending[d]
    /\ u.state[c] # "none"

\* Its slots are not taken back yet.
Gone(s, u, c, D) ==
    /\ Gives(s, u, c, D)
    /\ u.count = s.count /\ u.queue = s.queue
    /\ \A j \in Jobs : IF j \in D THEN u.stage[j] \in {"dead", "session"}
                                  ELSE u.stage[j] = s.stage[j]
    /\ \A d \in Conns \ {c} : u.worker[d] = s.worker[d]
    /\ \A j \in u.armed : /\ j \in s.armed /\ u.timer[s.owner[j]] = j
                          /\ j \in D => s.kind[j] = "replay"

\* They are, and the oldest waiting job has one.
Frees(s, t, c, D) ==
    LET new == IF D = {} THEN {} ELSE Starts(s) IN
    /\ Gives(s, t, c, D)
    /\ t.count = IF D # {} /\ new = {} THEN s.count - 1 ELSE s.count
    /\ t.queue = IF new = {} THEN s.queue ELSE Tail(s.queue)
    /\ \A j \in Jobs : CASE j \in D -> t.stage[j] \in {"dead", "session"}
                        [] j \in new -> t.stage[j] = "running"
                        [] OTHER -> t.stage[j] = s.stage[j]
    /\ \A d \in Conns \ {c} :
          /\ \A h \in new : s.owner[h] = d => t.worker[d] = h
          /\ (\A h \in new : s.owner[h] # d) => t.worker[d] = s.worker[d]
    /\ \A j \in t.armed :
          /\ t.timer[s.owner[j]] = j
          /\ j \in new \/ (j \in s.armed /\ (j \in D => s.kind[j] = "replay"))

\* The head of the queue belongs to another connection than one that holds a slot.
LEMMA HeadIsAnothers ==
    ASSUME NEW s, Good(s), s.queue # <<>>
    PROVE  LET h == Head(s.queue)
           IN /\ h \in Jobs /\ h \in Busy(s) /\ h \notin Holding(s) /\ s.stage[h] = "queued"
              /\ s.owner[h] \in Conns
              /\ \A j \in Holding(s) : s.owner[j] # s.owner[h]
  <1>1. s.queue \in Seq(Jobs) /\ Head(s.queue) = s.queue[1] /\ 1 \in 1..Len(s.queue)
    BY DEF Good, Typed
  <1>2. Head(s.queue) \in Jobs /\ s.stage[Head(s.queue)] = "queued"
    BY <1>1 DEF Good, Queued
  <1>3. QED BY <1>2 DEF Good, Busy, Holding, Owned, Unique

\* A connection that holds a slot holds one, and points at nothing else.
LEMMA HoldsOne ==
    ASSUME NEW s, Good(s), NEW j \in Holding(s)
    PROVE  LET c == s.owner[j]
           IN /\ c \in Conns /\ s.state[c] # "none" /\ s.count # 0
              /\ \A i \in Holding(s) : s.owner[i] = c => i = j
              /\ s.worker[c] \in {j, NoJob} /\ s.pending[c] \in {j, NoJob}
              /\ s.stage[j] = "running" => s.worker[c] = j /\ s.pending[c] = NoJob
              /\ s.stage[j] = "parked" => s.pending[c] = j /\ s.worker[c] = NoJob
  <1> DEFINE c == s.owner[j]
  <1>1. c \in Conns /\ s.state[c] # "none"
    BY DEF Good, Owned, Holding
  <1>2. \A i \in Holding(s) : s.owner[i] = c => i = j
    BY DEF Good, Unique, Holding, Busy
  <1>3. s.worker[c] \in Jobs \cup {NoJob} /\ s.pending[c] \in Jobs \cup {NoJob}
    BY <1>1 DEF Good, Typed
  <1>4. s.worker[c] \in {j, NoJob} /\ s.pending[c] \in {j, NoJob}
    BY <1>1, <1>2, <1>3 DEF Good, Pointed, Holding
  <1>5. /\ s.stage[j] = "running" => s.worker[c] = j /\ s.pending[c] = NoJob
        /\ s.stage[j] = "parked" => s.pending[c] = j /\ s.worker[c] = NoJob
    BY <1>1, <1>4 DEF Good, Pointed, Holding, Jobs, NoJob
  <1>6. s.count # 0
    <2>1. IsFiniteSet(Jobs)
      BY JobsAssumption, FS_Interval DEF Jobs
    <2>2. IsFiniteSet(Holding(s))
      BY <2>1, FS_Subset DEF Holding
    <2>3. QED BY <2>2, FS_EmptySet DEF Good, Counted
  <1>7. QED BY <1>1, <1>2, <1>4, <1>5, <1>6

\* onReplayWorkerDone, when the connection of the released job is still at work.
LEMMA DoneFrees ==
    ASSUME NEW s, Good(s), NEW c \in Conns, NEW j \in Jobs, NEW u, Gone(s, u, c, {j})
    PROVE  LET t == WorkerDone(u)
           IN /\ Frees(s, t, c, {j})
              /\ t.worker[c] = u.worker[c] /\ t.pending[c] = u.pending[c]
              /\ t.timer[c] = u.timer[c]
  <1> DEFINE h == Head(s.queue)
             t == WorkerDone(u)
  <1>1. j \in Holding(s) /\ s.owner[j] = c /\ Typed(s) /\ Typed(u)
    BY DEF Gone, Gives, Good
  <1>2. u.queue = s.queue /\ u.owner = s.owner /\ u.count = s.count
    BY DEF Gone, Gives
  <1>3. s.queue # <<>> =>
          h \in Jobs /\ h # j /\ s.owner[h] \in Conns /\ s.owner[h] # c
    BY <1>1, HeadIsAnothers
  <1>4. s.count # 0
    BY <1>1, HoldsOne
  <1>5. /\ Typed(t)
        /\ t.owner = s.owner /\ t.kind = u.kind
        /\ t.state = u.state /\ t.pending = u.pending
        /\ s.queue = <<>> =>
              /\ t.count = s.count - 1 /\ t.queue = s.queue /\ t.stage = u.stage
              /\ t.worker = u.worker /\ t.timer = u.timer /\ t.armed = u.armed
        /\ s.queue # <<>> =>
              /\ t.count = s.count /\ t.queue = Tail(s.queue)
              /\ t.stage = [u.stage EXCEPT ![h] = "running"]
              /\ t.worker = [u.worker EXCEPT ![s.owner[h]] = h]
              /\ t.timer = [u.timer EXCEPT ![s.owner[h]] = h]
              /\ t.armed = (u.armed \ {u.timer[s.owner[h]]}) \cup {h}
    BY <1>1, <1>2, <1>3, <1>4, DoneFields
  <1> HIDE DEF t
  <1>6. Gives(s, t, c, {j})
    BY <1>5 DEF Gone, Gives
  <1>7. CASE s.queue = <<>>
    BY <1>1, <1>5, <1>6, <1>7 DEF Frees, Starts, Gone, t
  <1>8. CASE s.queue # <<>>
    <2>1. Starts(s) = {h}
      BY <1>8 DEF Starts
    <2> HIDE DEF h
    <2>2. /\ u.stage \in [Jobs -> Stages] /\ u.worker \in [Conns -> Jobs \cup {NoJob}]
          /\ u.timer \in [Conns -> Jobs \cup {NoJob}] /\ u.armed \subseteq Jobs
          /\ s.owner \in [Jobs -> Conns \cup {NoConn}]
      BY <1>1 DEF Typed
    <2>3. \A i \in Jobs : CASE i \in {j} -> t.stage[i] \in {"dead", "session"}
                          [] i \in {h} -> t.stage[i] = "running"
                          [] OTHER -> t.stage[i] = s.stage[i]
      BY <1>3, <1>5, <1>8, <2>2 DEF Gone
    <2>4. \A d \in Conns \ {c} :
            /\ s.owner[h] = d => t.worker[d] = h
            /\ s.owner[h] # d => t.worker[d] = s.worker[d]
      BY <1>3, <1>5, <1>8, <2>2 DEF Gone
    <2>5. ASSUME NEW i \in t.armed
          PROVE  /\ t.timer[s.owner[i]] = i
                 /\ i \in {h} \/ (i \in s.armed /\ (i \in {j} => s.kind[i] = "replay"))
      <3>1. CASE i = h
        BY <3>1, <1>3, <1>5, <1>8, <2>2
      <3>2. CASE i # h
        <4>1. i \in u.armed /\ i # u.timer[s.owner[h]]
          BY <3>2, <1>5, <1>8
        <4>2. i \in s.armed /\ u.timer[s.owner[i]] = i /\ (i = j => s.kind[i] = "replay")
          BY <4>1 DEF Gone
        <4>3. i \in Jobs /\ s.owner[i] # s.owner[h]
          BY <4>1, <4>2, <2>2
        <4>4. s.owner[i] \in Conns
          BY <4>2, <4>3 DEF Good, Watched, Owned
        <4>5. t.timer[s.owner[i]] = i
          BY <4>2, <4>3, <4>4, <1>3, <1>5, <1>8, <2>2
        <4>6. QED BY <4>2, <4>5
      <3>3. QED BY <3>1, <3>2
    <2>6. Frees(s, t, c, {j})
      BY <1>5, <1>6, <1>8, <2>1, <2>3, <2>4, <2>5 DEF Frees
    <2>7. t.worker[c] = u.worker[c] /\ t.timer[c] = u.timer[c]
      BY <1>3, <1>5, <1>8, <2>2
    <2>8. QED BY <1>5, <2>6, <2>7 DEF t
  <1>9. QED BY <1>7, <1>8

\* Slots are counted by adding and removing single jobs.
LEMMA Counting ==
    ASSUME NEW s, Good(s)
    PROVE  /\ IsFiniteSet(Holding(s)) /\ Cardinality(Holding(s)) \in Nat
           /\ \A j \in Jobs : /\ j \notin Holding(s) =>
                                   Cardinality(Holding(s) \cup {j}) = Cardinality(Holding(s)) + 1
                             /\ j \in Holding(s) =>
                                   Cardinality(Holding(s) \ {j}) = Cardinality(Holding(s)) - 1
           /\ \A j \in Holding(s), h \in Jobs \ Holding(s) :
                 Cardinality((Holding(s) \ {j}) \cup {h}) = Cardinality(Holding(s))
  <1>1. IsFiniteSet(Jobs)
    BY JobsAssumption, FS_Interval DEF Jobs
  <1>2. IsFiniteSet(Holding(s))
    BY <1>1, FS_Subset DEF Holding
  <1>3. Cardinality(Holding(s)) \in Nat
    BY <1>2, FS_CardinalityType
  <1>4. ASSUME NEW j \in Holding(s), NEW h \in Jobs \ Holding(s)
        PROVE  Cardinality((Holding(s) \ {j}) \cup {h}) = Cardinality(Holding(s))
    <2> DEFINE R == Holding(s) \ {j}
    <2>1. IsFiniteSet(R) /\ Cardinality(R) = Cardinality(Holding(s)) - 1 /\ h \notin R
      BY <1>2, FS_RemoveElement
    <2> HIDE DEF R
    <2>2. Cardinality(R \cup {h}) = Cardinality(R) + 1
      BY <2>1, FS_AddElement
    <2>3. QED BY <1>3, <2>1, <2>2 DEF R
  <1>5. QED BY <1>2, <1>3, <1>4, FS_AddElement, FS_RemoveElement

\* After the handler: who holds a slot, who waits, and that all is well.
LEMMA FreesIsGood ==
    ASSUME NEW s, Good(s), NEW c \in Conns, NEW D, NEW t, Frees(s, t, c, D),
           t.worker[c] = NoJob, t.pending[c] = NoJob
    PROVE  LET new == IF D = {} THEN {} ELSE Starts(s)
           IN /\ Good(t)
              /\ Holding(t) = (Holding(s) \ D) \cup new
              /\ t.queue = IF new = {} THEN s.queue ELSE Tail(s.queue)
              /\ D = {} \/ \E j \in Holding(s) : D = {j}
  <1> DEFINE new == IF D = {} THEN {} ELSE Starts(s)
  <1>1. /\ Typed(s) /\ Typed(t)
        /\ \A j \in D : j \in Jobs /\ j \in Holding(s) /\ s.owner[j] = c
        /\ \A j \in Holding(s) : s.owner[j] = c => j \in D
        /\ t.owner = s.owner /\ t.kind = s.kind
        /\ \A d \in Conns \ {c} : t.state[d] = s.state[d] /\ t.pending[d] = s.pending[d]
        /\ t.state[c] # "none"
    BY DEF Good, Frees, Gives, Holding
  <1>2. /\ t.count = IF D # {} /\ new = {} THEN s.count - 1 ELSE s.count
        /\ t.queue = IF new = {} THEN s.queue ELSE Tail(s.queue)
        /\ \A j \in Jobs : CASE j \in D -> t.stage[j] \in {"dead", "session"}
                            [] j \in new -> t.stage[j] = "running"
                            [] OTHER -> t.stage[j] = s.stage[j]
        /\ \A d \in Conns \ {c} :
              /\ \A h \in new : s.owner[h] = d => t.worker[d] = h
              /\ (\A h \in new : s.owner[h] # d) => t.worker[d] = s.worker[d]
        /\ \A j \in t.armed :
              /\ t.timer[s.owner[j]] = j
              /\ j \in new \/ (j \in s.armed /\ (j \in D => s.kind[j] = "replay"))
    BY DEF Frees
  <1>3. new # {} => s.queue # <<>> /\ new = {Head(s.queue)} /\ D # {}
    BY DEF Starts
  <1>4. \A h \in new : /\ h \in Jobs /\ h \in Busy(s) /\ h \notin Holding(s) /\ h \notin D
                       /\ s.stage[h] = "queued" /\ s.owner[h] \in Conns /\ s.owner[h] # c
                       /\ \A j \in Holding(s) : s.owner[j] # s.owner[h]
    BY <1>1, <1>3, HeadIsAnothers
  <1>5. D = {} \/ \E j \in Holding(s) : D = {j}
    BY <1>1, HoldsOne
  <1>6. (D # {} /\ new = {}) => s.queue = <<>>
    BY DEF Starts
  <1> HIDE DEF new
  <1>7. Holding(t) = (Holding(s) \ D) \cup new
    BY <1>1, <1>2, <1>4 DEF Holding
  <1>8. Owned(t)
    <2>1. \A j \in Jobs : t.stage[j] # "unused" => s.stage[j] # "unused"
      BY <1>1, <1>2, <1>4 DEF Holding
    <2>2. QED BY <2>1, <1>1 DEF Good, Owned
  <1>9. Unique(t)
    <2>1. Busy(t) \subseteq Busy(s)
      BY <1>1, <1>2, <1>4 DEF Busy
    <2>2. QED BY <2>1, <1>1 DEF Good, Unique
  <1>10. Pointed(t)
    <2>1. ASSUME NEW j \in Jobs, t.stage[j] = "running" PROVE t.worker[s.owner[j]] = j
      <3>1. CASE j \in new
        BY <3>1, <1>2, <1>4
      <3>2. CASE j \notin new
        <4>1. s.stage[j] = "running" /\ j \notin D /\ j \in Holding(s)
          BY <3>2, <2>1, <1>2 DEF Holding
        <4>2. s.owner[j] \in Conns \ {c} /\ s.worker[s.owner[j]] = j
          BY <4>1, <1>1 DEF Good, Owned, Pointed
        <4>3. QED BY <4>1, <4>2, <1>2, <1>4
      <3>3. QED BY <3>1, <3>2
    <2>2. ASSUME NEW j \in Jobs, t.stage[j] = "parked"
          PROVE  t.pending[s.owner[j]] = j /\ s.kind[j] = "fork"
      <3>1. s.stage[j] = "parked" /\ j \notin D /\ j \in Holding(s)
        BY <2>2, <1>2 DEF Holding
      <3>2. s.owner[j] \in Conns \ {c}
        BY <3>1, <1>1 DEF Good, Owned
      <3>3. QED BY <3>1, <3>2, <1>1 DEF Good, Pointed
    <2>3. ASSUME NEW d \in Conns, t.worker[d] # NoJob
          PROVE  t.stage[t.worker[d]] = "running" /\ s.owner[t.worker[d]] = d
      <3>1. d # c
        BY <2>3
      <3>2. CASE \E h \in new : s.owner[h] = d
        BY <3>1, <3>2, <1>2, <1>4
      <3>3. CASE \A h \in new : s.owner[h] # d
        <4>1. t.worker[d] = s.worker[d] /\ s.worker[d] \in Jobs
          BY <3>1, <3>3, <2>3, <1>1, <1>2 DEF Typed
        <4>2. s.stage[s.worker[d]] = "running" /\ s.owner[s.worker[d]] = d
          BY <4>1, <2>3 DEF Good, Pointed
        <4>3. s.worker[d] \notin D /\ s.worker[d] \notin new
          BY <4>2, <3>1, <3>3, <1>1
        <4>4. QED BY <4>1, <4>2, <4>3, <1>2
      <3>4. QED BY <3>2, <3>3
    <2>4. ASSUME NEW d \in Conns, t.pending[d] # NoJob
          PROVE  /\ t.stage[t.pending[d]] = "parked" /\ s.owner[t.pending[d]] = d
                 /\ t.state[d] = "fork_warning"
      <3>1. d # c /\ t.pending[d] = s.pending[d] /\ t.state[d] = s.state[d] /\ s.pending[d] \in Jobs
        BY <2>4, <1>1 DEF Typed
      <3>2. s.stage[s.pending[d]] = "parked" /\ s.owner[s.pending[d]] = d
            /\ s.state[d] = "fork_warning"
        BY <3>1, <2>4 DEF Good, Pointed
      <3>3. s.pending[d] \notin D /\ s.pending[d] \notin new
        BY <3>1, <3>2, <1>1, <1>4
      <3>4. QED BY <3>1, <3>2, <3>3, <1>2
    <2>5. QED BY <2>1, <2>2, <2>3, <2>4, <1>1 DEF Pointed
  <1>11. Watched(t)
    <2>1. ASSUME NEW j \in t.armed
          PROVE  /\ t.stage[j] # "unused" /\ t.timer[s.owner[j]] = j
                 /\ s.kind[j] = "fork" => t.stage[j] = "running"
      <3>1. j \in Jobs
        BY <1>1 DEF Typed
      <3>2. CASE j \in new
        BY <3>1, <3>2, <1>2, <1>4
      <3>3. CASE j \notin new
        <4>1. s.stage[j] # "unused" /\ (s.kind[j] = "fork" => s.stage[j] = "running" /\ j \notin D)
          BY <3>3, <1>2 DEF Good, Watched
        <4>2. QED BY <3>1, <3>3, <4>1, <1>2
      <3>4. QED BY <3>2, <3>3
    <2>2. QED BY <2>1, <1>1 DEF Watched
  <1>12. Queued(t)
    <2>1. s.queue \in Seq(Jobs) /\ \A i \in 1..Len(s.queue) : s.queue[i] \in Jobs
      BY <1>1 DEF Typed
    <2>2. \A i \in 1..Len(s.queue) : s.queue[i] \notin D /\ s.stage[s.queue[i]] = "queued"
      BY <1>1 DEF Good, Queued, Holding
    <2>3. CASE new = {}
      BY <2>1, <2>2, <2>3, <1>2 DEF Good, Queued
    <2>4. CASE new # {}
      <3>1. t.queue = Tail(s.queue) /\ s.queue # <<>> /\ new = {s.queue[1]}
        BY <2>1, <2>4, <1>2, <1>3
      <3>2. /\ Len(t.queue) = Len(s.queue) - 1
            /\ \A i \in 1..Len(t.queue) : t.queue[i] = s.queue[i + 1] /\ i + 1 \in 1..Len(s.queue)
        BY <2>1, <3>1
      <3>3. \A i, k \in 1..Len(s.queue) : s.queue[i] = s.queue[k] => i = k
        BY DEF Good, Queued
      <3>4. 1 \in 1..Len(s.queue) /\ Len(s.queue) \in Nat
        BY <2>1, <3>1
      <3>5. \A i \in 1..Len(t.queue) : t.queue[i] \notin new
        BY <3>1, <3>2, <3>3, <3>4
      <3>6. \A i \in 1..Len(t.queue) : t.stage[t.queue[i]] = "queued"
        BY <2>1, <2>2, <3>2, <3>5, <1>2
      <3>7. \A i, k \in 1..Len(t.queue) : t.queue[i] = t.queue[k] => i = k
        BY <3>2, <3>3, <3>4
      <3>8. QED BY <3>6, <3>7 DEF Queued
    <2>5. QED BY <2>3, <2>4
  <1>13. Counted(t)
    <2>1. CASE D = {}
      BY <2>1, <1>2, <1>3, <1>7 DEF Good, Counted
    <2>2. CASE D # {} /\ new = {}
      BY <2>2, <1>2, <1>5, <1>7, Counting DEF Good, Counted, Holding
    <2>3. CASE D # {} /\ new # {}
      BY <2>3, <1>2, <1>3, <1>4, <1>5, <1>7, Counting DEF Good, Counted
    <2>4. QED BY <2>1, <2>2, <2>3
  <1>14. Good(t)
    BY <1>1, <1>8, <1>9, <1>10, <1>11, <1>12, <1>13 DEF Good
  <1>15. QED BY <1>2, <1>5, <1>7, <1>14 DEF new

-----------------------------------------------------------------------------
(* The handlers that give slots back. *)

\* A change of the fields of the connection c alone.
Touched(s, r, c) ==
    /\ Typed(r)
    /\ r.count = s.count /\ r.queue = s.queue /\ r.owner = s.owner /\ r.kind = s.kind
    /\ \A d \in Conns \ {c} :
          r.state[d] = s.state[d] /\ r.worker[d] = s.worker[d] /\ r.pending[d] = s.pending[d]
    /\ r.state[c] # "none"
    /\ \A i \in r.armed : i \in s.armed /\ r.timer[s.owner[i]] = s.timer[s.owner[i]]

\* Before the slot comes back: the job that leaves its connection is not watched any more, unless
\* it is a replay that crashed.
LEMMA LettingGo ==
    ASSUME NEW s, Good(s), NEW j \in Holding(s), NEW u, Touched(s, u, s.owner[j]),
           u.stage[j] \in {"dead", "session"},
           \A i \in Jobs \ {j} : u.stage[i] = s.stage[i],
           j \in u.armed => s.kind[j] = "replay"
    PROVE  Gone(s, u, s.owner[j], {j})
  <1>1. \A i \in Holding(s) : s.owner[i] = s.owner[j] => i = j
    BY HoldsOne
  <1>2. \A i \in u.armed : i \in s.armed /\ u.timer[s.owner[i]] = i
    BY DEF Touched, Good, Watched
  <1>3. \A i \in Jobs : IF i \in {j} THEN u.stage[i] \in {"dead", "session"}
                                      ELSE u.stage[i] = s.stage[i]
    OBVIOUS
  <1>4. Gives(s, u, s.owner[j], {j})
    BY <1>1 DEF Touched, Gives
  <1>5. QED BY <1>2, <1>3, <1>4 DEF Touched, Gone

\* After it: the handler goes on with the fields of its own connection.
LEMMA GoingOn ==
    ASSUME NEW s, NEW c \in Conns, NEW D, NEW t, Frees(s, t, c, D),
           NEW v, Touched(t, v, c), v.stage = t.stage
    PROVE  Frees(s, v, c, D)
  <1>1. Gives(s, v, c, D)
    BY DEF Touched, Frees, Gives
  <1>2. \A i \in v.armed : i \in t.armed /\ v.timer[s.owner[i]] = t.timer[s.owner[i]]
    BY DEF Touched, Frees, Gives
  <1>3. QED BY <1>1, <1>2 DEF Touched, Frees

\* The outcome of a handler of the connection c.
Freed(s, t, c) == \E D : Frees(s, t, c, D) /\ t.worker[c] = NoJob /\ t.pending[c] = NoJob

\* It may go on, too.
LEMMA Ending ==
    ASSUME NEW s, NEW c \in Conns, NEW w, Freed(s, w, c),
           NEW v, Touched(w, v, c), v.stage = w.stage, v.worker[c] = NoJob, v.pending[c] = NoJob
    PROVE  Freed(s, v, c)
  BY GoingOn DEF Freed

LEMMA KillFields ==
    ASSUME NEW s, Typed(s), NEW j \in Jobs
    PROVE  LET t == Kill(s, j)
           IN /\ Typed(t)
              /\ t.stage = [s.stage EXCEPT ![j] = "dead"]
              /\ t.count = s.count /\ t.queue = s.queue /\ t.owner = s.owner /\ t.kind = s.kind
              /\ t.state = s.state /\ t.worker = s.worker /\ t.pending = s.pending
              /\ t.timer = s.timer /\ t.armed = s.armed /\ t.active = s.active
  BY DEF Typed, Kill, Stages

\* Cleanup of a connection without workers.
LEMMA CleanupIdle ==
    ASSUME NEW s, Typed(s), NEW c \in Conns, s.worker[c] = NoJob, s.pending[c] = NoJob,
           \A i \in s.armed : s.timer[s.owner[i]] = i
    PROVE  /\ Touched(s, Cleanup(s, c), c) /\ Cleanup(s, c).stage = s.stage
           /\ Cleanup(s, c).worker[c] = NoJob /\ Cleanup(s, c).pending[c] = NoJob
  <1> DEFINE r == [s EXCEPT !.state[c] = "closed"]
             q == ClearWatchdog(r, c)
             t == [q EXCEPT !.active = q.active \ {c}]
  <1>1. /\ Typed(r) /\ r.state = [s.state EXCEPT ![c] = "closed"]
        /\ r.count = s.count /\ r.queue = s.queue /\ r.owner = s.owner /\ r.kind = s.kind
        /\ r.stage = s.stage /\ r.worker = s.worker /\ r.pending = s.pending
        /\ r.timer = s.timer /\ r.armed = s.armed /\ r.active = s.active
    BY DEF Typed, States
  <1> HIDE DEF r
  <1>2. /\ Typed(q) /\ q.timer = [s.timer EXCEPT ![c] = NoJob] /\ q.armed = s.armed \ {s.timer[c]}
        /\ q.count = s.count /\ q.queue = s.queue /\ q.owner = s.owner /\ q.kind = s.kind
        /\ q.stage = s.stage /\ q.state = r.state /\ q.worker = s.worker
        /\ q.pending = s.pending
    BY <1>1, ClearFields
  <1>3. Cleanup(s, c) = t
    BY <1>1, <1>2, Zenon DEF Cleanup, ReleasePending, r
  <1> HIDE DEF q
  <1>4. /\ Typed(t) /\ t.timer = q.timer /\ t.armed = q.armed
        /\ t.count = s.count /\ t.queue = s.queue /\ t.owner = s.owner /\ t.kind = s.kind
        /\ t.stage = s.stage /\ t.state = q.state /\ t.worker = s.worker
        /\ t.pending = s.pending
    BY <1>2 DEF Typed
  <1> HIDE DEF t
  <1>5. \A i \in t.armed : i \in s.armed /\ t.timer[s.owner[i]] = s.timer[s.owner[i]]
    BY <1>2, <1>4 DEF Typed
  <1>6. t.state[c] # "none" /\ \A d \in Conns \ {c} : t.state[d] = s.state[d]
    BY <1>1, <1>2, <1>4 DEF Typed
  <1>7. QED BY <1>3, <1>4, <1>5, <1>6 DEF Touched

\* Letting a job go, from a state that its handler has touched already.
LEMMA Killing ==
    ASSUME NEW s, Good(s), NEW j \in Holding(s), NEW c \in Conns, c = s.owner[j],
           NEW x, Touched(s, x, c), x.stage = s.stage, j \in x.armed => s.kind[j] = "replay"
    PROVE  LET t == Release(x, j)
           IN /\ Frees(s, t, c, {j}) /\ Typed(t) /\ t.state[c] # "none"
              /\ t.worker[c] = x.worker[c] /\ t.pending[c] = x.pending[c]
  <1> DEFINE u == Kill(x, j)
             t == WorkerDone(u)
  <1>1. j \in Jobs /\ Typed(s) /\ Typed(x)
    BY DEF Holding, Good, Touched
  <1>2. /\ Typed(u) /\ u.stage = [s.stage EXCEPT ![j] = "dead"]
        /\ u.count = x.count /\ u.queue = x.queue /\ u.owner = x.owner /\ u.kind = x.kind
        /\ u.state = x.state /\ u.worker = x.worker /\ u.pending = x.pending
        /\ u.timer = x.timer /\ u.armed = x.armed
    BY <1>1, KillFields
  <1> HIDE DEF u
  <1>3. Touched(s, u, c)
    BY <1>2 DEF Touched
  <1>4. u.stage[j] \in {"dead", "session"} /\ \A i \in Jobs \ {j} : u.stage[i] = s.stage[i]
    BY <1>1, <1>2 DEF Typed
  <1>5. Gone(s, u, c, {j})
    BY <1>2, <1>3, <1>4, LettingGo
  <1>6. Frees(s, t, c, {j}) /\ t.worker[c] = x.worker[c] /\ t.pending[c] = x.pending[c]
    BY <1>1, <1>2, <1>5, DoneFrees
  <1>7. Typed(t) /\ t.state[c] # "none"
    BY <1>6 DEF Frees, Gives
  <1>8. Release(x, j) = t
    BY Zenon DEF Release, u
  <1> HIDE DEF t
  <1>9. QED BY <1>6, <1>7, <1>8

\* Fields of a state whose pointer of c has been nulled.
LEMMA NullFields ==
    ASSUME NEW s, Typed(s), NEW c \in Conns, s.state[c] # "none"
    PROVE  /\ LET t == [s EXCEPT !.worker[c] = NoJob]
              IN /\ Touched(s, t, c) /\ t.stage = s.stage
                 /\ t.worker[c] = NoJob /\ t.pending[c] = s.pending[c] /\ t.armed = s.armed
           /\ LET t == [s EXCEPT !.pending[c] = NoJob]
              IN /\ Touched(s, t, c) /\ t.stage = s.stage
                 /\ t.pending[c] = NoJob /\ t.worker[c] = s.worker[c] /\ t.armed = s.armed
  <1>1. /\ LET t == [s EXCEPT !.worker[c] = NoJob]
           IN /\ Typed(t) /\ t.worker = [s.worker EXCEPT ![c] = NoJob]
              /\ t.count = s.count /\ t.queue = s.queue /\ t.owner = s.owner /\ t.kind = s.kind
              /\ t.stage = s.stage /\ t.state = s.state /\ t.pending = s.pending
              /\ t.timer = s.timer /\ t.armed = s.armed
        /\ LET t == [s EXCEPT !.pending[c] = NoJob]
           IN /\ Typed(t) /\ t.pending = [s.pending EXCEPT ![c] = NoJob]
              /\ t.count = s.count /\ t.queue = s.queue /\ t.owner = s.owner /\ t.kind = s.kind
              /\ t.stage = s.stage /\ t.state = s.state /\ t.worker = s.worker
              /\ t.timer = s.timer /\ t.armed = s.armed
    BY DEF Typed
  <1> DEFINE t == [s EXCEPT !.worker[c] = NoJob]
             r == [s EXCEPT !.pending[c] = NoJob]
  <1> HIDE DEF t, r
  <1>2. QED BY <1>1 DEF Typed, Touched, t, r

\* A handler that releases a worker that runs and forgets it.
LEMMA ForgetFrees ==
    ASSUME NEW s, Good(s), NEW j \in Holding(s), NEW c \in Conns, c = s.owner[j],
           NEW x, Touched(s, x, c), x.stage = s.stage, x.pending[c] = NoJob,
           j \in x.armed => s.kind[j] = "replay"
    PROVE  LET w == ReleaseAndForget(x, c, j)
           IN Freed(s, w, c) /\ Typed(w) /\ w.state[c] # "none"
              /\ w.worker[c] = NoJob /\ w.pending[c] = NoJob
  <1> DEFINE t == Release(x, j)
             w == [t EXCEPT !.worker[c] = NoJob]
  <1>1. /\ Frees(s, t, c, {j}) /\ Typed(t) /\ t.state[c] # "none" /\ t.pending[c] = NoJob
    BY Killing
  <1>2. ReleaseAndForget(x, c, j) = w
    BY Zenon DEF ReleaseAndForget
  <1> HIDE DEF t
  <1>3. Touched(t, w, c) /\ w.stage = t.stage /\ w.worker[c] = NoJob /\ w.pending[c] = NoJob
    BY <1>1, NullFields
  <1> HIDE DEF w
  <1>4. Freed(s, w, c)
    BY <1>1, <1>3, GoingOn DEF Freed
  <1>5. QED BY <1>2, <1>3, <1>4 DEF Touched

\* One that terminates the parked fork.
LEMMA UnparkFrees ==
    ASSUME NEW s, Good(s), NEW j \in Holding(s), NEW c \in Conns, c = s.owner[j],
           NEW x, Touched(s, x, c), x.stage = s.stage, x.worker[c] = NoJob,
           x.pending[c] = j, j \notin x.armed
    PROVE  LET w == ReleasePending(x, c)
           IN Freed(s, w, c) /\ Typed(w) /\ w.state[c] # "none"
              /\ w.worker[c] = NoJob /\ w.pending[c] = NoJob
  <1> DEFINE t == Release(x, j)
             w == [t EXCEPT !.pending[c] = NoJob]
  <1>1. /\ Frees(s, t, c, {j}) /\ Typed(t) /\ t.state[c] # "none" /\ t.worker[c] = NoJob
    BY Killing
  <1>2. j # NoJob
    BY DEF Holding, Jobs, NoJob
  <1>3. ReleasePending(x, c) = w
    BY <1>2, Zenon DEF ReleasePending
  <1> HIDE DEF t
  <1>4. Touched(t, w, c) /\ w.stage = t.stage /\ w.worker[c] = NoJob /\ w.pending[c] = NoJob
    BY <1>1, NullFields
  <1> HIDE DEF w
  <1>5. Freed(s, w, c)
    BY <1>1, <1>4, GoingOn DEF Freed
  <1>6. QED BY <1>3, <1>4, <1>5 DEF Touched

\* The state of the connection changes and its watchdog is cleared.
LEMMA ClearTouches ==
    ASSUME NEW s, Good(s), NEW c \in Conns, NEW x \in States \ {"none"}
    PROVE  \A r \in {s, [s EXCEPT !.state[c] = x]} :
              LET q == ClearWatchdog(r, c)
              IN /\ r.state[c] # "none" => Touched(s, q, c)
                 /\ q.stage = s.stage /\ q.worker = s.worker /\ q.pending = s.pending
                 /\ q.armed \subseteq s.armed
                 /\ \A j \in Jobs : s.owner[j] = c => j \notin q.armed
  <1>1. SUFFICES ASSUME NEW r \in {s, [s EXCEPT !.state[c] = x]}
        PROVE  LET q == ClearWatchdog(r, c)
               IN /\ r.state[c] # "none" => Touched(s, q, c)
                  /\ q.stage = s.stage /\ q.worker = s.worker /\ q.pending = s.pending
                  /\ q.armed \subseteq s.armed
                  /\ \A j \in Jobs : s.owner[j] = c => j \notin q.armed
    OBVIOUS
  <1>2. Typed(s) /\ \A i \in s.armed : s.timer[s.owner[i]] = i
    BY DEF Good, Watched
  <1>3. /\ Typed(r) /\ \A d \in Conns \ {c} : r.state[d] = s.state[d]
        /\ r.count = s.count /\ r.queue = s.queue /\ r.owner = s.owner /\ r.kind = s.kind
        /\ r.stage = s.stage /\ r.worker = s.worker /\ r.pending = s.pending
        /\ r.timer = s.timer /\ r.armed = s.armed /\ r.active = s.active
    <2>1. CASE r = s
      BY <1>2, <2>1
    <2>2. CASE r = [s EXCEPT !.state[c] = x]
      BY <1>2, <2>2 DEF Typed
    <2>3. QED BY <1>1, <2>1, <2>2
  <1> DEFINE q == ClearWatchdog(r, c)
  <1>4. /\ Typed(q) /\ q.timer = [s.timer EXCEPT ![c] = NoJob] /\ q.armed = s.armed \ {s.timer[c]}
        /\ q.count = s.count /\ q.queue = s.queue /\ q.owner = s.owner /\ q.kind = s.kind
        /\ q.stage = s.stage /\ q.state = r.state /\ q.worker = s.worker
        /\ q.pending = s.pending
    BY <1>3, ClearFields
  <1> HIDE DEF q
  <1>5. \A i \in q.armed : i \in s.armed /\ q.timer[s.owner[i]] = s.timer[s.owner[i]]
    BY <1>2, <1>4 DEF Typed
  <1>6. \A j \in Jobs : s.owner[j] = c => j \notin q.armed
    BY <1>2, <1>4
  <1>7. r.state[c] # "none" => Touched(s, q, c)
    BY <1>3, <1>4, <1>5 DEF Touched
  <1>8. QED BY <1>4, <1>6, <1>7 DEF q

\* The same, after any change of the fields of the connection.
LEMMA ClearFirst ==
    ASSUME NEW s, Good(s), NEW c \in Conns,
           NEW r, Touched(s, r, c), r.stage = s.stage, r.pending = s.pending
    PROVE  LET q == ClearWatchdog(r, c)
           IN /\ Touched(s, q, c) /\ q.stage = s.stage /\ q.pending = s.pending
              /\ \A j \in Jobs : s.owner[j] = c => j \notin q.armed
  <1>1. /\ Typed(r) /\ \A i \in r.armed : r.timer[s.owner[i]] = i
    BY DEF Touched, Good, Watched
  <1> DEFINE q == ClearWatchdog(r, c)
  <1>2. /\ Typed(q) /\ q.timer = [r.timer EXCEPT ![c] = NoJob] /\ q.armed = r.armed \ {r.timer[c]}
        /\ q.count = r.count /\ q.queue = r.queue /\ q.owner = r.owner /\ q.kind = r.kind
        /\ q.stage = r.stage /\ q.state = r.state /\ q.worker = r.worker
        /\ q.pending = r.pending
    BY <1>1, ClearFields
  <1> HIDE DEF q
  <1>3. \A i \in q.armed : i \in r.armed /\ q.timer[s.owner[i]] = r.timer[s.owner[i]]
    BY <1>1, <1>2 DEF Typed
  <1>4. \A j \in Jobs : s.owner[j] = c => j \notin q.armed
    BY <1>1, <1>2
  <1>5. Touched(s, q, c)
    BY <1>2, <1>3 DEF Touched
  <1>6. QED BY <1>2, <1>4, <1>5 DEF q

\* Cleanup releases the worker or the parked fork of the connection, if it has one of them.
LEMMA CleanupFrees ==
    ASSUME NEW s, Good(s), NEW c \in Conns
    PROVE  Freed(s, Cleanup(s, c), c)
  <1> DEFINE r == [s EXCEPT !.state[c] = "closed"]
             q == ClearWatchdog(r, c)
  <1>1. Typed(s) /\ \A i \in s.armed : s.timer[s.owner[i]] = i
    BY DEF Good, Watched
  <1>2. r.state[c] = "closed"
    BY <1>1 DEF Typed
  <1>3. /\ Touched(s, q, c) /\ q.stage = s.stage /\ q.worker = s.worker /\ q.pending = s.pending
        /\ q.armed \subseteq s.armed /\ \A j \in Jobs : s.owner[j] = c => j \notin q.armed
    BY <1>2, ClearTouches DEF States
  <1>4. ASSUME NEW w, Freed(s, w, c), Typed(w), w.state[c] # "none",
               w.worker[c] = NoJob, w.pending[c] = NoJob
        PROVE  Freed(s, [w EXCEPT !.active = @ \ {c}], c)
    <2> DEFINE v == [w EXCEPT !.active = @ \ {c}]
    <2>1. /\ Typed(v) /\ v.worker = w.worker
          /\ v.count = w.count /\ v.queue = w.queue /\ v.owner = w.owner /\ v.kind = w.kind
          /\ v.stage = w.stage /\ v.state = w.state /\ v.pending = w.pending
          /\ v.timer = w.timer /\ v.armed = w.armed
      BY <1>4 DEF Typed
    <2> HIDE DEF v
    <2>2. Touched(w, v, c)
      BY <1>4, <2>1 DEF Touched
    <2>3. Freed(s, v, c)
      BY <1>4, <2>1, <2>2, Ending
    <2>4. QED BY <2>3 DEF v
  <1>5. CASE s.worker[c] = NoJob /\ s.pending[c] = NoJob
    <2> DEFINE t == Cleanup(s, c)
    <2>1. Touched(s, t, c) /\ t.stage = s.stage /\ t.worker[c] = NoJob /\ t.pending[c] = NoJob
      BY <1>1, <1>5, CleanupIdle
    <2> HIDE DEF t
    <2>2. \A j \in Holding(s) : s.owner[j] # c
      BY <1>5, HoldsOne DEF Holding, Jobs, NoJob
    <2>3. Gives(s, t, c, {})
      BY <2>1, <2>2 DEF Touched, Gives
    <2>4. \A i \in t.armed : i \in s.armed /\ t.timer[s.owner[i]] = i
      BY <1>1, <2>1 DEF Touched
    <2>5. Frees(s, t, c, {})
      BY <2>1, <2>3, <2>4 DEF Touched, Frees
    <2>6. QED BY <2>1, <2>5 DEF Freed, t
  <1>6. CASE s.worker[c] # NoJob
    <2> DEFINE j == s.worker[c]
               w == ReleaseAndForget(q, c, j)
    <2>1. j \in Holding(s) /\ c = s.owner[j] /\ s.pending[c] = NoJob /\ j \in Jobs
      <3>1. j \in Jobs /\ s.stage[j] = "running" /\ s.owner[j] = c
        BY <1>1, <1>6 DEF Typed, Good, Pointed
      <3>2. QED BY <3>1, HoldsOne DEF Holding
    <2>2. Cleanup(s, c) = [ReleasePending(w, c) EXCEPT !.active = @ \ {c}]
      BY <1>3, <1>6, Zenon DEF Cleanup
    <2> HIDE DEF j, q
    <2>3. /\ Freed(s, w, c) /\ Typed(w) /\ w.state[c] # "none"
          /\ w.worker[c] = NoJob /\ w.pending[c] = NoJob
      BY <1>3, <2>1, ForgetFrees
    <2> HIDE DEF w
    <2>4. ReleasePending(w, c) = w
      BY <2>3, Zenon DEF ReleasePending
    <2>5. QED BY <1>4, <2>2, <2>3, <2>4
  <1>7. CASE s.worker[c] = NoJob /\ s.pending[c] # NoJob
    <2> DEFINE w == ReleasePending(q, c)
    <2>1. Cleanup(s, c) = [w EXCEPT !.active = @ \ {c}]
      BY <1>3, <1>7, Zenon DEF Cleanup
    <2> HIDE DEF q
    <2>2. PICK j \in Holding(s) : j = s.pending[c] /\ c = s.owner[j] /\ j \in Jobs
      BY <1>1, <1>7 DEF Typed, Good, Pointed, Holding
    <2>3. /\ Freed(s, w, c) /\ Typed(w) /\ w.state[c] # "none"
          /\ w.worker[c] = NoJob /\ w.pending[c] = NoJob
      BY <1>3, <1>7, <2>2, UnparkFrees
    <2> HIDE DEF w
    <2>4. QED BY <1>4, <2>1, <2>3
  <1>8. QED BY <1>5, <1>6, <1>7

\* A worker that goes on in a session leaves the pool, then its connection is cleaned up.
LEMMA TransitionFrees ==
    ASSUME NEW s, Good(s), NEW j \in Holding(s), NEW c \in Conns, c = s.owner[j],
           NEW x, Touched(s, x, c), x.stage = s.stage, x.pending[c] = NoJob, j \notin x.armed
    PROVE  Freed(s, Transition(x, c, j), c)
  <1> DEFINE u == [x EXCEPT !.stage[j] = "session", !.worker[c] = NoJob]
             t == WorkerDone(u)
             v == Cleanup(t, c)
  <1>1. j \in Jobs /\ Typed(s) /\ Typed(x)
    BY DEF Holding, Good, Touched
  <1>2. /\ Typed(u) /\ u.stage = [x.stage EXCEPT ![j] = "session"]
        /\ u.worker = [x.worker EXCEPT ![c] = NoJob]
        /\ u.count = x.count /\ u.queue = x.queue /\ u.owner = x.owner /\ u.kind = x.kind
        /\ u.state = x.state /\ u.pending = x.pending
        /\ u.timer = x.timer /\ u.armed = x.armed /\ u.active = x.active
    BY <1>1 DEF Typed, Stages
  <1>3. Transition(x, c, j) = v
    BY Zenon DEF Transition
  <1> HIDE DEF u
  <1>4. Touched(s, u, c) /\ u.worker[c] = NoJob /\ u.pending[c] = NoJob
    BY <1>1, <1>2 DEF Touched, Typed
  <1>5. u.stage[j] \in {"dead", "session"} /\ \A i \in Jobs \ {j} : u.stage[i] = s.stage[i]
    BY <1>1, <1>2 DEF Typed
  <1>6. Gone(s, u, c, {j})
    BY <1>2, <1>4, <1>5, LettingGo
  <1>7. Frees(s, t, c, {j}) /\ t.worker[c] = NoJob /\ t.pending[c] = NoJob
    BY <1>1, <1>4, <1>6, DoneFrees
  <1> HIDE DEF t
  <1>8. Typed(t) /\ \A i \in t.armed : t.timer[t.owner[i]] = i
    BY <1>7 DEF Frees, Gives
  <1>9. /\ Touched(t, v, c) /\ v.stage = t.stage /\ v.worker[c] = NoJob /\ v.pending[c] = NoJob
    BY <1>7, <1>8, CleanupIdle
  <1> HIDE DEF v
  <1>10. Freed(s, v, c)
    BY <1>7, <1>9, GoingOn DEF Freed
  <1>11. QED BY <1>3, <1>10

-----------------------------------------------------------------------------
(* The actions that give slots back. *)

\* A worker that runs holds a slot for its connection, which knows it.
LEMMA RunningHolds ==
    ASSUME PoolInv, NEW j \in Jobs, pool.stage[j] = "running"
    PROVE  /\ Good(pool) /\ j \in Holding(pool) /\ pool.owner[j] \in Conns
           /\ pool.state[pool.owner[j]] # "none"
           /\ pool.worker[pool.owner[j]] = j /\ pool.pending[pool.owner[j]] = NoJob
  <1>1. Good(pool) /\ j \in Holding(pool)
    BY DEF PoolInv, Holding
  <1>2. QED BY <1>1, HoldsOne

LEMMA ReplayEnds ==
    ASSUME PoolInv, NEW j \in Jobs, ReplayComplete(j) \/ ReplayError(j)
    PROVE  \E c \in Conns : Freed(pool, pool', c)
  <1> DEFINE c == pool.owner[j]
             r0 == [pool EXCEPT !.state[c] = "ready"]
  <1>1. /\ Good(pool) /\ j \in Holding(pool) /\ c \in Conns /\ pool.state[c] # "none"
        /\ pool.pending[c] = NoJob /\ Typed(pool)
    BY RunningHolds DEF ReplayComplete, ReplayError, Running, Good
  <1>2. /\ Typed(r0) /\ r0.state = [pool.state EXCEPT ![c] = "ready"]
        /\ r0.count = pool.count /\ r0.queue = pool.queue /\ r0.owner = pool.owner
        /\ r0.kind = pool.kind /\ r0.stage = pool.stage /\ r0.worker = pool.worker
        /\ r0.pending = pool.pending /\ r0.timer = pool.timer /\ r0.armed = pool.armed
    BY <1>1 DEF Typed, States
  <1>3. PICK r \in {pool, r0} : pool' = ReleaseAndForget(ClearWatchdog(r, c), c, j)
    BY DEF ReplayComplete, ReplayError
  <1> HIDE DEF r0
  <1>4. Touched(pool, r, c) /\ r.stage = pool.stage /\ r.pending = pool.pending
    <2>1. Touched(pool, pool, c)
      BY <1>1 DEF Touched
    <2>2. Touched(pool, r0, c)
      BY <1>1, <1>2 DEF Touched, Typed
    <2>3. QED BY <1>2, <1>3, <2>1, <2>2
  <1> DEFINE q == ClearWatchdog(r, c)
  <1>5. /\ Touched(pool, q, c) /\ q.stage = pool.stage /\ q.pending = pool.pending
        /\ \A i \in Jobs : pool.owner[i] = c => i \notin q.armed
    BY <1>1, <1>4, ClearFirst
  <1> HIDE DEF q
  <1>6. Freed(pool, ReleaseAndForget(q, c, j), c)
    BY <1>1, <1>5, ForgetFrees DEF Holding
  <1>7. QED BY <1>1, <1>3, <1>6 DEF q

LEMMA ForkFails ==
    ASSUME PoolInv, NEW j \in Jobs, ForkError(j)
    PROVE  \E c \in Conns : Freed(pool, pool', c)
  <1> DEFINE c == pool.owner[j]
             q == ClearWatchdog(pool, c)
             w == ReleaseAndForget(q, c, j)
             v == [w EXCEPT !.state[c] = "ready"]
  <1>1. /\ Good(pool) /\ j \in Holding(pool) /\ c \in Conns /\ pool.state[c] # "none"
        /\ pool.pending[c] = NoJob /\ pool' = v
    BY RunningHolds DEF ForkError, Running
  <1>2. /\ Touched(pool, q, c) /\ q.stage = pool.stage /\ q.pending = pool.pending
        /\ \A i \in Jobs : pool.owner[i] = c => i \notin q.armed
    <2>1. Touched(pool, pool, c)
      BY <1>1 DEF Touched, Good
    <2>2. QED BY <1>1, <2>1, ClearFirst
  <1> HIDE DEF q
  <1>3. /\ Freed(pool, w, c) /\ Typed(w) /\ w.worker[c] = NoJob /\ w.pending[c] = NoJob
    BY <1>1, <1>2, ForgetFrees DEF Holding
  <1> HIDE DEF w
  <1>4. /\ Typed(v) /\ v.state = [w.state EXCEPT ![c] = "ready"]
        /\ v.count = w.count /\ v.queue = w.queue /\ v.owner = w.owner /\ v.kind = w.kind
        /\ v.stage = w.stage /\ v.worker = w.worker /\ v.pending = w.pending
        /\ v.timer = w.timer /\ v.armed = w.armed
    BY <1>1, <1>3 DEF Typed, States
  <1> HIDE DEF v
  <1>5. Touched(w, v, c)
    BY <1>1, <1>3, <1>4 DEF Touched, Typed
  <1>6. Freed(pool, v, c)
    BY <1>1, <1>3, <1>4, <1>5, Ending
  <1>7. QED BY <1>1, <1>6

LEMMA ForkSucceeds ==
    ASSUME PoolInv, NEW j \in Jobs, ForkReady(j)
    PROVE  \E c \in Conns : Freed(pool, pool', c)
  <1> DEFINE c == pool.owner[j]
             q == ClearWatchdog(pool, c)
             x == [q EXCEPT !.state[c] = "transitioning"]
  <1>1. /\ Good(pool) /\ j \in Holding(pool) /\ c \in Conns /\ pool.state[c] # "none"
        /\ pool.pending[c] = NoJob /\ pool' = Transition(x, c, j)
    BY RunningHolds DEF ForkReady, Running
  <1>2. /\ Touched(pool, q, c) /\ q.stage = pool.stage /\ q.pending = pool.pending
        /\ \A i \in Jobs : pool.owner[i] = c => i \notin q.armed
    <2>1. Touched(pool, pool, c)
      BY <1>1 DEF Touched, Good
    <2>2. QED BY <1>1, <2>1, ClearFirst
  <1> HIDE DEF q
  <1>3. /\ Typed(x) /\ x.state = [q.state EXCEPT ![c] = "transitioning"]
        /\ x.count = q.count /\ x.queue = q.queue /\ x.owner = q.owner /\ x.kind = q.kind
        /\ x.stage = q.stage /\ x.worker = q.worker /\ x.pending = q.pending
        /\ x.timer = q.timer /\ x.armed = q.armed
    BY <1>1, <1>2 DEF Touched, Typed, States
  <1> HIDE DEF x
  <1>4. Touched(pool, x, c)
    BY <1>1, <1>2, <1>3 DEF Touched, Typed
  <1>5. QED BY <1>1, <1>2, <1>3, <1>4, TransitionFrees DEF Holding

LEMMA WorkerDies ==
    ASSUME PoolInv, AsViewed, NEW j \in Jobs, Exit(j)
    PROVE  \E c \in Conns : Freed(pool, pool', c)
  <1> DEFINE c == pool.owner[j]
             x == [pool EXCEPT !.worker[c] = NoJob]
  <1>1. pool.stage[j] = "running" /\ pool.kind[j] = "replay"
    BY DEF Exit, AsViewed, PoolInv, Good, Pointed
  <1>2. /\ Good(pool) /\ j \in Holding(pool) /\ c \in Conns /\ pool.state[c] # "none"
        /\ pool.worker[c] = j /\ pool.pending[c] = NoJob /\ Typed(pool)
    BY <1>1, RunningHolds DEF Good
  <1>3. pool' = Release(x, j)
    BY <1>2 DEF Exit
  <1>4. /\ Touched(pool, x, c) /\ x.stage = pool.stage
        /\ x.worker[c] = NoJob /\ x.pending[c] = NoJob
    BY <1>2, NullFields
  <1> HIDE DEF x
  <1>5. /\ Frees(pool, Release(x, j), c, {j})
        /\ Release(x, j).worker[c] = x.worker[c] /\ Release(x, j).pending[c] = x.pending[c]
    BY <1>1, <1>2, <1>4, Killing
  <1>6. QED BY <1>2, <1>3, <1>4, <1>5 DEF Freed

LEMMA WatchdogsFree ==
    ASSUME PoolInv, NEW j \in Jobs, ReplayWatchdog(j) \/ ForkWatchdog(j)
    PROVE  \E c \in Conns : Freed(pool, pool', c)
  <1> DEFINE c == pool.owner[j]
  <1>1. /\ Good(pool) /\ Typed(pool) /\ j \in pool.armed /\ pool.stage[j] # "unused"
        /\ pool.timer[c] = j /\ (pool.kind[j] = "fork" => pool.stage[j] = "running")
    BY DEF ReplayWatchdog, ForkWatchdog, PoolInv, Good, Watched
  <1>2. c \in Conns /\ pool.state[c] # "none"
    BY <1>1 DEF Good, Owned
  <1>3. CASE ReplayWatchdog(j)
    <2> DEFINE t == Cleanup(pool, c)
               v == [t EXCEPT !.armed = @ \ {j}]
    <2>1. Freed(pool, t, c) /\ pool' = v
      BY <1>1, <1>2, <1>3, CleanupFrees DEF ReplayWatchdog
    <2> HIDE DEF t
    <2>2. Typed(t) /\ t.state[c] # "none" /\ t.worker[c] = NoJob /\ t.pending[c] = NoJob
      BY <2>1 DEF Freed, Frees, Gives
    <2>3. /\ Typed(v) /\ v.armed = t.armed \ {j} /\ v.timer = t.timer
          /\ v.count = t.count /\ v.queue = t.queue /\ v.owner = t.owner /\ v.kind = t.kind
          /\ v.stage = t.stage /\ v.state = t.state /\ v.worker = t.worker
          /\ v.pending = t.pending
      BY <2>2 DEF Typed
    <2> HIDE DEF v
    <2>4. Touched(t, v, c)
      BY <2>2, <2>3 DEF Touched
    <2>5. Freed(pool, v, c)
      BY <1>2, <2>1, <2>2, <2>3, <2>4, Ending
    <2>6. QED BY <1>2, <2>1, <2>5
  <1>4. CASE ForkWatchdog(j)
    <2> DEFINE x == [pool EXCEPT !.armed = @ \ {j}]
               w == ReleaseAndForget(x, c, j)
               v == [w EXCEPT !.timer[c] = NoJob, !.state[c] = "ready"]
    <2>1. pool.kind[j] = "fork" /\ pool' = v
      BY <1>4 DEF ForkWatchdog
    <2>2. j \in Holding(pool) /\ pool.pending[c] = NoJob
      BY <1>1, <2>1, RunningHolds
    <2>3. /\ Typed(x) /\ x.armed = pool.armed \ {j} /\ x.timer = pool.timer
          /\ x.count = pool.count /\ x.queue = pool.queue /\ x.owner = pool.owner
          /\ x.kind = pool.kind /\ x.stage = pool.stage /\ x.state = pool.state
          /\ x.worker = pool.worker /\ x.pending = pool.pending
      BY <1>1 DEF Typed
    <2> HIDE DEF x
    <2>4. Touched(pool, x, c)
      BY <1>2, <2>3 DEF Touched
    <2>5. /\ Freed(pool, w, c) /\ Typed(w) /\ w.worker[c] = NoJob /\ w.pending[c] = NoJob
      BY <1>1, <1>2, <2>2, <2>3, <2>4, ForgetFrees
    <2> HIDE DEF w
    <2>6. ASSUME NEW i \in w.armed PROVE pool.owner[i] # c
      <3>1. PICK D : Frees(pool, w, c, D)
        BY <2>5 DEF Freed
      <3>2. j \in D /\ w.timer[pool.owner[i]] = i
        BY <2>2, <3>1 DEF Frees, Gives
      <3>3. CASE i \in pool.armed /\ (i \in D => pool.kind[i] = "replay")
        BY <1>1, <2>1, <3>2, <3>3 DEF Good, Watched
      <3>4. CASE D # {} /\ i \in Starts(pool)
        <4>1. i = Head(pool.queue) /\ pool.queue # <<>>
          BY <3>4 DEF Starts
        <4>2. QED BY <1>1, <2>2, <4>1, HeadIsAnothers
      <3>5. QED BY <3>1, <3>3, <3>4 DEF Frees
    <2>7. /\ Typed(v) /\ v.state = [w.state EXCEPT ![c] = "ready"]
          /\ v.timer = [w.timer EXCEPT ![c] = NoJob]
          /\ v.count = w.count /\ v.queue = w.queue /\ v.owner = w.owner /\ v.kind = w.kind
          /\ v.stage = w.stage /\ v.worker = w.worker /\ v.pending = w.pending
          /\ v.armed = w.armed
      BY <1>2, <2>5 DEF Typed, States
    <2> HIDE DEF v
    <2>8. w.owner = pool.owner
      BY <2>5 DEF Freed, Frees, Gives
    <2>9. \A i \in v.armed : v.timer[w.owner[i]] = w.timer[w.owner[i]]
      BY <2>5, <2>6, <2>7, <2>8 DEF Typed
    <2>10. Touched(w, v, c)
      BY <1>2, <2>5, <2>7, <2>9 DEF Touched, Typed
    <2>11. Freed(pool, v, c)
      BY <1>2, <2>5, <2>7, <2>10, Ending
    <2>12. QED BY <1>2, <2>1, <2>11
  <1>5. QED BY <1>3, <1>4

LEMMA ParkedForkEnds ==
    ASSUME PoolInv, NEW c \in Conns, ForkContinue(c) \/ ForkCancel(c)
    PROVE  Freed(pool, pool', c)
  <1>1. /\ Good(pool) /\ Typed(pool) /\ pool.state[c] = "fork_warning" /\ pool.pending[c] # NoJob
    BY DEF ForkContinue, ForkCancel, PoolInv, Good
  <1>2. PICK j \in Holding(pool) : /\ j = pool.pending[c] /\ pool.stage[j] = "parked"
                                  /\ pool.owner[j] = c /\ pool.kind[j] = "fork" /\ j \in Jobs
    BY <1>1 DEF Typed, Good, Pointed, Holding
  <1>3. pool.worker[c] = NoJob /\ j \notin pool.armed
    BY <1>1, <1>2, HoldsOne DEF Good, Watched
  <1>4. CASE ForkContinue(c)
    <2> DEFINE x == [pool EXCEPT !.pending[c] = NoJob, !.state[c] = "transitioning"]
    <2>1. pool' = Transition(x, c, j)
      BY <1>2, <1>4 DEF ForkContinue
    <2>2. /\ Typed(x) /\ x.pending = [pool.pending EXCEPT ![c] = NoJob]
          /\ x.state = [pool.state EXCEPT ![c] = "transitioning"]
          /\ x.count = pool.count /\ x.queue = pool.queue /\ x.owner = pool.owner
          /\ x.kind = pool.kind /\ x.stage = pool.stage /\ x.worker = pool.worker
          /\ x.timer = pool.timer /\ x.armed = pool.armed
      BY <1>1 DEF Typed, States
    <2> HIDE DEF x
    <2>3. Touched(pool, x, c) /\ x.pending[c] = NoJob
      BY <1>1, <2>2 DEF Touched, Typed
    <2>4. QED BY <1>1, <1>2, <1>3, <2>1, <2>2, <2>3, TransitionFrees
  <1>5. CASE ForkCancel(c)
    <2> DEFINE w == ReleasePending(pool, c)
               v == [w EXCEPT !.state[c] = "ready"]
    <2>1. pool' = v
      BY <1>5 DEF ForkCancel
    <2>2. Touched(pool, pool, c)
      BY <1>1 DEF Touched
    <2>3. Freed(pool, w, c) /\ Typed(w) /\ w.worker[c] = NoJob /\ w.pending[c] = NoJob
      BY <1>1, <1>2, <1>3, <2>2, UnparkFrees
    <2> HIDE DEF w
    <2>4. /\ Typed(v) /\ v.state = [w.state EXCEPT ![c] = "ready"]
          /\ v.count = w.count /\ v.queue = w.queue /\ v.owner = w.owner /\ v.kind = w.kind
          /\ v.stage = w.stage /\ v.worker = w.worker /\ v.pending = w.pending
          /\ v.timer = w.timer /\ v.armed = w.armed
      BY <2>3 DEF Typed, States
    <2> HIDE DEF v
    <2>5. Touched(w, v, c)
      BY <2>3, <2>4 DEF Touched, Typed
    <2>6. Freed(pool, v, c)
      BY <2>3, <2>4, <2>5, Ending
    <2>7. QED BY <2>1, <2>6
  <1>6. QED BY <1>4, <1>5

LEMMA SocketFrees ==
    ASSUME PoolInv, NEW c \in Conns, NEW more \in BOOLEAN, SocketEvent(c, more)
    PROVE  Freed(pool, pool', c)
  BY CleanupFrees DEF SocketEvent, PoolInv

\* What a step may do to the semaphore.
Slot ==
    \/ \E j \in Jobs : Slotted!Ask(j)
    \/ \E d, j \in Jobs : Slotted!Replace(d, j)
    \/ \E D \in SUBSET Holders : Slotted!Free(D) \/ Slotted!Drain(D)
    \/ UNCHANGED <<Holders, pool.queue>>

LEMMA SameCardinality == \A S : Slotted!Cardinality(S) = Cardinality(S)
  BY DEF Slotted!Cardinality, Cardinality

LEMMA FreedSteps ==
    ASSUME PoolInv, NEW c \in Conns, Freed(pool, pool', c)
    PROVE  Good(pool') /\ Slot
  <1>1. Good(pool) /\ pool.queue \in Seq(Jobs)
    BY DEF PoolInv, Good, Typed
  <1>2. PICK D : Frees(pool, pool', c, D) /\ pool'.worker[c] = NoJob /\ pool'.pending[c] = NoJob
    BY DEF Freed
  <1> DEFINE new == IF D = {} THEN {} ELSE Starts(pool)
  <1>3. /\ Good(pool') /\ Holding(pool') = (Holding(pool) \ D) \cup new
        /\ pool'.queue = IF new = {} THEN pool.queue ELSE Tail(pool.queue)
        /\ D = {} \/ \E j \in Holding(pool) : D = {j}
    BY <1>1, <1>2, FreesIsGood
  <1>4. Holders = Holding(pool) /\ Holders' = Holding(pool')
    BY DEF Holders, Holding
  <1>5. CASE D = {}
    BY <1>3, <1>4, <1>5 DEF Slot
  <1>6. ASSUME NEW j \in Holding(pool), D = {j} PROVE Slotted!Free({j})
    <2>1. Slotted!Cardinality({j}) = 1
      BY FS_Singleton, SameCardinality
    <2> DEFINE n == IF Len(pool.queue) < Slotted!Cardinality({j}) THEN Len(pool.queue)
                                                                ELSE Slotted!Cardinality({j})
    <2>2. /\ {pool.queue[i] : i \in 1..n} = new
          /\ SubSeq(pool.queue, n + 1, Len(pool.queue)) = pool'.queue
      <3>1. CASE pool.queue = <<>>
        <4>1. n = 0 /\ new = {} /\ pool'.queue = pool.queue /\ 1..0 = {}
          BY <1>1, <1>3, <1>6, <2>1, <3>1 DEF Starts
        <4>2. SubSeq(pool.queue, 0 + 1, Len(pool.queue)) = pool.queue
          BY <1>1, <3>1
        <4> HIDE DEF n, new
        <4>3. QED BY <4>1, <4>2
      <3>2. CASE pool.queue # <<>>
        <4>1. /\ n = 1 /\ new = {pool.queue[1]} /\ pool'.queue = Tail(pool.queue)
              /\ 1..1 = {1}
          BY <1>1, <1>3, <1>6, <2>1, <3>2 DEF Starts
        <4>2. SubSeq(pool.queue, 1 + 1, Len(pool.queue)) = Tail(pool.queue)
          BY <1>1, <3>2
        <4> HIDE DEF n, new
        <4>3. QED BY <4>1, <4>2
      <3>3. QED BY <3>1, <3>2
    <2>3. {j} # {} /\ {j} \subseteq Holders /\ Holders' = (Holders \ {j}) \cup new
      BY <1>3, <1>4, <1>6
    <2>4. (pool.queue)' = pool'.queue
      OBVIOUS
    <2> HIDE DEF new
    <2>5. QED BY <2>2, <2>3, <2>4 DEF Slotted!Free
  <1>7. QED BY <1>3, <1>4, <1>5, <1>6 DEF Slot

-----------------------------------------------------------------------------
(* Asking for a slot. *)

\* A connection with nothing in the pool asks for a job that nobody has yet.
LEMMA Asking ==
    ASSUME NEW s, Good(s), NEW j \in Jobs, s.stage[j] = "unused",
           NEW c \in Conns, s.owner[j] = c, s.state[c] # "none",
           \A i \in Busy(s) : s.owner[i] # c
    PROVE  LET t == TryStart(s, j)
           IN /\ Good(t) /\ j \notin Holding(s) /\ \A i \in 1..Len(s.queue) : s.queue[i] # j
              /\ IF Cardinality(Holding(s)) < MaxWorkers
                 THEN Holding(t) = Holding(s) \cup {j} /\ t.queue = s.queue
                 ELSE t.queue = Append(s.queue, j) /\ Holding(t) = Holding(s)
  <1>1. /\ Typed(s) /\ Owned(s) /\ Unique(s) /\ Pointed(s) /\ Watched(s) /\ Queued(s)
        /\ Counted(s)
    BY DEF Good
  <1>2. /\ j \notin Holding(s) /\ j \notin Busy(s) /\ j \notin s.armed
        /\ \A i \in 1..Len(s.queue) : s.queue[i] # j
    BY <1>1 DEF Holding, Busy, Watched, Queued
  <1>3. s.worker[c] = NoJob /\ s.pending[c] = NoJob
    BY <1>1 DEF Typed, Pointed, Busy
  <1>4. s.count = Cardinality(Holding(s)) /\ s.count \in 0..MaxWorkers
    BY <1>1 DEF Counted, Typed
  <1>5. CASE s.count < MaxWorkers
    <2> DEFINE r == [s EXCEPT !.count = @ + 1]
               t == Spawn(r, j)
    <2>1. /\ Typed(r) /\ r.count = s.count + 1
          /\ r.queue = s.queue /\ r.owner = s.owner /\ r.kind = s.kind
          /\ r.stage = s.stage /\ r.state = s.state /\ r.worker = s.worker
          /\ r.pending = s.pending /\ r.timer = s.timer /\ r.armed = s.armed
      <3>1. s.count + 1 \in 0..MaxWorkers
        BY <1>1, <1>5, WorkersAssumption DEF Typed
      <3>2. QED BY <1>1, <3>1 DEF Typed
    <2>2. TryStart(s, j) = t
      BY <1>5, Zenon DEF TryStart
    <2> HIDE DEF r
    <2>3. /\ Typed(t)
          /\ t.stage = [s.stage EXCEPT ![j] = "running"]
          /\ t.worker = [s.worker EXCEPT ![c] = j]
          /\ t.timer = [s.timer EXCEPT ![c] = j]
          /\ t.armed = (s.armed \ {s.timer[c]}) \cup {j}
          /\ t.count = s.count + 1 /\ t.queue = s.queue /\ t.owner = s.owner
          /\ t.kind = s.kind /\ t.state = s.state /\ t.pending = s.pending
      BY <2>1, SpawnFields
    <2> HIDE DEF t
    <2>4. Holding(t) = Holding(s) \cup {j} /\ Busy(t) = Busy(s) \cup {j}
      BY <1>1, <2>3 DEF Holding, Busy, Typed
    <2>5. Owned(t) /\ Unique(t)
      BY <1>1, <2>3, <2>4 DEF Owned, Unique, Typed
    <2>6. Pointed(t)
      BY <1>1, <1>2, <1>3, <2>3 DEF Pointed, Typed, Busy, Owned
    <2>7. Watched(t)
      BY <1>1, <2>3 DEF Watched, Typed, Owned
    <2>8. Queued(t)
      BY <1>1, <1>2, <2>3 DEF Queued, Typed
    <2>9. Counted(t)
      <3>1. Cardinality(Holding(s) \cup {j}) = Cardinality(Holding(s)) + 1
        <4>1. j \notin Holding(s)
          BY <1>2
        <4>2. IsFiniteSet(Holding(s))
          BY Counting
        <4>3. QED BY <4>1, <4>2, FS_AddElement
      <3>2. QED BY <1>4, <2>3, <2>4, <3>1 DEF Counted
    <2>10. Good(t)
      BY <2>3, <2>5, <2>6, <2>7, <2>8, <2>9 DEF Good
    <2>11. QED BY <1>2, <1>4, <1>5, <2>2, <2>3, <2>4, <2>10
  <1>6. CASE ~(s.count < MaxWorkers)
    <2> DEFINE t == [s EXCEPT !.queue = Append(@, j), !.stage[j] = "queued"]
    <2>1. TryStart(s, j) = t
      BY <1>6, Zenon DEF TryStart
    <2>2. /\ Typed(t) /\ t.queue = Append(s.queue, j)
          /\ t.stage = [s.stage EXCEPT ![j] = "queued"]
          /\ t.count = s.count /\ t.owner = s.owner /\ t.kind = s.kind
          /\ t.state = s.state /\ t.worker = s.worker
          /\ t.pending = s.pending /\ t.timer = s.timer /\ t.armed = s.armed
      <3>1. Append(s.queue, j) \in Seq(Jobs)
        BY <1>1 DEF Typed
      <3>2. QED BY <1>1, <3>1 DEF Typed, Stages
    <2> HIDE DEF t
    <2>3. Holding(t) = Holding(s) /\ Busy(t) = Busy(s) \cup {j}
      BY <1>1, <1>2, <2>2 DEF Holding, Busy, Typed
    <2>4. Owned(t) /\ Unique(t)
      BY <1>1, <2>2, <2>3 DEF Owned, Unique, Typed
    <2>5. Pointed(t)
      BY <1>1, <2>2 DEF Pointed, Typed
    <2>6. Watched(t)
      BY <1>1, <2>2 DEF Watched, Typed
    <2>7. Queued(t)
      <3>1. s.queue \in Seq(Jobs)
        BY <1>1 DEF Typed
      <3>2. /\ Len(t.queue) = Len(s.queue) + 1 /\ t.queue[Len(s.queue) + 1] = j
            /\ \A i \in 1..Len(s.queue) : t.queue[i] = s.queue[i] /\ s.queue[i] \in Jobs
        BY <2>2, <3>1
      <3>3. \A i \in 1..Len(t.queue) : i \in 1..Len(s.queue) \/ i = Len(s.queue) + 1
        BY <3>1, <3>2
      <3>4. \A i \in 1..Len(s.queue) : t.stage[t.queue[i]] = "queued"
        BY <1>1, <1>2, <2>2, <3>2 DEF Queued, Typed
      <3>5. t.stage[j] = "queued"
        BY <1>1, <2>2 DEF Typed
      <3>6. QED BY <1>1, <1>2, <3>2, <3>3, <3>4, <3>5 DEF Queued
    <2>8. Good(t)
      BY <1>1, <2>2, <2>3, <2>4, <2>5, <2>6, <2>7 DEF Good, Counted
    <2>9. QED BY <1>2, <1>4, <1>6, <2>1, <2>2, <2>3, <2>8
  <1>7. QED BY <1>5, <1>6

\* The connection c, that has nothing in the pool, makes the request j.
Requests(s, c, j) ==
    /\ IsNextJob(j) /\ Typed(s)
    /\ \A i \in Busy(pool) : pool.owner[i] # c
    /\ s.owner[j] = c
    /\ \A i \in Jobs \ {j} : s.owner[i] = pool.owner[i] /\ s.kind[i] = pool.kind[i]
    /\ s.state[c] # "none" /\ \A d \in Conns \ {c} : s.state[d] = pool.state[d]
    /\ s.count = pool.count /\ s.queue = pool.queue /\ s.stage = pool.stage
    /\ s.worker = pool.worker /\ s.pending = pool.pending
    /\ s.timer = pool.timer /\ s.armed = pool.armed

LEMMA Requesting ==
    ASSUME PoolInv, NEW c \in Conns, NEW j \in Jobs, NEW s, Requests(s, c, j)
    PROVE  /\ Good(s) /\ s.stage[j] = "unused" /\ s.owner[j] = c
           /\ \A i \in Busy(s) : s.owner[i] # c
           /\ Holding(s) = Holding(pool)
  <1>0. /\ Typed(s) /\ s.owner[j] = c /\ \A i \in Busy(pool) : pool.owner[i] # c
        /\ \A i \in Jobs \ {j} : s.owner[i] = pool.owner[i] /\ s.kind[i] = pool.kind[i]
        /\ s.state[c] # "none" /\ \A d \in Conns \ {c} : s.state[d] = pool.state[d]
        /\ s.count = pool.count /\ s.queue = pool.queue /\ s.stage = pool.stage
        /\ s.worker = pool.worker /\ s.pending = pool.pending
        /\ s.timer = pool.timer /\ s.armed = pool.armed
    BY DEF Requests
  <1>1. /\ Typed(pool) /\ Owned(pool) /\ Unique(pool) /\ Pointed(pool) /\ Watched(pool)
        /\ Queued(pool) /\ Counted(pool) /\ pool.stage[j] = "unused"
    BY DEF PoolInv, Good, IsNextJob, Requests
  <1>2. Holding(s) = Holding(pool) /\ Busy(s) = Busy(pool) /\ s.owner[j] = c
    BY <1>0, <1>1 DEF Holding, Busy, Typed
  <1>3. \A i \in Jobs : i # j => s.owner[i] = pool.owner[i] /\ s.kind[i] = pool.kind[i]
    BY <1>0, <1>1 DEF Typed
  <1>4. pool.worker[c] = NoJob /\ pool.pending[c] = NoJob
    BY <1>0, <1>1 DEF Typed, Pointed, Busy
  <1>5. Owned(s)
    BY <1>0, <1>1, <1>3 DEF Owned
  <1>6. Unique(s)
    BY <1>0, <1>1, <1>2, <1>3 DEF Unique, Busy
  <1>7. Pointed(s)
    <2>1. \A i \in Jobs :
             /\ s.stage[i] = "running" => s.worker[s.owner[i]] = i
             /\ s.stage[i] = "parked" => s.pending[s.owner[i]] = i /\ s.kind[i] = "fork"
      BY <1>0, <1>1, <1>3 DEF Pointed
    <2>2. ASSUME NEW d \in Conns, s.worker[d] # NoJob
          PROVE  s.stage[s.worker[d]] = "running" /\ s.owner[s.worker[d]] = d
      BY <2>2, <1>0, <1>1, <1>3 DEF Pointed, Typed
    <2>3. ASSUME NEW d \in Conns, s.pending[d] # NoJob
          PROVE  /\ s.stage[s.pending[d]] = "parked" /\ s.owner[s.pending[d]] = d
                 /\ s.state[d] = "fork_warning"
      BY <2>3, <1>0, <1>1, <1>3, <1>4 DEF Pointed, Typed
    <2>4. QED BY <2>1, <2>2, <2>3 DEF Pointed
  <1>8. Watched(s)
    BY <1>0, <1>1, <1>3 DEF Watched, Typed
  <1>9. Good(s)
    BY <1>0, <1>1, <1>2, <1>5, <1>6, <1>7, <1>8 DEF Good, Queued, Counted
  <1>10. s.stage[j] = "unused" /\ \A i \in Busy(s) : s.owner[i] # c
    BY <1>0, <1>1, <1>2, <1>3 DEF Busy
  <1>11. QED BY <1>0, <1>2, <1>9, <1>10

\* The request is a step of the semaphore.
LEMMA RequestSteps ==
    ASSUME PoolInv, NEW c \in Conns, NEW j \in Jobs,
           NEW s, Good(s), s.stage[j] = "unused", s.owner[j] = c, s.state[c] # "none",
           \A i \in Busy(s) : s.owner[i] # c,
           Holding(s) = Holding(pool), s.queue = pool.queue, pool' = TryStart(s, j)
    PROVE  Good(pool') /\ Slot
  <1> DEFINE t == TryStart(s, j)
  <1>1. /\ Good(t) /\ j \notin Holding(s) /\ \A i \in 1..Len(s.queue) : s.queue[i] # j
        /\ IF Cardinality(Holding(s)) < MaxWorkers
           THEN Holding(t) = Holding(s) \cup {j} /\ t.queue = s.queue
           ELSE t.queue = Append(s.queue, j) /\ Holding(t) = Holding(s)
    BY Asking
  <1> HIDE DEF t
  <1>2. pool' = t /\ Holders = Holding(pool) /\ Holders' = Holding(pool')
    BY DEF Holders, Holding, t
  <1>3. DOMAIN pool.queue = 1..Len(pool.queue)
    BY DEF PoolInv, Good, Typed
  <1>4. Slotted!Ask(j)
    BY <1>1, <1>2, <1>3, SameCardinality DEF Slotted!Ask
  <1>5. QED BY <1>1, <1>2, <1>4 DEF Slot

LEMMA ConnectSteps ==
    ASSUME PoolInv, NEW c \in Conns, NEW j \in Jobs, Connect(c, j)
    PROVE  Good(pool') /\ Slot
  <1> DEFINE s == Requested([pool EXCEPT !.state[c] = "loading", !.active = @ \cup {c}],
                            j, c, "replay")
  <1>1. /\ Typed(pool) /\ pool.state[c] = "none" /\ IsNextJob(j) /\ pool' = TryStart(s, j)
        /\ Owned(pool)
    BY DEF Connect, PoolInv, Good
  <1>2. /\ Typed(s) /\ s.state = [pool.state EXCEPT ![c] = "loading"]
        /\ s.owner = [pool.owner EXCEPT ![j] = c] /\ s.kind = [pool.kind EXCEPT ![j] = "replay"]
        /\ s.count = pool.count /\ s.queue = pool.queue /\ s.stage = pool.stage
        /\ s.worker = pool.worker /\ s.pending = pool.pending
        /\ s.timer = pool.timer /\ s.armed = pool.armed
    BY <1>1 DEF Typed, Requested, States, Kinds
  <1> HIDE DEF s
  <1>3. \A i \in Busy(pool) : pool.owner[i] # c
    BY <1>1 DEF Owned, Busy
  <1>4. s.state[c] # "none" /\ \A d \in Conns \ {c} : s.state[d] = pool.state[d]
    BY <1>1, <1>2 DEF Typed
  <1>5. /\ s.owner[j] = c
        /\ \A i \in Jobs \ {j} : s.owner[i] = pool.owner[i] /\ s.kind[i] = pool.kind[i]
    BY <1>1, <1>2 DEF Typed
  <1>6. /\ Good(s) /\ s.stage[j] = "unused" /\ s.owner[j] = c
        /\ \A i \in Busy(s) : s.owner[i] # c
        /\ Holding(s) = Holding(pool)
    <2>1. Requests(s, c, j)
      BY <1>1, <1>2, <1>3, <1>4, <1>5 DEF Requests
    <2>2. QED BY <2>1, Requesting
  <1>7. QED BY <1>1, <1>2, <1>4, <1>6, RequestSteps

\* The fork j takes over the slot of the replay, still running, of its connection.
TakesOver(t, c, j, had) ==
    /\ IsNextJob(j) /\ pool.worker[c] = had /\ Typed(t)
    /\ t.owner[j] = c
    /\ \A i \in Jobs \ {j} : t.owner[i] = pool.owner[i] /\ t.kind[i] = pool.kind[i]
    /\ \A i \in Jobs : t.stage[i] = IF i = j THEN "running"
                                   ELSE IF i = had THEN "dead" ELSE pool.stage[i]
    /\ \A d \in Conns : /\ t.worker[d] = IF d = c THEN j ELSE pool.worker[d]
                        /\ t.timer[d] = IF d = c THEN j ELSE pool.timer[d]
                        /\ t.state[d] = IF d = c THEN "fork_pending" ELSE pool.state[d]
    /\ t.armed = (pool.armed \ {pool.timer[c]}) \cup {j}
    /\ t.count = pool.count /\ t.queue = pool.queue /\ t.pending = pool.pending

LEMMA TakeOver ==
    ASSUME PoolInv, NEW c \in Conns, NEW j \in Jobs, NEW had \in Jobs,
           NEW t, TakesOver(t, c, j, had), pool' = t
    PROVE  Good(pool') /\ Slot
  <1>0. /\ pool.worker[c] = had /\ Typed(t) /\ t.owner[j] = c
        /\ \A i \in Jobs \ {j} : t.owner[i] = pool.owner[i] /\ t.kind[i] = pool.kind[i]
        /\ \A i \in Jobs : t.stage[i] = IF i = j THEN "running"
                                       ELSE IF i = had THEN "dead" ELSE pool.stage[i]
        /\ \A d \in Conns : /\ t.worker[d] = IF d = c THEN j ELSE pool.worker[d]
                            /\ t.timer[d] = IF d = c THEN j ELSE pool.timer[d]
                            /\ t.state[d] = IF d = c THEN "fork_pending" ELSE pool.state[d]
        /\ t.armed = (pool.armed \ {pool.timer[c]}) \cup {j}
        /\ t.count = pool.count /\ t.queue = pool.queue /\ t.pending = pool.pending
    BY DEF TakesOver
  <1>1. /\ Typed(pool) /\ Owned(pool) /\ Unique(pool) /\ Pointed(pool) /\ Watched(pool)
        /\ Queued(pool) /\ Counted(pool) /\ pool.stage[j] = "unused" /\ Good(pool)
    BY DEF PoolInv, Good, IsNextJob, TakesOver
  <1>2. /\ pool.stage[had] = "running" /\ pool.owner[had] = c /\ had # j /\ had \in Holding(pool)
    BY <1>0, <1>1 DEF Pointed, Holding, Jobs, NoJob
  <1>3. /\ pool.state[c] # "none" /\ pool.pending[c] = NoJob
        /\ \A i \in Busy(pool) : i # had => pool.owner[i] # c
    BY <1>0, <1>1, <1>2, HoldsOne DEF Unique, Busy, Holding
  <1>4. t.owner[j] = c /\ \A i \in Jobs : i # j => t.owner[i] = pool.owner[i]
                                                 /\ t.kind[i] = pool.kind[i]
    BY <1>0, <1>1 DEF Typed
  <1>7. /\ Holding(t) = (Holding(pool) \ {had}) \cup {j} /\ j \notin Holding(pool)
        /\ Busy(t) = (Busy(pool) \ {had}) \cup {j}
    BY <1>0, <1>1, <1>2 DEF Holding, Busy
  <1>8. Owned(t)
    <2>1. ASSUME NEW i \in Jobs, t.stage[i] # "unused"
          PROVE  t.owner[i] \in Conns /\ t.state[t.owner[i]] # "none"
      <3>1. CASE i = j
        BY <1>0, <3>1, <1>4
      <3>2. CASE i # j
        <4>1. pool.stage[i] # "unused" /\ t.owner[i] = pool.owner[i]
          BY <1>0, <3>2, <2>1, <1>2, <1>4
        <4>2. pool.owner[i] \in Conns /\ pool.state[pool.owner[i]] # "none"
          BY <1>0, <4>1, <1>1 DEF Owned
        <4>3. QED BY <1>0, <4>1, <4>2
      <3>3. QED BY <1>0, <3>1, <3>2
    <2>2. QED BY <1>0, <2>1 DEF Owned
  <1>9. Unique(t)
    <2>1. \A i \in Busy(pool) : i # j
      BY <1>0, <1>1 DEF Busy
    <2>2. QED BY <1>0, <1>1, <1>3, <1>4, <1>7, <2>1 DEF Unique, Busy
  <1>10. Pointed(t)
    <2>1. ASSUME NEW i \in Jobs
          PROVE  /\ t.stage[i] = "running" => t.worker[t.owner[i]] = i
                 /\ t.stage[i] = "parked" => t.pending[t.owner[i]] = i /\ t.kind[i] = "fork"
      <3>1. CASE i = j
        BY <1>0, <3>1, <1>4
      <3>2. CASE i # j /\ t.stage[i] \in {"running", "parked"}
        <4>1. i \in Busy(pool) /\ i # had /\ t.stage[i] = pool.stage[i]
          BY <1>0, <3>2 DEF Busy
        <4>2. pool.owner[i] \in Conns /\ pool.owner[i] # c /\ t.owner[i] = pool.owner[i]
          BY <1>0, <3>2, <4>1, <1>1, <1>3, <1>4 DEF Owned, Busy
        <4>3. QED BY <1>0, <3>2, <4>1, <4>2, <1>1, <1>4 DEF Pointed
      <3>3. QED BY <1>0, <3>1, <3>2
    <2>2. ASSUME NEW d \in Conns, t.worker[d] # NoJob
          PROVE  t.stage[t.worker[d]] = "running" /\ t.owner[t.worker[d]] = d
      <3>1. CASE d = c
        BY <1>0, <3>1, <1>4
      <3>2. CASE d # c
        <4>1. t.worker[d] = pool.worker[d] /\ pool.worker[d] \in Jobs
          BY <1>0, <3>2, <2>2, <1>1 DEF Typed
        <4>2. pool.stage[pool.worker[d]] = "running" /\ pool.owner[pool.worker[d]] = d
          BY <1>0, <4>1, <2>2, <1>1 DEF Pointed
        <4>3. pool.worker[d] # had /\ pool.worker[d] # j
          BY <1>0, <3>2, <4>2, <1>1, <1>2
        <4>4. QED BY <1>0, <4>1, <4>2, <4>3, <1>4
      <3>3. QED BY <1>0, <3>1, <3>2
    <2>3. ASSUME NEW d \in Conns, t.pending[d] # NoJob
          PROVE  /\ t.stage[t.pending[d]] = "parked" /\ t.owner[t.pending[d]] = d
                 /\ t.state[d] = "fork_warning"
      <3>1. t.pending[d] = pool.pending[d] /\ pool.pending[d] \in Jobs
        BY <1>0, <2>3, <1>1 DEF Typed
      <3>2. /\ pool.stage[pool.pending[d]] = "parked" /\ pool.owner[pool.pending[d]] = d
            /\ pool.state[d] = "fork_warning" /\ d # c
        BY <1>0, <3>1, <2>3, <1>1, <1>3 DEF Pointed
      <3>3. pool.pending[d] # had /\ pool.pending[d] # j
        BY <1>0, <3>2, <1>1, <1>2
      <3>4. QED BY <1>0, <3>1, <3>2, <3>3, <1>4
    <2>4. QED BY <1>0, <2>1, <2>2, <2>3 DEF Pointed
  <1>11. Watched(t)
    <2>1. ASSUME NEW i \in t.armed
          PROVE  /\ t.stage[i] # "unused" /\ t.timer[t.owner[i]] = i
                 /\ t.kind[i] = "fork" => t.stage[i] = "running"
      <3>1. CASE i = j
        BY <1>0, <3>1, <1>4
      <3>2. CASE i # j
        <4>1. i \in pool.armed /\ i # pool.timer[c] /\ i \in Jobs
          BY <1>0, <3>2, <1>1 DEF Typed
        <4>2. /\ pool.stage[i] # "unused" /\ pool.timer[pool.owner[i]] = i
              /\ pool.kind[i] = "fork" => pool.stage[i] = "running"
          BY <1>0, <4>1, <1>1 DEF Watched
        <4>3. pool.owner[i] \in Conns /\ pool.owner[i] # c /\ i # had
          BY <1>0, <4>1, <4>2, <1>1, <1>2 DEF Owned
        <4>4. QED BY <1>0, <3>2, <4>1, <4>2, <4>3, <1>4
      <3>3. QED BY <1>0, <3>1, <3>2
    <2>2. QED BY <1>0, <2>1 DEF Watched
  <1>12. Queued(t)
    <2>1. \A i \in 1..Len(pool.queue) : pool.queue[i] \in Jobs
      BY <1>0, <1>1 DEF Typed
    <2>2. \A i \in 1..Len(pool.queue) : pool.queue[i] # j /\ pool.queue[i] # had
      BY <1>0, <1>1, <1>2 DEF Queued
    <2>3. QED BY <1>0, <1>1, <2>1, <2>2 DEF Queued
  <1>13. Counted(t)
    <2>1. Cardinality(Holding(t)) = Cardinality(Holding(pool))
      <3>1. j \in Jobs \ Holding(pool)
        BY <1>0, <1>7
      <3>2. \A i \in Holding(pool), h \in Jobs \ Holding(pool) :
               Cardinality((Holding(pool) \ {i}) \cup {h}) = Cardinality(Holding(pool))
        BY <1>0, <1>1, Counting
      <3>3. QED BY <1>0, <1>2, <1>7, <3>1, <3>2
    <2>2. QED BY <1>0, <1>1, <2>1 DEF Counted
  <1>14. Good(t)
    BY <1>0, <1>8, <1>9, <1>10, <1>11, <1>12, <1>13 DEF Good
  <1>15. pool' = t /\ Holders = Holding(pool) /\ Holders' = Holding(pool')
    BY DEF Holders, Holding
  <1>16. DOMAIN pool.queue = 1..Len(pool.queue) /\ \A i \in DOMAIN pool.queue : pool.queue[i] # j
    BY <1>0, <1>1 DEF Typed, Queued
  <1>17. Slotted!Replace(had, j)
    BY <1>0, <1>2, <1>7, <1>15, <1>16 DEF Slotted!Replace
  <1>18. QED BY <1>0, <1>14, <1>15, <1>17 DEF Slot

LEMMA ReplayForkSteps ==
    ASSUME PoolInv, AsViewed, NEW c \in Conns, NEW j \in Jobs, ReplayFork(c, j)
    PROVE  Good(pool') /\ Slot
  <1> DEFINE had == pool.worker[c]
             s0 == Requested(pool, j, c, "fork")
             s1 == IF had = NoJob THEN s0 ELSE [Kill(s0, had) EXCEPT !.worker[c] = NoJob]
             s2 == [ReleasePending(s1, c) EXCEPT !.state[c] = "fork_pending"]
  <1>1. /\ Typed(pool) /\ Pointed(pool) /\ IsNextJob(j) /\ pool.state[c] \in {"loading", "ready"}
        /\ pool' = IF had = NoJob THEN TryStart(s2, j) ELSE Spawn(s2, j)
        /\ \A i \in Jobs : pool.owner[i] = c => pool.stage[i] # "queued"
    BY DEF ReplayFork, PoolInv, Good, MayFork, AsViewed
  <1>2. pool.pending[c] = NoJob /\ had \in Jobs \cup {NoJob}
    BY <1>1 DEF Pointed, Typed
  <1>3. /\ Typed(s0) /\ s0.owner = [pool.owner EXCEPT ![j] = c]
        /\ s0.kind = [pool.kind EXCEPT ![j] = "fork"]
        /\ s0.count = pool.count /\ s0.queue = pool.queue /\ s0.stage = pool.stage
        /\ s0.state = pool.state /\ s0.worker = pool.worker /\ s0.pending = pool.pending
        /\ s0.timer = pool.timer /\ s0.armed = pool.armed
    BY <1>1 DEF Typed, Requested, Kinds
  <1> HIDE DEF s0
  <1>4. CASE had = NoJob
    <2> DEFINE r == [s0 EXCEPT !.state[c] = "fork_pending"]
    <2>1. pool' = TryStart(r, j)
      BY <1>1, <1>2, <1>3, <1>4, Zenon DEF ReleasePending
    <2>2. /\ Typed(r) /\ r.state = [pool.state EXCEPT ![c] = "fork_pending"]
          /\ r.owner = s0.owner /\ r.kind = s0.kind
          /\ r.count = pool.count /\ r.queue = pool.queue /\ r.stage = pool.stage
          /\ r.worker = pool.worker /\ r.pending = pool.pending
          /\ r.timer = pool.timer /\ r.armed = pool.armed
      BY <1>3 DEF Typed, States
    <2> HIDE DEF r
    <2>3. r.state[c] # "none" /\ \A d \in Conns \ {c} : r.state[d] = pool.state[d]
      BY <1>1, <2>2 DEF Typed
    <2>4. \A i \in Busy(pool) : pool.owner[i] # c
      BY <1>1, <1>2, <1>4 DEF Busy, Pointed, Jobs, NoJob
    <2>5. IsNextJob(j) /\ r.owner[j] = c
      BY <1>1, <1>3, <2>2 DEF Typed
    <2>6. \A i \in Jobs \ {j} : r.owner[i] = pool.owner[i] /\ r.kind[i] = pool.kind[i]
      BY <1>1, <1>3, <2>2 DEF Typed
    <2>7. /\ Good(r) /\ r.stage[j] = "unused" /\ r.owner[j] = c
          /\ \A i \in Busy(r) : r.owner[i] # c
          /\ Holding(r) = Holding(pool)
      <3>1. Requests(r, c, j)
        BY <2>2, <2>3, <2>4, <2>5, <2>6 DEF Requests
      <3>2. QED BY <3>1, Requesting
    <2>8. QED BY <2>1, <2>2, <2>3, <2>7, RequestSteps
  <1>5. CASE had # NoJob
    <2> DEFINE u == [Kill(s0, had) EXCEPT !.worker[c] = NoJob]
               r == [u EXCEPT !.state[c] = "fork_pending"]
    <2>1. had \in Jobs
      BY <1>2, <1>5
    <2>2. /\ Typed(u) /\ u.stage = [pool.stage EXCEPT ![had] = "dead"]
          /\ u.worker = [pool.worker EXCEPT ![c] = NoJob]
          /\ u.owner = s0.owner /\ u.kind = s0.kind /\ u.state = pool.state
          /\ u.count = pool.count /\ u.queue = pool.queue
          /\ u.pending = pool.pending /\ u.timer = pool.timer /\ u.armed = pool.armed
      <3>5. had \in Jobs
        BY <2>1
      <3> HIDE DEF had
      <3> DEFINE v == Kill(s0, had)
      <3>1. /\ Typed(v) /\ v.stage = [s0.stage EXCEPT ![had] = "dead"]
            /\ v.count = s0.count /\ v.queue = s0.queue /\ v.owner = s0.owner
            /\ v.kind = s0.kind /\ v.state = s0.state /\ v.worker = s0.worker
            /\ v.pending = s0.pending /\ v.timer = s0.timer /\ v.armed = s0.armed
        BY <1>3, <3>5, KillFields
      <3> HIDE DEF v
      <3> DEFINE w == [v EXCEPT !.worker[c] = NoJob]
      <3>2. /\ Typed(w) /\ w.worker = [v.worker EXCEPT ![c] = NoJob]
            /\ w.count = v.count /\ w.queue = v.queue /\ w.owner = v.owner
            /\ w.kind = v.kind /\ w.state = v.state /\ w.stage = v.stage
            /\ w.pending = v.pending /\ w.timer = v.timer /\ w.armed = v.armed
        BY <3>1 DEF Typed
      <3> HIDE DEF w
      <3>3. w = u
        BY Zenon DEF w, v
      <3> HIDE DEF u
      <3>4. QED BY <1>3, <3>1, <3>2, <3>3
    <2>3. pool' = Spawn(r, j)
      <3>1. u.pending[c] = NoJob
        BY <1>2, <2>2
      <3>2. s1 = u
        BY <1>5, Zenon
      <3> HIDE DEF u, s1
      <3>3. QED BY <1>1, <1>5, <3>1, <3>2, Zenon DEF ReleasePending
    <2> HIDE DEF u
    <2>4. /\ Typed(r) /\ r.state = [pool.state EXCEPT ![c] = "fork_pending"]
          /\ r.owner = u.owner /\ r.kind = u.kind
          /\ r.count = u.count /\ r.queue = u.queue /\ r.stage = u.stage
          /\ r.worker = u.worker /\ r.pending = u.pending
          /\ r.timer = u.timer /\ r.armed = u.armed
      BY <2>2 DEF Typed, States
    <2> HIDE DEF r
    <2>5. /\ IsNextJob(j) /\ r.owner = [pool.owner EXCEPT ![j] = c]
          /\ r.kind = [pool.kind EXCEPT ![j] = "fork"] /\ pool.worker[c] = had
          /\ r.stage = [pool.stage EXCEPT ![had] = "dead"]
          /\ r.worker = [pool.worker EXCEPT ![c] = NoJob]
          /\ r.count = pool.count /\ r.queue = pool.queue /\ r.pending = pool.pending
          /\ r.timer = pool.timer /\ r.armed = pool.armed
      BY <1>1, <1>3, <2>2, <2>4
    <2>6. /\ Typed(pool) /\ had \in Jobs
      BY <1>1, <2>1
    <2> HIDE DEF had
    <2> DEFINE t == Spawn(r, j)
    <2>7. r.owner[j] = c
      BY <2>5, <2>6 DEF Typed
    <2>8. /\ Typed(t)
          /\ t.stage = [r.stage EXCEPT ![j] = "running"]
          /\ t.worker = [r.worker EXCEPT ![r.owner[j]] = j]
          /\ t.timer = [r.timer EXCEPT ![r.owner[j]] = j]
          /\ t.armed = (r.armed \ {r.timer[r.owner[j]]}) \cup {j}
          /\ t.count = r.count /\ t.queue = r.queue /\ t.owner = r.owner /\ t.kind = r.kind
          /\ t.state = r.state /\ t.pending = r.pending
      BY <2>4, <2>7, SpawnFields
    <2>9. pool' = t
      BY <2>3
    <2> HIDE DEF t
    <2>10. /\ t.owner[j] = c
           /\ \A i \in Jobs \ {j} : t.owner[i] = pool.owner[i] /\ t.kind[i] = pool.kind[i]
           /\ \A i \in Jobs : t.stage[i] = IF i = j THEN "running"
                                           ELSE IF i = had THEN "dead" ELSE pool.stage[i]
           /\ t.armed = (pool.armed \ {pool.timer[c]}) \cup {j}
           /\ t.count = pool.count /\ t.queue = pool.queue /\ t.pending = pool.pending
      BY <2>4, <2>5, <2>6, <2>7, <2>8 DEF Typed
    <2>11. \A d \in Conns : /\ t.worker[d] = IF d = c THEN j ELSE pool.worker[d]
                            /\ t.timer[d] = IF d = c THEN j ELSE pool.timer[d]
                            /\ t.state[d] = IF d = c THEN "fork_pending" ELSE pool.state[d]
      BY <2>4, <2>5, <2>6, <2>7, <2>8 DEF Typed
    <2>12. TakesOver(t, c, j, had)
      BY <2>5, <2>8, <2>10, <2>11 DEF TakesOver
    <2>13. QED BY <2>6, <2>9, <2>12, TakeOver
  <1>6. QED BY <1>4, <1>5

-----------------------------------------------------------------------------
(* The other actions. *)

LEMMA ChunkSteps ==
    ASSUME PoolInv, NEW j \in Jobs, StreamChunk(j)
    PROVE  Good(pool') /\ Slot
  <1> DEFINE c == pool.owner[j]
             t == ArmWatchdog(pool, c, j)
  <1>1. /\ Typed(pool) /\ Owned(pool) /\ Unique(pool) /\ Pointed(pool) /\ Watched(pool)
        /\ Queued(pool) /\ Counted(pool)
        /\ pool.stage[j] = "running" /\ pool.kind[j] = "replay" /\ pool' = t
    BY DEF PoolInv, Good, StreamChunk, Running
  <1>2. c \in Conns
    BY <1>1 DEF Owned
  <1>3. /\ Typed(t)
        /\ t.timer = [pool.timer EXCEPT ![c] = j]
        /\ t.armed = (pool.armed \ {pool.timer[c]}) \cup {j}
        /\ t.count = pool.count /\ t.queue = pool.queue /\ t.owner = pool.owner
        /\ t.kind = pool.kind /\ t.stage = pool.stage /\ t.state = pool.state
        /\ t.worker = pool.worker /\ t.pending = pool.pending
    BY <1>1, <1>2, ArmFields
  <1> HIDE DEF t
  <1>4. Holding(t) = Holding(pool) /\ Busy(t) = Busy(pool)
    BY <1>3 DEF Holding, Busy
  <1>5. Watched(t)
    BY <1>1, <1>2, <1>3 DEF Watched, Owned, Typed
  <1>6. Good(t)
    BY <1>1, <1>3, <1>4, <1>5 DEF Good, Owned, Unique, Pointed, Queued, Counted
  <1>7. QED BY <1>1, <1>3, <1>4, <1>6 DEF Slot, Holders, Holding

LEMMA DivergedSteps ==
    ASSUME PoolInv, NEW j \in Jobs, ForkDiverged(j)
    PROVE  Good(pool') /\ Slot
  <1> DEFINE c == pool.owner[j]
             q == ClearWatchdog(pool, c)
             t == [q EXCEPT !.state[c] = "fork_warning", !.pending[c] = j, !.worker[c] = NoJob,
                            !.stage[j] = "parked"]
  <1>1. /\ Typed(pool) /\ Owned(pool) /\ Unique(pool) /\ Pointed(pool) /\ Watched(pool)
        /\ Queued(pool) /\ Counted(pool) /\ Good(pool)
        /\ pool.stage[j] = "running" /\ pool.kind[j] = "fork" /\ pool' = t
    BY DEF PoolInv, Good, ForkDiverged, Running
  <1>2. /\ c \in Conns /\ pool.worker[c] = j /\ pool.pending[c] = NoJob /\ j \in Holding(pool)
        /\ \A i \in Busy(pool) : pool.owner[i] = c => i = j
    BY <1>1, RunningHolds DEF Unique, Busy, Holding
  <1>3. /\ Typed(q) /\ q.timer = [pool.timer EXCEPT ![c] = NoJob]
        /\ q.armed = pool.armed \ {pool.timer[c]}
        /\ q.count = pool.count /\ q.queue = pool.queue /\ q.owner = pool.owner
        /\ q.kind = pool.kind /\ q.stage = pool.stage /\ q.state = pool.state
        /\ q.worker = pool.worker /\ q.pending = pool.pending
    BY <1>1, <1>2, ClearFields
  <1> HIDE DEF q
  <1>4. /\ Typed(t) /\ t.state = [pool.state EXCEPT ![c] = "fork_warning"]
        /\ t.pending = [pool.pending EXCEPT ![c] = j] /\ t.worker = [pool.worker EXCEPT ![c] = NoJob]
        /\ t.stage = [pool.stage EXCEPT ![j] = "parked"]
        /\ t.timer = [pool.timer EXCEPT ![c] = NoJob] /\ t.armed = pool.armed \ {pool.timer[c]}
        /\ t.count = pool.count /\ t.queue = pool.queue /\ t.owner = pool.owner
        /\ t.kind = pool.kind
    BY <1>2, <1>3 DEF Typed, States, Stages
  <1> HIDE DEF t
  <1>5. /\ \A i \in Jobs : t.stage[i] = IF i = j THEN "parked" ELSE pool.stage[i]
        /\ \A d \in Conns : /\ t.worker[d] = IF d = c THEN NoJob ELSE pool.worker[d]
                            /\ t.pending[d] = IF d = c THEN j ELSE pool.pending[d]
                            /\ t.timer[d] = IF d = c THEN NoJob ELSE pool.timer[d]
                            /\ t.state[d] = IF d = c THEN "fork_warning" ELSE pool.state[d]
    BY <1>1, <1>2, <1>4 DEF Typed
  <1>6. Holding(t) = Holding(pool) /\ Busy(t) = Busy(pool)
    BY <1>1, <1>5 DEF Holding, Busy
  <1>7. Owned(t) /\ Unique(t)
    BY <1>1, <1>4, <1>5, <1>6 DEF Owned, Unique
  <1>8. Pointed(t)
    <2>1. ASSUME NEW i \in Jobs
          PROVE  /\ t.stage[i] = "running" => t.worker[t.owner[i]] = i
                 /\ t.stage[i] = "parked" => t.pending[t.owner[i]] = i /\ t.kind[i] = "fork"
      <3>1. CASE i = j
        BY <3>1, <1>1, <1>2, <1>4, <1>5
      <3>2. CASE i # j /\ t.stage[i] \in {"running", "parked"}
        <4>1. i \in Busy(pool) /\ t.stage[i] = pool.stage[i]
          BY <3>2, <1>5 DEF Busy
        <4>2. pool.owner[i] \in Conns /\ pool.owner[i] # c
          BY <3>2, <4>1, <1>1, <1>2 DEF Owned, Busy
        <4>3. QED BY <3>2, <4>1, <4>2, <1>1, <1>4, <1>5 DEF Pointed
      <3>3. QED BY <3>1, <3>2
    <2>2. ASSUME NEW d \in Conns, t.worker[d] # NoJob
          PROVE  t.stage[t.worker[d]] = "running" /\ t.owner[t.worker[d]] = d
      <3>1. d # c /\ t.worker[d] = pool.worker[d] /\ pool.worker[d] \in Jobs
        BY <2>2, <1>1, <1>5 DEF Typed
      <3>2. pool.stage[pool.worker[d]] = "running" /\ pool.owner[pool.worker[d]] = d
        BY <3>1, <2>2, <1>1 DEF Pointed
      <3>3. QED BY <3>1, <3>2, <1>4, <1>5
    <2>3. ASSUME NEW d \in Conns, t.pending[d] # NoJob
          PROVE  /\ t.stage[t.pending[d]] = "parked" /\ t.owner[t.pending[d]] = d
                 /\ t.state[d] = "fork_warning"
      <3>1. CASE d = c
        BY <3>1, <1>4, <1>5
      <3>2. CASE d # c
        <4>1. t.pending[d] = pool.pending[d] /\ pool.pending[d] \in Jobs
          BY <3>2, <2>3, <1>1, <1>5 DEF Typed
        <4>2. QED BY <3>2, <4>1, <2>3, <1>1, <1>4, <1>5 DEF Pointed
      <3>3. QED BY <3>1, <3>2
    <2>4. QED BY <2>1, <2>2, <2>3 DEF Pointed
  <1>9. Watched(t)
    <2>1. ASSUME NEW i \in t.armed
          PROVE  /\ t.stage[i] # "unused" /\ t.timer[t.owner[i]] = i
                 /\ t.kind[i] = "fork" => t.stage[i] = "running"
      <3>1. i \in pool.armed /\ i # pool.timer[c] /\ i \in Jobs
        BY <1>1, <1>4 DEF Typed
      <3>2. /\ pool.stage[i] # "unused" /\ pool.timer[pool.owner[i]] = i
            /\ pool.kind[i] = "fork" => pool.stage[i] = "running"
        BY <3>1, <1>1 DEF Watched
      <3>3. pool.owner[i] \in Conns /\ pool.owner[i] # c
        BY <3>1, <3>2, <1>1 DEF Owned
      <3>4. QED BY <3>1, <3>2, <3>3, <1>4, <1>5
    <2>2. QED BY <2>1 DEF Watched
  <1>10. Queued(t)
    <2>1. \A i \in 1..Len(pool.queue) : pool.queue[i] \in Jobs /\ pool.queue[i] # j
      BY <1>1 DEF Typed, Queued
    <2>2. QED BY <1>1, <1>4, <1>5, <2>1 DEF Queued
  <1>11. Good(t)
    BY <1>1, <1>4, <1>6, <1>7, <1>8, <1>9, <1>10 DEF Good, Counted
  <1>12. QED BY <1>1, <1>4, <1>6, <1>11 DEF Slot, Holders, Holding

LEMMA ShutdownSteps ==
    ASSUME PoolInv, Shutdown
    PROVE  Good(pool') /\ Slot
  <1> DEFINE held == ({pool.worker[c] : c \in pool.active} \cup {pool.pending[c] : c \in Conns})
                         \ {NoJob}
             t == pool'
  <1>1. /\ Typed(pool) /\ Owned(pool) /\ Unique(pool) /\ Pointed(pool) /\ Watched(pool)
        /\ Queued(pool) /\ Counted(pool) /\ Good(pool)
        /\ pool.active \subseteq Conns
    BY DEF PoolInv, Good, Typed
  <1>2. \A i \in held : /\ i \in Jobs /\ i \in Holding(pool)
                        /\ pool.stage[i] = "running" => pool.owner[i] \in pool.active
    <2>1. ASSUME NEW c \in pool.active, pool.worker[c] # NoJob
          PROVE  /\ pool.worker[c] \in Jobs /\ pool.worker[c] \in Holding(pool)
                 /\ pool.owner[pool.worker[c]] \in pool.active
      BY <2>1, <1>1 DEF Typed, Pointed, Holding
    <2>2. ASSUME NEW c \in Conns, pool.pending[c] # NoJob
          PROVE  /\ pool.pending[c] \in Jobs /\ pool.pending[c] \in Holding(pool)
                 /\ pool.stage[pool.pending[c]] = "parked"
      BY <2>2, <1>1 DEF Typed, Pointed, Holding
    <2>3. QED BY <2>1, <2>2
  <1>3. /\ IsFiniteSet(held) /\ Cardinality(held) \in Nat
        /\ Cardinality(Holding(pool) \ held) = pool.count - Cardinality(held)
        /\ pool.count - Cardinality(held) \in 0..MaxWorkers
    <2> HIDE DEF held
    <2>1. held \subseteq Holding(pool) /\ held \cap Holding(pool) = held
          /\ Holding(pool) \cap held = held
      BY <1>2
    <2>2. IsFiniteSet(Holding(pool)) /\ Cardinality(Holding(pool)) \in Nat
      BY <1>1, Counting
    <2>3. IsFiniteSet(held) /\ Cardinality(held) <= Cardinality(Holding(pool))
      BY <2>1, <2>2, FS_Subset
    <2>4. Cardinality(held) \in Nat
      BY <2>3, FS_CardinalityType
    <2>5. Cardinality(Holding(pool) \ held)
             = Cardinality(Holding(pool)) - Cardinality(Holding(pool) \cap held)
      BY <2>2, FS_Difference
    <2>6. pool.count = Cardinality(Holding(pool)) /\ pool.count \in 0..MaxWorkers
      BY <1>1 DEF Counted, Typed
    <2>7. QED BY <2>1, <2>3, <2>4, <2>5, <2>6, WorkersAssumption
  <1>4. /\ Typed(t) /\ t.queue = <<>> /\ t.count = pool.count - Cardinality(held)
        /\ t.owner = pool.owner /\ t.kind = pool.kind
        /\ t.armed = pool.armed \ {pool.timer[c] : c \in pool.active}
        /\ t.stage = [j \in Jobs |-> IF j \in held THEN "dead"
                                     ELSE IF pool.stage[j] = "queued" THEN "lost" ELSE pool.stage[j]]
        /\ t.state = [c \in Conns |-> IF c \in pool.active THEN "closed" ELSE pool.state[c]]
        /\ t.worker = [c \in Conns |-> IF c \in pool.active THEN NoJob ELSE pool.worker[c]]
        /\ t.pending = [c \in Conns |-> NoJob]
        /\ t.timer = [c \in Conns |-> IF c \in pool.active THEN NoJob ELSE pool.timer[c]]
    <2>1. pool' = [pool EXCEPT
                   !.queue = <<>>, !.count = @ - Cardinality(held),
                   !.stage = [j \in Jobs |-> IF j \in held THEN "dead"
                                             ELSE IF @[j] = "queued" THEN "lost" ELSE @[j]],
                   !.state = [c \in Conns |-> IF c \in pool.active THEN "closed" ELSE @[c]],
                   !.worker = [c \in Conns |-> IF c \in pool.active THEN NoJob ELSE @[c]],
                   !.pending = [c \in Conns |-> NoJob],
                   !.armed = @ \ {pool.timer[c] : c \in pool.active},
                   !.timer = [c \in Conns |-> IF c \in pool.active THEN NoJob ELSE @[c]],
                   !.active = {}]
      BY Zenon DEF Shutdown
    <2> HIDE DEF held
    <2> DEFINE stage == [j \in Jobs |-> IF j \in held THEN "dead"
                                      ELSE IF pool.stage[j] = "queued" THEN "lost" ELSE pool.stage[j]]
               state == [c \in Conns |-> IF c \in pool.active THEN "closed" ELSE pool.state[c]]
               worker == [c \in Conns |-> IF c \in pool.active THEN NoJob ELSE pool.worker[c]]
               pending == [c \in Conns |-> NoJob]
               timer == [c \in Conns |-> IF c \in pool.active THEN NoJob ELSE pool.timer[c]]
    <2>2. /\ stage \in [Jobs -> Stages] /\ state \in [Conns -> States]
          /\ worker \in [Conns -> Jobs \cup {NoJob}] /\ pending \in [Conns -> Jobs \cup {NoJob}]
          /\ timer \in [Conns -> Jobs \cup {NoJob}] /\ <<>> \in Seq(Jobs)
      BY <1>1 DEF Typed, Stages, States
    <2>3. pool' = [pool EXCEPT !.queue = <<>>, !.count = @ - Cardinality(held), !.stage = stage,
                              !.state = state, !.worker = worker, !.pending = pending,
                              !.armed = @ \ {pool.timer[c] : c \in pool.active},
                              !.timer = timer, !.active = {}]
      BY <2>1, Zenon
    <2> HIDE DEF stage, state, worker, pending, timer
    <2>4. /\ Typed(t) /\ t.queue = <<>> /\ t.count = pool.count - Cardinality(held)
          /\ t.owner = pool.owner /\ t.kind = pool.kind
          /\ t.armed = pool.armed \ {pool.timer[c] : c \in pool.active}
          /\ t.stage = stage /\ t.state = state /\ t.worker = worker
          /\ t.pending = pending /\ t.timer = timer
      BY <2>2, <2>3, <1>1, <1>3 DEF Typed
    <2>5. QED BY <2>4 DEF stage, state, worker, pending, timer
  <1> HIDE DEF t
  <1>5. Holding(t) = Holding(pool) \ held /\ Busy(t) = Holding(pool) \ held
    BY <1>4 DEF Holding, Busy
  <1>6. Owned(t)
    BY <1>1, <1>2, <1>4 DEF Owned, Holding
  <1>7. Unique(t)
    BY <1>1, <1>4, <1>5 DEF Unique, Busy, Holding
  <1>8. Pointed(t)
    <2>1. \A i \in Jobs : t.stage[i] \in {"running", "parked"} =>
                             t.stage[i] = pool.stage[i] /\ i \notin held
      BY <1>4
    <2>2. ASSUME NEW i \in Jobs, t.stage[i] = "running" PROVE t.worker[t.owner[i]] = i
      <3>1. pool.stage[i] = "running" /\ i \notin held /\ i # NoJob
        BY <2>1, <2>2 DEF Jobs, NoJob
      <3>2. pool.owner[i] \in Conns /\ pool.worker[pool.owner[i]] = i
        BY <3>1, <1>1 DEF Owned, Pointed
      <3>3. pool.owner[i] \notin pool.active
        BY <3>1, <3>2
      <3>4. QED BY <3>2, <3>3, <1>4
    <2>3. \A i \in Jobs : t.stage[i] # "parked"
      <3>1. SUFFICES ASSUME NEW i \in Jobs, t.stage[i] = "parked" PROVE FALSE
        OBVIOUS
      <3>2. pool.stage[i] = "parked" /\ i \notin held /\ i # NoJob
        BY <2>1, <3>1 DEF Jobs, NoJob
      <3>3. pool.owner[i] \in Conns /\ pool.pending[pool.owner[i]] = i
        BY <3>2, <1>1 DEF Owned, Pointed
      <3>4. QED BY <3>2, <3>3
    <2>4. ASSUME NEW d \in Conns, t.worker[d] # NoJob
          PROVE  t.stage[t.worker[d]] = "running" /\ t.owner[t.worker[d]] = d
      <3>1. d \notin pool.active /\ t.worker[d] = pool.worker[d] /\ pool.worker[d] \in Jobs
        BY <2>4, <1>1, <1>4 DEF Typed
      <3>2. pool.stage[pool.worker[d]] = "running" /\ pool.owner[pool.worker[d]] = d
        BY <3>1, <2>4, <1>1 DEF Pointed
      <3>3. pool.worker[d] \notin held
        BY <3>1, <3>2, <1>2
      <3> HIDE DEF held
      <3>4. QED BY <3>1, <3>2, <3>3, <1>4
    <2>5. \A d \in Conns : t.pending[d] = NoJob
      BY <1>4
    <2>6. QED BY <2>2, <2>3, <2>4, <2>5 DEF Pointed
  <1>9. Watched(t)
    <2>1. ASSUME NEW i \in t.armed
          PROVE  /\ t.stage[i] # "unused" /\ t.timer[t.owner[i]] = i
                 /\ t.kind[i] = "fork" => t.stage[i] = "running"
      <3>1. i \in pool.armed /\ i \in Jobs /\ \A c \in pool.active : i # pool.timer[c]
        BY <1>1, <1>4 DEF Typed
      <3>2. /\ pool.stage[i] # "unused" /\ pool.timer[pool.owner[i]] = i
            /\ pool.kind[i] = "fork" => pool.stage[i] = "running"
        BY <3>1, <1>1 DEF Watched
      <3>3. pool.owner[i] \in Conns /\ pool.owner[i] \notin pool.active
        BY <3>1, <3>2, <1>1 DEF Owned
      <3>4. pool.stage[i] = "running" => i \notin held
        BY <3>3, <1>2
      <3> HIDE DEF held
      <3>5. QED BY <3>1, <3>2, <3>3, <3>4, <1>4
    <2>2. QED BY <2>1 DEF Watched
  <1>10. Queued(t)
    BY <1>4 DEF Queued
  <1>11. Good(t)
    BY <1>3, <1>4, <1>5, <1>6, <1>7, <1>8, <1>9, <1>10 DEF Good, Counted
  <1>12. Slotted!Drain(held)
    <2>1. Holders = Holding(pool) /\ Holders' = Holding(t)
      BY DEF Holders, Holding, t
    <2>2. (pool.queue)' = t.queue
      BY DEF t
    <2>3. held \subseteq Holding(pool)
      BY <1>2
    <2> HIDE DEF held
    <2>4. QED BY <2>1, <2>2, <2>3, <1>4, <1>5 DEF Slotted!Drain
  <1>13. held \in SUBSET Holders
    BY <1>2 DEF Holders, Holding
  <1>14. QED BY <1>11, <1>12, <1>13 DEF Slot, t

-----------------------------------------------------------------------------
(* The specification. *)

LEMMA PoolStarts == Init => PoolInv /\ Slotted!PInit
  <1> SUFFICES ASSUME Init PROVE PoolInv /\ Slotted!PInit
    OBVIOUS
  <1>1. Typed(pool)
    BY WorkersAssumption DEF Init, Typed, States, Stages, Kinds
  <1>2. \A j \in Jobs : pool.stage[j] = "unused"
    BY DEF Init
  <1>3. Holding(pool) = {} /\ Busy(pool) = {}
    BY <1>2 DEF Holding, Busy
  <1>4. pool.count = 0 /\ pool.queue = <<>> /\ pool.armed = {}
        /\ \A c \in Conns : pool.worker[c] = NoJob /\ pool.pending[c] = NoJob
    BY DEF Init
  <1>5. Good(pool)
    BY <1>1, <1>2, <1>3, <1>4, FS_EmptySet
       DEF Good, Owned, Unique, Pointed, Watched, Queued, Counted
  <1>6. Slotted!PInit
    BY <1>3, <1>4 DEF Slotted!PInit, Holders, Holding
  <1>7. QED BY <1>5, <1>6 DEF Init, PoolInv

\* Every step keeps the invariant and is a step of the semaphore, or none of its business.
LEMMA PoolSteps ==
    ASSUME AsViewed, PoolInv, [Next]_vars
    PROVE  PoolInv' /\ [Slotted!PNext]_(Slotted!pvars)
  <1>1. CASE UNCHANGED vars
    BY <1>1 DEF vars, PoolInv, Slotted!pvars, Holders
  <1>2. ASSUME Next PROVE Good(pool') /\ Slot
    <2>1. ASSUME NEW c \in Conns, Freed(pool, pool', c) PROVE Good(pool') /\ Slot
      BY <2>1, FreedSteps
    <2>2. ASSUME NEW c \in Conns, NEW j \in Jobs, Connect(c, j) PROVE Good(pool') /\ Slot
      BY <2>2, ConnectSteps
    <2>3. ASSUME NEW c \in Conns, NEW j \in Jobs, ReplayFork(c, j) PROVE Good(pool') /\ Slot
      BY <2>3, ReplayForkSteps
    <2>4. ASSUME NEW c \in Conns, ForkContinue(c) \/ ForkCancel(c) PROVE Good(pool') /\ Slot
      BY <2>1, <2>4, ParkedForkEnds
    <2>5. ASSUME NEW c \in Conns, NEW more \in BOOLEAN, SocketEvent(c, more)
          PROVE  Good(pool') /\ Slot
      BY <2>1, <2>5, SocketFrees
    <2>6. CASE Shutdown
      BY <2>6, ShutdownSteps
    <2>7. ASSUME NEW j \in Jobs, StreamChunk(j) PROVE Good(pool') /\ Slot
      BY <2>7, ChunkSteps
    <2>8. ASSUME NEW j \in Jobs, ForkDiverged(j) PROVE Good(pool') /\ Slot
      BY <2>8, DivergedSteps
    <2>9. ASSUME NEW j \in Jobs, ReplayComplete(j) \/ ReplayError(j) PROVE Good(pool') /\ Slot
      BY <2>1, <2>9, ReplayEnds
    <2>10. ASSUME NEW j \in Jobs, ForkReady(j) PROVE Good(pool') /\ Slot
      BY <2>1, <2>10, ForkSucceeds
    <2>11. ASSUME NEW j \in Jobs, ForkError(j) PROVE Good(pool') /\ Slot
      BY <2>1, <2>11, ForkFails
    <2>12. ASSUME NEW j \in Jobs, Exit(j) PROVE Good(pool') /\ Slot
      BY <2>1, <2>12, WorkerDies
    <2>13. ASSUME NEW j \in Jobs, ReplayWatchdog(j) \/ ForkWatchdog(j)
           PROVE  Good(pool') /\ Slot
      BY <2>1, <2>13, WatchdogsFree
    <2>14. QED
      BY <1>2, <2>2, <2>3, <2>4, <2>5, <2>6, <2>7, <2>8, <2>9, <2>10, <2>11, <2>12, <2>13
      DEF Next, Client, Worker
  <1>3. ASSUME Next PROVE listening' \subseteq Conns /\ down' \in BOOLEAN
    BY <1>3
    DEF PoolInv, Next, Client, Worker, Connect, ReplayFork, ForkContinue, ForkCancel, SocketEvent,
        Shutdown, StreamChunk, ForkDiverged, ReplayComplete, ReplayError, ForkReady, ForkError,
        Exit, ReplayWatchdog, ForkWatchdog
  <1>4. Slot => [Slotted!PNext]_(Slotted!pvars)
    BY DEF Slot, Slotted!PNext, Slotted!pvars
  <1>5. QED BY <1>1, <1>2, <1>3, <1>4 DEF PoolInv

LEMMA PoolIsInvariant == ASSUME AsViewed PROVE Spec => []PoolInv
  <1>1. Init => PoolInv
    BY PoolStarts
  <1>2. PoolInv /\ [Next]_vars => PoolInv'
    BY PoolSteps
  <1>3. QED BY <1>1, <1>2, PTL DEF Spec

\* The state of the pool keeps its shape, with at most MaxWorkers slots counted and the socket
\* events of no connection but the given ones (replay-handlers.ts, the module's variables).
THEOREM PoolTypes == ASSUME AsViewed PROVE Spec => []TypeOK
  <1>1. PoolInv => TypeOK
    BY DEF PoolInv, Good, Typed, TypeOK
  <1>2. QED BY <1>1, PoolIsInvariant, PTL

\* replayWorkerCount counts the workers that hold a slot: releaseWorker gives each slot back once,
\* whatever handler calls it and whatever start runs inside it.
THEOREM SlotsAreAccounted == ASSUME AsViewed PROVE Spec => []SlotsAccounted
  <1>1. PoolInv => SlotsAccounted
    BY DEF PoolInv, Good, Counted, SlotsAccounted, Holders, Holding
  <1>2. QED BY <1>1, PoolIsInvariant, PTL

\* No more live workers than MAX_REPLAY_WORKERS.
THEOREM PoolIsBounded == ASSUME AsViewed PROVE Spec => []PoolBounded
  <1>1. PoolInv => PoolBounded
    BY WorkersAssumption DEF PoolInv, Good, Typed, Counted, PoolBounded, Holders, Holding
  <1>2. QED BY <1>1, PoolIsInvariant, PTL

\* Requests, releases, forks that replace a replay in place and the shutdown are the steps of a
\* first-come first-served semaphore on replayQueue; nothing else takes or frees a slot.
THEOREM PoolImplementsSlotPool == ASSUME AsViewed PROVE Spec => ImplementsSlotPool
  <1>1. Init => Slotted!PInit
    BY PoolStarts
  <1>2. PoolInv /\ [Next]_vars => [Slotted!PNext]_(Slotted!pvars)
    BY PoolSteps
  <1>3. QED BY <1>1, <1>2, PoolIsInvariant, PTL DEF Spec, ImplementsSlotPool, Slotted!PSpec

=============================================================================

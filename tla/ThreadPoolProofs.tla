-------------------------- MODULE ThreadPoolProofs --------------------------
(***************************************************************************)
(* Proofs about ThreadPool, for every number of workers and jobs.          *)
(***************************************************************************)
EXTENDS ThreadPool, FiniteSetTheorems, TLAPS

(***************************************************************************)
(* The wake-up invariant.  A raised semaphore has somebody awake to take   *)
(* it, and a queued job has a raised semaphore or a worker on its way to   *)
(* the queue.                                                              *)
(***************************************************************************)
WakeType ==
    /\ pc \in [Workers -> WorkerPlaces]
    /\ v \in {0, 1} /\ keepalive \in {0, 1}
    /\ queue \in Seq(Nat) /\ added \in Nat

SomebodyAwake == v = 1 => \E w \in Workers : pc[w] # "asleep"

JobAnnounced ==
    keepalive = 1 /\ queue # <<>> =>
        v = 1 \/ \E w \in Workers : pc[w] \in {"got", "pull"}

WakeInv == WakeType /\ SomebodyAwake /\ JobAnnounced

LEMMA WakeInit == Init => WakeInv
  BY DEF Init, WakeInv, WakeType, WorkerPlaces, SomebodyAwake, JobAnnounced

\* A signal leaves somebody awake and moves nobody but a sleeper.
LEMMA SignalWakes ==
  ASSUME WakeType, NEW p \in AfterSignal
  PROVE  /\ p \in [Workers -> WorkerPlaces]
         /\ \E w \in Workers : p[w] # "asleep"
         /\ \A w \in Workers : pc[w] # "asleep" => p[w] = pc[w]
  <1>1. CASE Sleepers = {}
    BY <1>1, WorkersAssumption DEF AfterSignal, Sleepers, WakeType
  <1>2. CASE Sleepers # {}
    <2>1. PICK u \in Sleepers : p = [pc EXCEPT ![u] = "wait"]
      BY <1>2 DEF AfterSignal
    <2>2. u \in Workers /\ pc[u] = "asleep"
      BY DEF Sleepers
    <2> QED
      BY <2>1, <2>2 DEF WakeType, WorkerPlaces
  <1> QED
    BY <1>1, <1>2

LEMMA WakeStep == WakeInv /\ [Next]_vars => WakeInv'
  <1> SUFFICES ASSUME WakeInv, [Next]_vars PROVE WakeInv'
    OBVIOUS
  <1>0. WakeType /\ SomebodyAwake /\ JobAnnounced
    BY DEF WakeInv
  <1> USE <1>0
  <1>1. ASSUME NEW w \in Workers, BsemWait(w) PROVE WakeInv'
    <2> USE <1>1 DEF BsemWait
    <2>1. WakeType'
      BY DEF WakeType, WorkerPlaces
    <2>2. SomebodyAwake'
      BY DEF SomebodyAwake, WakeType
    <2>3. JobAnnounced'
      BY DEF JobAnnounced, WakeType
    <2> QED
      BY <2>1, <2>2, <2>3 DEF WakeInv
  <1>2. ASSUME NEW w \in Workers, Pull(w) PROVE WakeInv'
    <2>1. CASE queue = <<>>
      <3> USE <1>2, <2>1 DEF Pull
      <3>1. WakeType'
        BY DEF WakeType, WorkerPlaces
      <3>2. SomebodyAwake' /\ JobAnnounced'
        BY DEF SomebodyAwake, JobAnnounced, WakeType
      <3> QED
        BY <3>1, <3>2 DEF WakeInv
    <2>2. CASE queue # <<>>
      <3>0. queue' = Tail(queue) /\ UNCHANGED <<keepalive, added>>
        BY <1>2, <2>2 DEF Pull, FrontRemoved
      <3>1. queue' \in Seq(Nat)
        BY <2>2, <3>0 DEF WakeType
      <3>2. CASE Len(queue) > 1
        <4>1. PICK p \in AfterSignal : pc' = [p EXCEPT ![w] = "run"]
          BY <1>2, <2>2, <3>2 DEF Pull, RepostIfMore
        <4>2. v' = 1
          BY <1>2, <2>2, <3>2 DEF Pull, RepostIfMore
        <4>3. p \in [Workers -> WorkerPlaces]
          BY SignalWakes
        <4>4. pc'[w] = "run" /\ pc' \in [Workers -> WorkerPlaces]
          BY <4>1, <4>3 DEF WorkerPlaces
        <4> QED
          BY <3>0, <3>1, <4>2, <4>4 DEF WakeInv, WakeType, SomebodyAwake, JobAnnounced
      <3>3. CASE ~(Len(queue) > 1)
        <4>1. queue' = <<>>
          BY <2>2, <3>0, <3>3 DEF WakeType
        <4>2. pc' = [pc EXCEPT ![w] = "run"] /\ v' = v
          BY <1>2, <2>2, <3>3 DEF Pull, RepostIfMore
        <4>3. pc'[w] = "run" /\ pc' \in [Workers -> WorkerPlaces]
          BY <4>2 DEF WakeType, WorkerPlaces
        <4> QED
          BY <3>0, <3>1, <4>1, <4>2, <4>3 DEF WakeInv, WakeType, SomebodyAwake, JobAnnounced
      <3> QED
        BY <3>2, <3>3
    <2> QED
      BY <2>1, <2>2
  <1>3. CASE AddWork
    <2>1. /\ v' = 1 /\ pc' \in AfterSignal /\ UNCHANGED keepalive
          /\ queue' \in Seq(Nat) /\ added' \in Nat
      BY <1>3 DEF AddWork, WakeType
    <2>2. pc' \in [Workers -> WorkerPlaces] /\ \E w \in Workers : pc'[w] # "asleep"
      BY <2>1, SignalWakes
    <2> QED
      BY <2>1, <2>2 DEF WakeInv, WakeType, SomebodyAwake, JobAnnounced
  <1>4. CASE PostAll
    <2>1. v' = 1 /\ UNCHANGED <<keepalive, queue, added>>
      BY <1>4 DEF PostAll
    <2>2. pc' \in [Workers -> WorkerPlaces] /\ \A w \in Workers : pc'[w] # "asleep"
      BY <1>4 DEF PostAll, AfterBroadcast, WakeType, WorkerPlaces
    <2> QED
      BY <2>1, <2>2, WorkersAssumption DEF WakeInv, WakeType, SomebodyAwake, JobAnnounced
  <1>5. CASE Free
    BY <1>5 DEF Free, WakeInv, WakeType, SomebodyAwake, JobAnnounced
  <1>6. CASE Destroy
    BY <1>6 DEF Destroy, WakeInv, WakeType, SomebodyAwake, JobAnnounced
  <1>7. ASSUME NEW w \in Workers, Enter(w) PROVE WakeInv'
    <2> USE <1>7 DEF Enter
    <2>1. WakeType'
      BY DEF WakeType, WorkerPlaces
    <2>2. pc'[w] \in {"pull", "loop"} /\ (keepalive = 1 => pc'[w] = "pull")
      BY DEF WakeType
    <2> QED
      BY <2>1, <2>2 DEF WakeInv, SomebodyAwake, JobAnnounced, WakeType
  <1>8. ASSUME NEW w \in Workers,
               Start(w) \/ Loop(w) \/ Finish(w) \/ Exit(w) \/ Unlock(w) \/ SpuriousWakeup(w)
        PROVE  WakeInv'
    <2>1. /\ UNCHANGED <<keepalive, v, queue, added>>
          /\ pc[w] \notin {"got", "pull"}
          /\ \E place \in WorkerPlaces \ {"asleep"} : pc' = [pc EXCEPT ![w] = place]
      BY <1>8 DEF Start, Loop, Finish, Exit, Unlock, SpuriousWakeup, WorkerPlaces
    <2>2. pc' \in [Workers -> WorkerPlaces] /\ pc'[w] # "asleep"
      BY <2>1 DEF WakeType
    <2>3. \A x \in Workers : pc[x] \in {"got", "pull"} => pc'[x] = pc[x]
      BY <2>1 DEF WakeType
    <2> QED
      BY <2>1, <2>2, <2>3 DEF WakeInv, WakeType, SomebodyAwake, JobAnnounced
  <1>9. CASE InitDone \/ WaitCall \/ WaitTest \/ WaitReturn \/ Done \/ UNCHANGED vars
    <2>1. UNCHANGED <<keepalive, v, queue, pc, added>>
      BY <1>9 DEF InitDone, WaitCall, WaitTest, WaitReturn, Done, vars
    <2> QED
      BY <2>1 DEF WakeInv, WakeType, SomebodyAwake, JobAnnounced
  <1> QED
    BY <1>1, <1>2, <1>3, <1>4, <1>5, <1>6, <1>7, <1>8, <1>9
       DEF Next, WorkerStep, MainStep

(***************************************************************************)
(* A pool of any size never sleeps on a queued job.                        *)
(***************************************************************************)
THEOREM NeverSleepsOnWork == Spec => []NoLostWakeup
  <1>1. Spec => []WakeInv
    BY WakeInit, WakeStep, PTL DEF Spec
  <1>2. WakeInv => NoLostWakeup
    BY DEF WakeInv, SomebodyAwake, JobAnnounced, NoLostWakeup
  <1> QED
    BY <1>1, <1>2, PTL
-----------------------------------------------------------------------------
(***************************************************************************)
(* The counters.  num_threads_working and num_threads_alive count exactly  *)
(* the workers between the increments and the decrements of thread_do, and *)
(* only one worker at a time is between its last decrement and the unlock. *)
(***************************************************************************)
Busy(p) == {w \in Workers : p[w] \in {"pull", "run"}}
Living(p) == {w \in Workers : p[w] \notin {"new", "unlocking", "gone"}}

CountType ==
    /\ main \in MainPlaces
    /\ keepalive \in {0, 1} /\ v \in {0, 1}
    /\ queue \in Seq(Nat)
    /\ pc \in [Workers -> WorkerPlaces]
    /\ job \in [Workers -> Nat]
    /\ added \in Nat /\ finished \subseteq Nat

CountersExact == working = Cardinality(Busy(pc)) /\ alive = Cardinality(Living(pc))

OneUnlocking ==
    \A w, x \in Workers : pc[w] = "unlocking" /\ pc[x] = "unlocking" => w = x

MainKnows ==
    /\ main # "init" => \A w \in Workers : pc[w] # "new"
    /\ main = "freed" => alive = 0

CountInv == CountType /\ CountersExact /\ OneUnlocking /\ MainKnows

(***************************************************************************)
(* The jobs.  A worker has a job only between jobqueue_pull and the end of *)
(* the job; the jobs taken from the queue are the oldest; after a wait     *)
(* nothing is queued or in a worker's hands until work is added again.     *)
(***************************************************************************)
Taken == added - Len(queue)

JobsInHand ==
    /\ \A w \in Workers : job[w] # 0 => pc[w] = "run"
    /\ main # "freed" =>
          /\ Taken \in Nat
          /\ finished \subseteq 1 .. Taken
          /\ job \in [Workers -> 0 .. Taken]
    /\ main = "waited" => queue = <<>> /\ \A w \in Workers : job[w] = 0

JobInv == JobsInHand /\ InOrderOnce

LEMMA CountInit == Init => CountInv
  <1> SUFFICES ASSUME Init PROVE CountInv
    OBVIOUS
  <1>1. CountType
    BY DEF Init, CountType, MainPlaces, WorkerPlaces
  <1>2. Busy(pc) = {} /\ Living(pc) = {}
    BY DEF Init, Busy, Living
  <1>3. CountersExact
    BY <1>2, FS_EmptySet DEF Init, CountersExact
  <1> QED
    BY <1>1, <1>3 DEF Init, CountInv, OneUnlocking, MainKnows

LEMMA JobInit == Init => JobInv
  BY DEF Init, JobInv, JobsInHand, Taken, InOrderOnce

\* Adding a worker to a set of workers, or taking it out, moves its cardinality
\* by one; a set of workers is finite and no larger than Workers.
LEMMA WorkerSets ==
  ASSUME NEW S \in SUBSET Workers
  PROVE  /\ Cardinality(S) \in 0 .. Cardinality(Workers)
         /\ Cardinality(S) = 0 <=> S = {}
         /\ Cardinality(S) = Cardinality(Workers) => S = Workers
         /\ \A w \in S : /\ Cardinality(S \ {w}) = Cardinality(S) - 1
                         /\ Cardinality(S) > 0
         /\ \A w \in Workers \ S : Cardinality(S \cup {w}) = Cardinality(S) + 1
  <1>1. IsFiniteSet(S) /\ Cardinality(S) <= Cardinality(Workers)
        /\ (Cardinality(S) = Cardinality(Workers) => S = Workers)
    BY WorkersAssumption, FS_Subset
  <1>2. Cardinality(S) \in Nat /\ Cardinality(Workers) \in Nat
    BY <1>1, WorkersAssumption, FS_CardinalityType
  <1>3. Cardinality(S) = 0 <=> S = {}
    BY <1>1, FS_EmptySet
  <1>4. ASSUME NEW w \in S
        PROVE  Cardinality(S \ {w}) = Cardinality(S) - 1 /\ Cardinality(S) > 0
    <2>1. Cardinality(S \ {w}) = Cardinality(S) - 1
      BY <1>1, <1>4, FS_RemoveElement
    <2> QED
      BY <1>2, <1>3, <1>4, <2>1
  <1>5. ASSUME NEW w \in Workers \ S
        PROVE  Cardinality(S \cup {w}) = Cardinality(S) + 1
    BY <1>1, <1>5, FS_AddElement
  <1> QED
    BY <1>1, <1>2, <1>3, <1>4, <1>5

LEMMA CountImpliesType == CountInv => TypeOK
  <1>1. Busy(pc) \in SUBSET Workers /\ Living(pc) \in SUBSET Workers
    BY DEF Busy, Living
  <1> QED
    BY <1>1, WorkerSets DEF CountInv, CountType, CountersExact, TypeOK

\* A signal moves at most one worker, from its sleep to the test of the semaphore.
LEMMA SignalMoves ==
  ASSUME pc \in [Workers -> WorkerPlaces], NEW p \in AfterSignal
  PROVE  /\ p \in [Workers -> WorkerPlaces]
         /\ \A w \in Workers : p[w] = pc[w] \/ (pc[w] = "asleep" /\ p[w] = "wait")
  <1>1. CASE Sleepers = {}
    BY <1>1 DEF AfterSignal
  <1>2. CASE Sleepers # {}
    <2>1. PICK u \in Sleepers : p = [pc EXCEPT ![u] = "wait"]
      BY <1>2 DEF AfterSignal
    <2> QED
      BY <2>1 DEF Sleepers, WorkerPlaces
  <1> QED
    BY <1>1, <1>2

\* What a move of one worker, and a wake-up of others, does to the sets counted.
LEMMA MoveCounts ==
  ASSUME CountInv, NEW w \in Workers, NEW place \in WorkerPlaces,
         NEW p \in [Workers -> WorkerPlaces],
         \A x \in Workers : p[x] = pc[x] \/ (pc[x] = "asleep" /\ p[x] = "wait"),
         pc[w] # "asleep",
         NEW q, q = [p EXCEPT ![w] = place]
  PROVE  /\ Cardinality(Busy(q)) =
              IF pc[w] \in {"pull", "run"}
              THEN IF place \in {"pull", "run"} THEN working ELSE working - 1
              ELSE IF place \in {"pull", "run"} THEN working + 1 ELSE working
         /\ Cardinality(Living(q)) =
              IF pc[w] \notin {"new", "unlocking", "gone"}
              THEN IF place \notin {"new", "unlocking", "gone"} THEN alive ELSE alive - 1
              ELSE IF place \notin {"new", "unlocking", "gone"} THEN alive + 1 ELSE alive
  <1> USE DEF CountInv, CountType
  <1>0. /\ \A x \in Workers \ {w} : q[x] = pc[x] \/ (pc[x] = "asleep" /\ q[x] = "wait")
        /\ q[w] = place
    OBVIOUS
  <1>1. Busy(pc) \in SUBSET Workers /\ Living(pc) \in SUBSET Workers
    BY DEF Busy, Living
  <1>2. Busy(q) = IF place \in {"pull", "run"} THEN Busy(pc) \cup {w} ELSE Busy(pc) \ {w}
    BY <1>0 DEF Busy
  <1>3. Living(q) = IF place \notin {"new", "unlocking", "gone"}
                    THEN Living(pc) \cup {w} ELSE Living(pc) \ {w}
    BY <1>0 DEF Living
  <1>4. /\ w \in Busy(pc) <=> pc[w] \in {"pull", "run"}
        /\ w \in Living(pc) <=> pc[w] \notin {"new", "unlocking", "gone"}
    BY DEF Busy, Living
  <1>5. \A S \in SUBSET Workers :
           /\ w \in S => S \cup {w} = S
           /\ w \notin S => S \ {w} = S
    OBVIOUS
  <1>6. Cardinality(Busy(q)) =
              IF pc[w] \in {"pull", "run"}
              THEN IF place \in {"pull", "run"} THEN working ELSE working - 1
              ELSE IF place \in {"pull", "run"} THEN working + 1 ELSE working
    <2>1. working = Cardinality(Busy(pc))
      BY DEF CountersExact
    <2>2. /\ w \in Busy(pc) => Cardinality(Busy(pc) \ {w}) = working - 1
          /\ w \notin Busy(pc) => Cardinality(Busy(pc) \cup {w}) = working + 1
      BY <1>1, <2>1, WorkerSets
    <2>3. CASE w \in Busy(pc)
      BY <1>1, <1>2, <1>4, <1>5, <2>1, <2>2, <2>3
    <2>4. CASE w \notin Busy(pc)
      BY <1>1, <1>2, <1>4, <1>5, <2>1, <2>2, <2>4
    <2> QED
      BY <2>3, <2>4
  <1>7. Cardinality(Living(q)) =
              IF pc[w] \notin {"new", "unlocking", "gone"}
              THEN IF place \notin {"new", "unlocking", "gone"} THEN alive ELSE alive - 1
              ELSE IF place \notin {"new", "unlocking", "gone"} THEN alive + 1 ELSE alive
    <2>1. alive = Cardinality(Living(pc))
      BY DEF CountersExact
    <2>2. /\ w \in Living(pc) => Cardinality(Living(pc) \ {w}) = alive - 1
          /\ w \notin Living(pc) => Cardinality(Living(pc) \cup {w}) = alive + 1
      BY <1>1, <2>1, WorkerSets
    <2>3. CASE w \in Living(pc)
      BY <1>1, <1>3, <1>4, <1>5, <2>1, <2>2, <2>3
    <2>4. CASE w \notin Living(pc)
      BY <1>1, <1>3, <1>4, <1>5, <2>1, <2>2, <2>4
    <2> QED
      BY <2>3, <2>4
  <1> QED
    BY <1>6, <1>7

LEMMA CountStep == CountInv /\ [Next]_vars => CountInv'
  <1> SUFFICES ASSUME CountInv, [Next]_vars PROVE CountInv'
    OBVIOUS
  <1>0. CountType /\ CountersExact /\ OneUnlocking /\ MainKnows
    BY DEF CountInv
  <1>t. pc \in [Workers -> WorkerPlaces]
    BY <1>0 DEF CountType
  <1>n. working \in Nat /\ alive \in Nat
    <2>1. Busy(pc) \in SUBSET Workers /\ Living(pc) \in SUBSET Workers
      BY DEF Busy, Living
    <2> QED
      BY <1>0, <2>1, WorkerSets DEF CountersExact
  <1>1. ASSUME NEW w \in Workers, NEW place \in WorkerPlaces,
               Start(w) \/ Loop(w) \/ Enter(w) \/ Finish(w) \/ Exit(w) \/ Unlock(w),
               pc' = [pc EXCEPT ![w] = place]
        PROVE  CountInv'
    <2>1. CountType'
      <3>1. pc' \in [Workers -> WorkerPlaces]
        BY <1>1, <1>t
      <3>2. UNCHANGED <<keepalive, v, queue, added>>
        BY <1>1 DEF Start, Loop, Enter, Finish, Exit, Unlock
      <3>3. CASE Finish(w)
        BY <1>0, <3>1, <3>2, <3>3 DEF CountType, Finish, SignalIfIdle, MainPlaces
      <3>4. CASE ~Finish(w)
        <4>1. UNCHANGED <<main, job, finished>>
          BY <1>1, <3>4 DEF Start, Loop, Enter, Exit, Unlock
        <4> QED
          BY <1>0, <3>1, <3>2, <4>1 DEF CountType
      <3> QED
        BY <3>3, <3>4
    <2>2. CountersExact'
      <3>1. /\ pc[w] # "asleep"
            /\ working' = IF pc[w] \in {"pull", "run"}
                          THEN IF place \in {"pull", "run"} THEN working ELSE working - 1
                          ELSE IF place \in {"pull", "run"} THEN working + 1 ELSE working
            /\ alive' = IF pc[w] \notin {"new", "unlocking", "gone"}
                        THEN IF place \notin {"new", "unlocking", "gone"} THEN alive ELSE alive - 1
                        ELSE IF place \notin {"new", "unlocking", "gone"} THEN alive + 1 ELSE alive
        <4>1. place = pc'[w]
          BY <1>1, <1>t
        <4> QED
          BY <1>1, <1>t, <4>1
             DEF Start, Loop, Enter, Finish, Exit, Unlock, OneLessWorking
      <3> QED
        BY <1>1, <1>t, <3>1, MoveCounts DEF CountersExact
    <2>3. OneUnlocking'
      <3>1. pc'[w] = "unlocking" => LockFree
        BY <1>1, <1>t DEF Start, Loop, Enter, Finish, Exit, Unlock
      <3> QED
        BY <1>0, <1>1, <1>t, <3>1 DEF OneUnlocking, LockFree
    <2>4. MainKnows'
      <3>1. /\ main' = "init" <=> main = "init"
            /\ main' = "freed" <=> main = "freed"
            /\ pc'[w] # "new"
        BY <1>1, <1>t DEF Start, Loop, Enter, Finish, Exit, Unlock, SignalIfIdle
      <3>2. main = "freed" => alive' = 0
        <4> SUFFICES ASSUME main = "freed" PROVE alive' = 0
          OBVIOUS
        <4>1. Living(pc) = {}
          <5>1. Living(pc) \in SUBSET Workers /\ Cardinality(Living(pc)) = 0
            BY <1>0 DEF Living, MainKnows, CountersExact
          <5> QED
            BY <5>1, WorkerSets
        <4>2. pc[w] \in {"unlocking", "gone"}
          BY <1>0, <1>t, <4>1 DEF Living, MainKnows
        <4> QED
          BY <1>0, <1>1, <4>2 DEF MainKnows, Start, Loop, Enter, Finish, Exit, Unlock
      <3> QED
        BY <1>0, <1>1, <1>t, <3>1, <3>2 DEF MainKnows
    <2> QED
      BY <2>1, <2>2, <2>3, <2>4 DEF CountInv
  <1>2. ASSUME NEW w \in Workers, Pull(w) PROVE CountInv'
    <2>1. PICK p \in [Workers -> WorkerPlaces] :
             /\ \A x \in Workers : p[x] = pc[x] \/ (pc[x] = "asleep" /\ p[x] = "wait")
             /\ pc' = [p EXCEPT ![w] = "run"]
      <3>1. CASE queue = <<>> \/ ~RepostIfMore
        BY <1>2, <1>t, <3>1 DEF Pull
      <3>2. CASE queue # <<>> /\ RepostIfMore
        <4>1. PICK p \in AfterSignal : pc' = [p EXCEPT ![w] = "run"]
          BY <1>2, <3>2 DEF Pull
        <4> QED
          BY <1>t, <4>1, SignalMoves
      <3> QED
        BY <3>1, <3>2
    <2>2. pc[w] = "pull" /\ UNCHANGED <<main, keepalive, alive, working, added, finished>>
      BY <1>2 DEF Pull
    <2>3. pc' \in [Workers -> WorkerPlaces]
      BY <2>1 DEF WorkerPlaces
    <2>4. CountersExact'
      <3>1. "run" \in WorkerPlaces
        BY DEF WorkerPlaces
      <3>2. Cardinality(Busy(pc')) = working /\ Cardinality(Living(pc')) = alive
        BY <1>t, <2>1, <2>2, <3>1, MoveCounts
      <3> QED
        BY <2>2, <3>2 DEF CountersExact
    <2>5. \A x \in Workers : pc'[x] \in {"new", "unlocking"} => pc'[x] = pc[x]
      BY <2>1
    <2>6. queue' \in Seq(Nat) /\ v' \in {0, 1} /\ job' \in [Workers -> Nat]
      <3>1. CASE queue = <<>>
        BY <1>0, <1>2, <3>1 DEF CountType, Pull
      <3>2. CASE queue # <<>>
        <4>1. Head(queue) \in Nat /\ Tail(queue) \in Seq(Nat)
          BY <1>0, <3>2 DEF CountType
        <4>2. v' \in {v, 1} /\ queue' = Tail(queue) /\ job' = [job EXCEPT ![w] = Head(queue)]
          BY <1>2, <3>2 DEF Pull, FrontRemoved
        <4> QED
          BY <1>0, <4>1, <4>2 DEF CountType
      <3> QED
        BY <3>1, <3>2
    <2> QED
      BY <1>0, <2>2, <2>3, <2>4, <2>5, <2>6
         DEF CountInv, CountType, OneUnlocking, MainKnows
  <1>3. ASSUME pc' \in [Workers -> WorkerPlaces],
               \A x \in Workers : pc'[x] = pc[x] \/ {pc[x], pc'[x]} \subseteq {"asleep", "wait", "got"},
               UNCHANGED <<alive, working, job, finished>>,
               CountType', MainKnows'
        PROVE  CountInv'
    <2>1. Busy(pc') = Busy(pc) /\ Living(pc') = Living(pc)
      BY <1>3 DEF Busy, Living
    <2>2. OneUnlocking'
      BY <1>0, <1>3 DEF OneUnlocking
    <2> QED
      BY <1>0, <1>3, <2>1, <2>2 DEF CountInv, CountersExact
  <1>4. ASSUME NEW w \in Workers, BsemWait(w) \/ SpuriousWakeup(w) PROVE CountInv'
    <2>1. /\ pc' \in [Workers -> WorkerPlaces]
          /\ \A x \in Workers : pc'[x] = pc[x] \/ {pc[x], pc'[x]} \subseteq {"asleep", "wait", "got"}
      BY <1>4, <1>t DEF BsemWait, SpuriousWakeup, WorkerPlaces
    <2>2. UNCHANGED <<main, keepalive, alive, working, queue, job, added, finished>> /\ v' \in {0, 1}
      BY <1>0, <1>4 DEF BsemWait, SpuriousWakeup, CountType
    <2>3. CountType' /\ MainKnows'
      BY <1>0, <2>1, <2>2 DEF CountType, MainKnows
    <2> QED
      BY <1>3, <2>1, <2>2, <2>3
  <1>5. CASE AddWork
    <2>1. pc' \in [Workers -> WorkerPlaces]
          /\ \A x \in Workers : pc'[x] = pc[x] \/ (pc[x] = "asleep" /\ pc'[x] = "wait")
      BY <1>5, <1>t, SignalMoves DEF AddWork
    <2>2. /\ UNCHANGED <<main, keepalive, alive, working, job, finished>>
          /\ v' = 1 /\ added' \in Nat /\ queue' \in Seq(Nat)
      BY <1>0, <1>5 DEF AddWork, CountType
    <2>3. CountType' /\ MainKnows'
      BY <1>0, <2>1, <2>2 DEF CountType, MainKnows
    <2> QED
      BY <1>3, <2>1, <2>2, <2>3
  <1>6. CASE PostAll
    <2>1. pc' \in [Workers -> WorkerPlaces]
          /\ \A x \in Workers : pc'[x] = pc[x] \/ (pc[x] = "asleep" /\ pc'[x] = "wait")
      BY <1>6, <1>t DEF PostAll, AfterBroadcast, WorkerPlaces
    <2>2. UNCHANGED <<main, keepalive, alive, working, queue, job, added, finished>> /\ v' = 1
      BY <1>6 DEF PostAll
    <2>3. CountType' /\ MainKnows'
      BY <1>0, <2>1, <2>2 DEF CountType, MainKnows
    <2> QED
      BY <1>3, <2>1, <2>2, <2>3
  <1>7. CASE InitDone \/ WaitTest \/ WaitCall \/ WaitReturn \/ Destroy \/ Free
             \/ Done \/ UNCHANGED vars
    <2>1. /\ UNCHANGED <<alive, working, pc, job, added, finished>>
          /\ main' \in MainPlaces /\ keepalive' \in {0, 1} /\ v' \in {0, 1}
          /\ queue' \in Seq(Nat)
      <3>1. CASE Free
        BY <1>0, <3>1 DEF Free, CountType, MainPlaces
      <3>2. CASE ~Free
        <4>1. UNCHANGED <<alive, working, pc, job, added, finished, v, queue>>
          BY <1>7, <3>2 DEF InitDone, WaitTest, WaitCall, WaitReturn, Destroy, Done, vars
        <4>2. main' \in MainPlaces /\ keepalive' \in {0, 1}
          BY <1>0, <1>7, <3>2 DEF InitDone, WaitTest, WaitCall, WaitReturn, Destroy, Done, vars,
                                  CountType, MainPlaces
        <4> QED
          BY <1>0, <4>1, <4>2 DEF CountType
      <3> QED
        BY <3>1, <3>2
    <2>2. MainKnows'
      <3>1. CASE InitDone
        <4>1. Living(pc) \in SUBSET Workers /\ Cardinality(Living(pc)) = Cardinality(Workers)
          BY <1>0, <3>1 DEF Living, InitDone, CountersExact
        <4>2. Living(pc) = Workers
          BY <4>1, WorkerSets
        <4> QED
          BY <2>1, <3>1, <4>2 DEF MainKnows, InitDone, Living
      <3>2. CASE ~InitDone
        <4>1. (main' # "init" => main # "init") /\ (main' = "freed" => main = "freed" \/ ~AnyAlive)
          BY <1>7, <3>2 DEF InitDone, WaitTest, WaitCall, WaitReturn, Destroy, Free, Done, vars
        <4> QED
          BY <1>0, <1>n, <2>1, <4>1 DEF MainKnows, AnyAlive
      <3> QED
        BY <3>1, <3>2
    <2>3. CountType'
      BY <1>0, <2>1 DEF CountType
    <2> QED
      BY <1>3, <1>t, <2>1, <2>2, <2>3
  <1>8. ASSUME NEW w \in Workers,
               Start(w) \/ Loop(w) \/ Enter(w) \/ Finish(w) \/ Exit(w) \/ Unlock(w)
        PROVE  CountInv'
    <2>1. \E place \in WorkerPlaces : pc' = [pc EXCEPT ![w] = place]
      BY <1>8 DEF Start, Loop, Enter, Finish, Exit, Unlock, WorkerPlaces
    <2> QED
      BY <1>1, <1>8, <2>1
  <1> QED
    BY <1>2, <1>4, <1>5, <1>6, <1>7, <1>8 DEF Next, WorkerStep, MainStep

\* The three parts of InOrderOnce.
QueueNewest == \A i \in 1 .. Len(queue) : queue[i] = Taken + i

TakenOnce ==
    \A k \in 1 .. Taken :
        \/ k \in finished /\ \A w \in Workers : job[w] # k
        \/ k \notin finished /\ \E w \in Workers : job[w] = k

OneWorkerEach == \A w, x \in Workers : job[w] = job[x] /\ job[w] # 0 => w = x

LEMMA InOrderParts ==
  InOrderOnce <=> (main # "freed" => QueueNewest /\ TakenOnce /\ OneWorkerEach)
  BY DEF InOrderOnce, QueueNewest, TakenOnce, OneWorkerEach, Taken

LEMMA JobStep == CountInv /\ CountInv' /\ JobInv /\ [Next]_vars => JobInv'
  <1> SUFFICES ASSUME CountInv, CountInv', JobInv, [Next]_vars PROVE JobInv'
    OBVIOUS
  <1>0. CountType /\ CountType'
    BY DEF CountInv
  <1>1. /\ JobsInHand
        /\ main # "freed" => QueueNewest /\ TakenOnce /\ OneWorkerEach
    BY InOrderParts DEF JobInv
  <1>2. ASSUME JobsInHand', main' # "freed" => (QueueNewest /\ TakenOnce /\ OneWorkerEach)'
        PROVE  JobInv'
    <2>1. InOrderOnce'
      BY <1>2 DEF InOrderOnce, QueueNewest, TakenOnce, OneWorkerEach, Taken
    <2> QED
      BY <1>2, <2>1 DEF JobInv
  <1>f. ASSUME main = "freed" PROVE \A w \in Workers : pc[w] \in {"unlocking", "gone"}
    <2>1. Living(pc) \in SUBSET Workers /\ Cardinality(Living(pc)) = 0
      BY <1>f DEF Living, CountInv, MainKnows, CountersExact
    <2>2. Living(pc) = {}
      BY <2>1, WorkerSets
    <2> QED
      BY <1>f, <2>2 DEF Living, CountInv, MainKnows
  <1>3. ASSUME NEW w \in Workers, Pull(w), queue # <<>> PROVE JobInv'
    <2>1. main # "freed" /\ pc[w] = "pull"
      BY <1>3, <1>f DEF Pull
    <2>2. /\ job' = [job EXCEPT ![w] = Head(queue)] /\ queue' = Tail(queue)
          /\ UNCHANGED <<main, added, finished>>
      BY <1>3 DEF Pull, FrontRemoved
    <2>3. /\ job[w] = 0
          /\ Taken \in Nat
          /\ finished \subseteq 1 .. Taken
          /\ job \in [Workers -> 0 .. Taken]
          /\ QueueNewest /\ TakenOnce /\ OneWorkerEach
          /\ queue \in Seq(Nat) /\ added \in Nat
      BY <1>0, <1>1, <2>1 DEF JobsInHand, CountType
    <2>4. /\ Len(queue) \in Nat \ {0}
          /\ Head(queue) = Taken + 1
          /\ Taken' = Taken + 1
          /\ Len(queue') = Len(queue) - 1
          /\ \A i \in 1 .. Len(queue') : queue'[i] = queue[i + 1]
      <3>1. Len(queue) \in Nat \ {0} /\ Head(queue) = queue[1]
        BY <1>3, <2>3
      <3>2. Len(Tail(queue)) = Len(queue) - 1
            /\ \A i \in 1 .. Len(queue) - 1 : Tail(queue)[i] = queue[i + 1]
        BY <1>3, <2>3
      <3>3. queue[1] = Taken + 1
        BY <2>3, <3>1 DEF QueueNewest
      <3>4. added' - Len(queue') = added - Len(queue) + 1
        BY <2>2, <2>3, <3>1, <3>2
      <3> QED
        BY <2>2, <3>1, <3>2, <3>3, <3>4 DEF Taken
    <2>5. \A x \in Workers : job'[x] = IF x = w THEN Taken + 1 ELSE job[x]
      BY <1>0, <2>2, <2>4 DEF CountType
    <2>6. JobsInHand'
      <3>1. ASSUME NEW x \in Workers, job'[x] # 0 PROVE pc'[x] = "run"
        <4>1. pc'[w] = "run"
          <5>1. CASE RepostIfMore
            <6>1. PICK p \in AfterSignal : pc' = [p EXCEPT ![w] = "run"]
              BY <1>3, <5>1 DEF Pull
            <6>2. p \in [Workers -> WorkerPlaces]
              BY <1>0, SignalMoves DEF CountType
            <6> QED
              BY <6>1, <6>2
          <5>2. CASE ~RepostIfMore
            BY <1>0, <1>3, <5>2 DEF Pull, CountType
          <5> QED
            BY <5>1, <5>2
        <4>2. x # w => pc'[x] = "run"
          <5> SUFFICES ASSUME x # w PROVE pc'[x] = "run"
            OBVIOUS
          <5>0. pc[x] = "run"
            BY <1>1, <2>5, <3>1 DEF JobsInHand
          <5>1. CASE RepostIfMore
            <6>1. PICK p \in AfterSignal : pc' = [p EXCEPT ![w] = "run"]
              BY <1>3, <5>1 DEF Pull
            <6>2. p \in [Workers -> WorkerPlaces] /\ p[x] = "run"
              BY <1>0, <5>0, SignalMoves DEF CountType
            <6> QED
              BY <6>1, <6>2
          <5>2. CASE ~RepostIfMore
            BY <1>0, <1>3, <5>0, <5>2 DEF Pull, CountType
          <5> QED
            BY <5>1, <5>2
        <4> QED
          BY <4>1, <4>2
      <3>2. job' \in [Workers -> 0 .. Taken']
        <4>1. \A x \in Workers : job[x] \in 0 .. Taken
          BY <2>3
        <4>2. \A x \in Workers : job'[x] \in 0 .. Taken + 1
          BY <2>3, <2>5, <4>1
        <4>3. job' \in [Workers -> 0 .. Taken + 1]
          BY <1>0, <2>2, <4>2 DEF CountType
        <4> QED
          BY <2>4, <4>3
      <3>3. main # "waited"
        BY <1>1, <1>3 DEF JobsInHand
      <3>4. finished' \subseteq 1 .. Taken'
        BY <2>2, <2>3, <2>4
      <3> QED
        BY <2>2, <2>3, <2>4, <3>1, <3>2, <3>3, <3>4 DEF JobsInHand
    <2>7. QueueNewest'
      BY <2>3, <2>4 DEF QueueNewest
    <2>8. TakenOnce'
      <3> SUFFICES ASSUME NEW k \in 1 .. Taken'
                   PROVE  \/ k \in finished /\ \A x \in Workers : job'[x] # k
                          \/ k \notin finished /\ \E x \in Workers : job'[x] = k
        BY <2>2 DEF TakenOnce
      <3>1. CASE k = Taken + 1
        BY <2>3, <2>5, <3>1
      <3>2. CASE k # Taken + 1
        <4>1. k \in 1 .. Taken
          BY <2>3, <2>4, <3>2
        <4> QED
          BY <2>3, <2>5, <3>2, <4>1 DEF TakenOnce
      <3> QED
        BY <3>1, <3>2
    <2>9. OneWorkerEach'
      BY <2>3, <2>5 DEF OneWorkerEach
    <2> QED
      BY <1>2, <2>6, <2>7, <2>8, <2>9
  <1>4. ASSUME NEW w \in Workers, Finish(w) PROVE JobInv'
    <2>1. /\ main # "freed" /\ pc[w] = "run"
          /\ main' # "freed" /\ (main' = "waited" => main = "waited")
      BY <1>4, <1>f DEF Finish, SignalIfIdle
    <2>2. /\ job' = [job EXCEPT ![w] = 0] /\ UNCHANGED <<queue, added>>
          /\ finished' = finished \cup ({job[w]} \ {0})
          /\ pc' = [pc EXCEPT ![w] = "loop"]
      BY <1>4 DEF Finish
    <2>3. Taken' = Taken
      BY <2>2 DEF Taken
    <2>4. /\ Taken \in Nat
          /\ finished \subseteq 1 .. Taken
          /\ job \in [Workers -> 0 .. Taken]
          /\ QueueNewest /\ TakenOnce /\ OneWorkerEach
      BY <1>1, <2>1 DEF JobsInHand
    <2>5. \A x \in Workers : job'[x] = IF x = w THEN 0 ELSE job[x]
      BY <2>2, <2>4
    <2>6. JobsInHand'
      <3>1. \A x \in Workers : job'[x] # 0 => pc'[x] = "run"
        BY <1>0, <1>1, <2>2, <2>5 DEF JobsInHand, CountType
      <3>2. finished' \subseteq 1 .. Taken' /\ job' \in [Workers -> 0 .. Taken']
        <4>1. \A x \in Workers : job[x] \in 0 .. Taken
          BY <2>4
        <4>2. {job[w]} \ {0} \subseteq 1 .. Taken
          BY <2>4, <4>1
        <4>3. \A x \in Workers : job'[x] \in 0 .. Taken
          BY <2>4, <2>5, <4>1
        <4>4. job' \in [Workers -> 0 .. Taken]
          BY <1>0, <2>2, <4>3 DEF CountType
        <4> QED
          BY <2>2, <2>3, <2>4, <4>2, <4>4
      <3>3. main' = "waited" => queue' = <<>> /\ \A x \in Workers : job'[x] = 0
        BY <1>1, <2>1, <2>2, <2>5 DEF JobsInHand
      <3> QED
        BY <2>3, <2>4, <3>1, <3>2, <3>3 DEF JobsInHand
    <2>7. QueueNewest'
      BY <2>2, <2>3, <2>4 DEF QueueNewest
    <2>8. TakenOnce'
      <3> SUFFICES ASSUME NEW k \in 1 .. Taken
                   PROVE  \/ k \in finished' /\ \A x \in Workers : job'[x] # k
                          \/ k \notin finished' /\ \E x \in Workers : job'[x] = k
        BY <2>3 DEF TakenOnce
      <3>1. k # 0
        BY <2>4
      <3>2. CASE k = job[w]
        BY <2>2, <2>4, <2>5, <3>1, <3>2 DEF OneWorkerEach
      <3>3. CASE k # job[w]
        BY <2>2, <2>4, <2>5, <3>1, <3>3 DEF TakenOnce
      <3> QED
        BY <3>2, <3>3
    <2>9. OneWorkerEach'
      BY <2>4, <2>5 DEF OneWorkerEach
    <2> QED
      BY <1>2, <2>6, <2>7, <2>8, <2>9
  <1>5. CASE AddWork
    <2>1. /\ main = "serve" /\ UNCHANGED <<main, job, finished>>
          /\ queue' = Append(queue, added + 1) /\ added' = added + 1
          /\ pc' \in AfterSignal
      BY <1>5 DEF AddWork
    <2>2. /\ Taken \in Nat
          /\ finished \subseteq 1 .. Taken
          /\ job \in [Workers -> 0 .. Taken]
          /\ QueueNewest /\ TakenOnce /\ OneWorkerEach
          /\ queue \in Seq(Nat) /\ added \in Nat
      BY <1>0, <1>1, <2>1 DEF JobsInHand, CountType
    <2>3. /\ Len(queue) \in Nat /\ Len(queue') = Len(queue) + 1
          /\ queue'[Len(queue) + 1] = added + 1
          /\ \A i \in 1 .. Len(queue) : queue'[i] = queue[i]
      BY <2>1, <2>2
    <2>4. Taken' = Taken
      BY <2>1, <2>2, <2>3 DEF Taken
    <2>5. QueueNewest'
      <3> SUFFICES ASSUME NEW i \in 1 .. Len(queue) + 1 PROVE queue'[i] = Taken + i
        BY <2>3, <2>4 DEF QueueNewest
      <3>1. CASE i = Len(queue) + 1
        BY <2>2, <2>3, <3>1 DEF Taken
      <3>2. CASE i # Len(queue) + 1
        <4>1. i \in 1 .. Len(queue)
          BY <2>3, <3>2
        <4> QED
          BY <2>2, <2>3, <4>1 DEF QueueNewest
      <3> QED
        BY <3>1, <3>2
    <2>6. TakenOnce' /\ OneWorkerEach'
      BY <2>1, <2>2, <2>4 DEF TakenOnce, OneWorkerEach
    <2>7. \A x \in Workers : job'[x] # 0 => pc'[x] = "run"
      BY <1>0, <1>1, <2>1, SignalMoves DEF JobsInHand, CountType
    <2>8. JobsInHand'
      BY <2>1, <2>2, <2>4, <2>7 DEF JobsInHand
    <2> QED
      BY <1>2, <2>5, <2>6, <2>8
  <1>6. CASE Free
    <2>1. main' = "freed" /\ UNCHANGED <<job, pc>>
      BY <1>6 DEF Free
    <2> QED
      BY <1>1, <1>2, <2>1 DEF JobsInHand
  <1>7. ASSUME UNCHANGED <<queue, job, added, finished>>,
               main' = "freed" <=> main = "freed",
               main' = "waited" => main = "waited" \/ (AllIdle /\ UNCHANGED pc),
               \A x \in Workers : pc[x] = "run" => pc'[x] = "run"
        PROVE  JobInv'
    <2>1. Taken' = Taken
      BY <1>7 DEF Taken
    <2>2. main' = "waited" => queue' = <<>> /\ \A x \in Workers : job'[x] = 0
      <3>1. CASE AllIdle
        <4>1. Busy(pc) \in SUBSET Workers /\ Cardinality(Busy(pc)) = 0
          BY <3>1 DEF AllIdle, Busy, CountInv, CountersExact
        <4>2. \A x \in Workers : pc[x] # "run"
          BY <4>1, WorkerSets DEF Busy
        <4> QED
          BY <1>1, <1>7, <3>1, <4>2 DEF AllIdle, JobsInHand
      <3>2. CASE ~AllIdle
        BY <1>1, <1>7, <3>2 DEF JobsInHand
      <3> QED
        BY <3>1, <3>2
    <2>3. CASE main = "freed"
      BY <1>1, <1>2, <1>7, <2>2, <2>3 DEF JobsInHand
    <2>4. CASE main # "freed"
      <3>1. JobsInHand'
        BY <1>1, <1>7, <2>1, <2>2, <2>4 DEF JobsInHand
      <3>2. (QueueNewest /\ TakenOnce /\ OneWorkerEach)'
        BY <1>1, <1>7, <2>1, <2>4 DEF QueueNewest, TakenOnce, OneWorkerEach
      <3> QED
        BY <1>2, <3>1, <3>2
    <2> QED
      BY <2>3, <2>4
  <1>8. ASSUME NEW w \in Workers,
               \/ Start(w) \/ Loop(w) \/ Enter(w) \/ Exit(w) \/ Unlock(w) \/ BsemWait(w)
               \/ SpuriousWakeup(w)
               \/ Pull(w) /\ queue = <<>>
        PROVE  JobInv'
    <2>1. UNCHANGED <<main, queue, job, added, finished>>
      BY <1>8 DEF Start, Loop, Enter, Exit, Unlock, BsemWait, SpuriousWakeup, Pull
    <2>2. \A x \in Workers : pc[x] = "run" => pc'[x] = "run"
      BY <1>0, <1>8 DEF CountType, Start, Loop, Enter, Exit, Unlock, BsemWait, SpuriousWakeup, Pull
    <2> QED
      BY <1>7, <2>1, <2>2
  <1>9. CASE PostAll
    <2>1. UNCHANGED <<main, queue, job, added, finished>>
      BY <1>9 DEF PostAll
    <2>2. \A x \in Workers : pc[x] = "run" => pc'[x] = "run"
      BY <1>0, <1>9 DEF CountType, PostAll, AfterBroadcast
    <2> QED
      BY <1>7, <2>1, <2>2
  <1>10. CASE InitDone \/ WaitTest \/ WaitCall \/ WaitReturn \/ Destroy \/ Done \/ UNCHANGED vars
    <2>1. /\ UNCHANGED <<queue, job, added, finished, pc>>
          /\ main' = "freed" <=> main = "freed"
          /\ main' = "waited" => main = "waited" \/ AllIdle
      BY <1>10 DEF InitDone, WaitTest, WaitCall, WaitReturn, Destroy, Done, vars
    <2> QED
      BY <1>7, <2>1
  <1> QED
    BY <1>3, <1>4, <1>5, <1>6, <1>8, <1>9, <1>10 DEF Next, WorkerStep, MainStep

LEMMA PoolInvariant == Spec => [](CountInv /\ JobInv)
  BY CountInit, CountStep, JobInit, JobStep, PTL DEF Spec

(***************************************************************************)
(* The two counters of the pool stay between 0 and the number of workers:  *)
(* no decrement in thread_do is made twice or without its increment.       *)
(***************************************************************************)
THEOREM PoolTypeCorrect == Spec => []TypeOK
  BY PoolInvariant, CountImpliesType, PTL

(***************************************************************************)
(* Jobs are taken in the order thpool_add_work added them, each by one     *)
(* worker and once, for any number of workers and jobs.                    *)
(***************************************************************************)
THEOREM JobsInOrderOnce == Spec => []InOrderOnce
  <1>1. JobInv => InOrderOnce
    BY DEF JobInv
  <1> QED
    BY <1>1, PoolInvariant, PTL

(***************************************************************************)
(* thpool_wait returns only when every job added has been run to its end,  *)
(* although it tests the queue and the counter and not the jobs.           *)
(***************************************************************************)
THEOREM WaitIsSound == Spec => []WaitMeansDone
  <1>1. CountInv /\ JobInv => WaitMeansDone
    <2> SUFFICES ASSUME CountInv, JobInv, main = "waited" PROVE finished = 1 .. added
      BY DEF WaitMeansDone
    <2>1. queue = <<>> /\ \A w \in Workers : job[w] = 0
      BY DEF JobInv, JobsInHand
    <2>2. Taken = added /\ added \in Nat
      BY <2>1 DEF Taken, CountInv, CountType
    <2>3. TakenOnce /\ finished \subseteq 1 .. added
      BY <2>2, InOrderParts DEF JobInv, JobsInHand
    <2>4. \A k \in 1 .. added : k \in finished
      BY <2>1, <2>2, <2>3 DEF TakenOnce
    <2> QED
      BY <2>3, <2>4
  <1> QED
    BY <1>1, PoolInvariant, PTL

(***************************************************************************)
(* thpool_destroy frees the pool with at most one worker left in it, at    *)
(* the unlock that follows its last decrement.                             *)
(***************************************************************************)
THEOREM DestroyIsLate == Spec => []DestroyWaitsForJobs
  <1>1. CountInv => DestroyWaitsForJobs
    <2> SUFFICES ASSUME CountInv, main = "freed"
                 PROVE  \E u \in Workers :
                           /\ pc[u] \in {"unlocking", "gone"}
                           /\ \A w \in Workers \ {u} : pc[w] = "gone"
      BY DEF DestroyWaitsForJobs
    <2>1. Living(pc) \in SUBSET Workers /\ Cardinality(Living(pc)) = 0
      BY DEF Living, CountInv, MainKnows, CountersExact
    <2>2. Living(pc) = {}
      BY <2>1, WorkerSets
    <2>3. \A w \in Workers : pc[w] \in {"unlocking", "gone"}
      BY <2>2 DEF Living, CountInv, MainKnows
    <2>4. CASE \E u \in Workers : pc[u] = "unlocking"
      BY <2>3, <2>4 DEF CountInv, OneUnlocking
    <2>5. CASE \A u \in Workers : pc[u] # "unlocking"
      BY <2>3, <2>5, WorkersAssumption
    <2> QED
      BY <2>4, <2>5
  <1> QED
    BY <1>1, PoolInvariant, PTL
=============================================================================

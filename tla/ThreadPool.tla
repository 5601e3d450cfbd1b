---------------------------- MODULE ThreadPool ----------------------------
(***************************************************************************)
(* The thread pool io_backend serves its clients with                      *)
(* (userspace/io_backend/src/thpool.c): a job queue, a binary semaphore    *)
(* the workers sleep on, and the counters thpool_wait and thpool_destroy   *)
(* watch.  One thread, "main", makes the pool, adds work, waits and        *)
(* destroys, as server_main does.                                          *)
(*                                                                         *)
(* A step is what a thread does under one mutex.  jobqueue_push and _pull  *)
(* post the semaphore while they hold rwmutex; nobody else looks at the    *)
(* queue meanwhile, so queue and semaphore change in one step.             *)
(***************************************************************************)
EXTENDS Naturals, Sequences, FiniteSets

CONSTANTS Workers,      \* the threads thpool_init creates
          MaxJobs       \* bound: jobs main adds

ASSUME WorkersAssumption == IsFiniteSet(Workers) /\ Workers # {}
ASSUME MaxJobsAssumption == MaxJobs \in Nat

VARIABLES
    main,         \* where the owner of the pool is
    keepalive,    \* threads_keepalive
    alive,        \* num_threads_alive
    working,      \* num_threads_working
    v,            \* has_jobs->v
    queue,        \* the job queue, front first
    pc,           \* where a worker is in thread_do
    job,          \* the job a worker took, 0 for none
    added,        \* how many jobs main has added: job k is the k-th
    finished      \* the jobs that have been run

vars == <<main, keepalive, alive, working, v, queue, pc, job, added, finished>>

MainPlaces == {"init", "serve", "waiting", "sleeping", "waited", "killing", "freed"}

(***************************************************************************)
(* new        before the alive counter is raised                           *)
(* loop       at the test of the while                                     *)
(* wait       in bsem_wait, about to test the semaphore                    *)
(* asleep     in its pthread_cond_wait                                     *)
(* got        has taken the semaphore                                      *)
(* pull       counted as working, about to call jobqueue_pull              *)
(* run        in the job, or with none                                     *)
(* exit       has left the loop                                            *)
(* unlocking  has lowered the alive counter, about to unlock thcount_lock  *)
(* gone       has left the pool's memory                                   *)
(***************************************************************************)
WorkerPlaces == {"new", "loop", "wait", "asleep", "got", "pull", "run", "exit",
                 "unlocking", "gone"}

TypeOK ==
    /\ main \in MainPlaces
    /\ keepalive \in {0, 1} /\ v \in {0, 1}
    /\ alive \in 0 .. Cardinality(Workers)
    /\ working \in 0 .. Cardinality(Workers)
    /\ queue \in Seq(Nat)
    /\ pc \in [Workers -> WorkerPlaces]
    /\ job \in [Workers -> Nat]
    /\ added \in Nat /\ finished \subseteq Nat

\* thpool_init up to the loop that waits for the workers.
Init ==
    /\ main = "init" /\ keepalive = 1
    /\ alive = 0 /\ working = 0
    /\ v = 0 /\ queue = <<>>
    /\ pc = [w \in Workers |-> "new"]
    /\ job = [w \in Workers |-> 0]
    /\ added = 0 /\ finished = {}

\* thcount_lock can be taken: the only section not modelled as one step is
\* the last one of a worker.
LockFree == \A w \in Workers : pc[w] # "unlocking"
-----------------------------------------------------------------------------
(***************************************************************************)
(* The binary semaphore.                                                   *)
(***************************************************************************)
Sleepers == {w \in Workers : pc[w] = "asleep"}

\* pthread_cond_signal in bsem_post: the places of the workers after it woke
\* one of those asleep, if there is one.
NoSignal == {pc}
AfterSignal ==
    IF Sleepers = {} THEN {pc} ELSE {[pc EXCEPT ![w] = "wait"] : w \in Sleepers}

\* pthread_cond_broadcast in bsem_post_all.
NoBroadcast == pc
AfterBroadcast == [w \in Workers |-> IF pc[w] = "asleep" THEN "wait" ELSE pc[w]]

\* bsem_wait: one test of the semaphore.
BsemWait(w) ==
    /\ pc[w] = "wait"
    /\ \/ v = 1 /\ v' = 0 /\ pc' = [pc EXCEPT ![w] = "got"]
       \/ v = 0 /\ v' = v /\ pc' = [pc EXCEPT ![w] = "asleep"]
    /\ UNCHANGED <<main, keepalive, alive, working, queue, job, added, finished>>

\* pthread_cond_wait may return without a signal.
SpuriousWakeup(w) ==
    /\ pc[w] = "asleep"
    /\ pc' = [pc EXCEPT ![w] = "wait"]
    /\ UNCHANGED <<main, keepalive, alive, working, v, queue, job, added, finished>>
-----------------------------------------------------------------------------
(***************************************************************************)
(* thread_do.                                                              *)
(***************************************************************************)
Start(w) ==
    /\ pc[w] = "new" /\ LockFree
    /\ alive' = alive + 1
    /\ pc' = [pc EXCEPT ![w] = "loop"]
    /\ UNCHANGED <<main, keepalive, working, v, queue, job, added, finished>>

Loop(w) ==
    /\ pc[w] = "loop"
    /\ pc' = [pc EXCEPT ![w] = IF keepalive = 1 THEN "wait" ELSE "exit"]
    /\ UNCHANGED <<main, keepalive, alive, working, v, queue, job, added, finished>>

\* The second test of keepalive; then the worker counts itself as working.
Enter(w) ==
    /\ pc[w] = "got"
    /\ \/ /\ keepalive = 1 /\ LockFree
          /\ working' = working + 1
          /\ pc' = [pc EXCEPT ![w] = "pull"]
       \/ /\ keepalive = 0
          /\ pc' = [pc EXCEPT ![w] = "loop"]
          /\ UNCHANGED working
    /\ UNCHANGED <<main, keepalive, alive, v, queue, job, added, finished>>

\* jobqueue_pull posts the semaphore again if jobs remain.
RepostNever == FALSE
RepostIfMore == Len(queue) > 1

\* What jobqueue_pull leaves in the queue.
NothingRemoved == queue
FrontRemoved == Tail(queue)

\* jobqueue_pull: the front of the queue, or no job.
Pull(w) ==
    /\ pc[w] = "pull"
    /\ IF queue = <<>>
       THEN UNCHANGED <<queue, v, job>> /\ pc' = [pc EXCEPT ![w] = "run"]
       ELSE /\ job' = [job EXCEPT ![w] = Head(queue)]
            /\ queue' = FrontRemoved
            /\ IF RepostIfMore
               THEN v' = 1 /\ \E p \in AfterSignal : pc' = [p EXCEPT ![w] = "run"]
               ELSE UNCHANGED v /\ pc' = [pc EXCEPT ![w] = "run"]
    /\ UNCHANGED <<main, keepalive, alive, working, added, finished>>

\* The last worker to stop working wakes thpool_wait.
SignalNever == main
SignalIfIdle == IF main = "sleeping" /\ working = 1 THEN "waiting" ELSE main

\* num_threads_working after a job.
StillWorking == working
OneLessWorking == working - 1

\* The job returns, and the worker stops counting as working.
Finish(w) ==
    /\ pc[w] = "run" /\ LockFree
    /\ finished' = finished \cup ({job[w]} \ {0})
    /\ job' = [job EXCEPT ![w] = 0]
    /\ working' = OneLessWorking
    /\ main' = SignalIfIdle
    /\ pc' = [pc EXCEPT ![w] = "loop"]
    /\ UNCHANGED <<keepalive, alive, v, queue, added>>

Exit(w) ==
    /\ pc[w] = "exit" /\ LockFree
    /\ alive' = alive - 1
    /\ pc' = [pc EXCEPT ![w] = "unlocking"]
    /\ UNCHANGED <<main, keepalive, working, v, queue, job, added, finished>>

Unlock(w) ==
    /\ pc[w] = "unlocking"
    /\ pc' = [pc EXCEPT ![w] = "gone"]
    /\ UNCHANGED <<main, keepalive, alive, working, v, queue, job, added, finished>>

WorkerStep(w) ==
    \/ Start(w) \/ Loop(w) \/ BsemWait(w) \/ Enter(w) \/ Pull(w) \/ Finish(w)
    \/ Exit(w) \/ Unlock(w)
-----------------------------------------------------------------------------
(***************************************************************************)
(* The owner of the pool.                                                  *)
(***************************************************************************)

\* The end of thpool_init: every worker is there.
InitDone ==
    /\ main = "init" /\ alive = Cardinality(Workers)
    /\ main' = "serve"
    /\ UNCHANGED <<keepalive, alive, working, v, queue, pc, job, added, finished>>

\* thpool_add_work, jobqueue_push and its bsem_post.
AddWork ==
    /\ main = "serve" /\ added < MaxJobs
    /\ added' = added + 1
    /\ queue' = Append(queue, added + 1)
    /\ v' = 1
    /\ pc' \in AfterSignal
    /\ UNCHANGED <<main, keepalive, alive, working, job, finished>>

\* thpool_wait: one test of its while loop.
AllIdleButQueued == working = 0
AllIdle == queue = <<>> /\ working = 0

WaitCall ==
    /\ main = "serve"
    /\ main' = "waiting"
    /\ UNCHANGED <<keepalive, alive, working, v, queue, pc, job, added, finished>>

WaitTest ==
    /\ main = "waiting" /\ LockFree
    /\ main' = IF AllIdle THEN "waited" ELSE "sleeping"
    /\ UNCHANGED <<keepalive, alive, working, v, queue, pc, job, added, finished>>

\* The owner goes on, or pthread_cond_wait returned without a signal.
WaitReturn ==
    /\ \/ main = "waited" /\ main' = "serve"
       \/ main = "sleeping" /\ main' = "waiting"
    /\ UNCHANGED <<keepalive, alive, working, v, queue, pc, job, added, finished>>

\* thpool_destroy: end every worker's loop ...
Destroy ==
    /\ main \in {"serve", "waited"}
    /\ main' = "killing"
    /\ keepalive' = 0
    /\ UNCHANGED <<alive, working, v, queue, pc, job, added, finished>>

\* ... post to them as long as one is alive ...
AnyWorking == working > 0
AnyAlive == alive > 0

PostAll ==
    /\ main = "killing" /\ AnyAlive
    /\ v' = 1
    /\ pc' = AfterBroadcast
    /\ UNCHANGED <<main, keepalive, alive, working, queue, job, added, finished>>

\* ... and free the pool with what is left in the queue.
Free ==
    /\ main = "killing" /\ ~AnyAlive
    /\ main' = "freed"
    /\ queue' = <<>> /\ v' = 0
    /\ UNCHANGED <<keepalive, alive, working, pc, job, added, finished>>

MainStep == InitDone \/ WaitTest \/ PostAll \/ Free

Done ==
    /\ main = "freed" /\ \A w \in Workers : pc[w] = "gone"
    /\ UNCHANGED vars

Next ==
    \/ \E w \in Workers : WorkerStep(w) \/ SpuriousWakeup(w)
    \/ MainStep \/ AddWork \/ WaitCall \/ WaitReturn \/ Destroy \/ Done

Spec == Init /\ [][Next]_vars

(***************************************************************************)
(* Every thread that can take a step is scheduled, and every job returns.  *)
(* Nothing makes main call anything.                                       *)
(***************************************************************************)
Fairness == WF_vars(MainStep) /\ \A w \in Workers : WF_vars(WorkerStep(w))

FairSpec == Spec /\ Fairness
-----------------------------------------------------------------------------
(***************************************************************************)
(* Properties.                                                             *)
(***************************************************************************)

(***************************************************************************)
(* No lost wake-up: while the pool serves and a job is queued, not every   *)
(* worker is asleep on the semaphore, although v is one bit, a post counts *)
(* once however often it is made, and a woken worker may find v taken.     *)
(***************************************************************************)
NoLostWakeup ==
    keepalive = 1 /\ queue # <<>> => \E w \in Workers : pc[w] # "asleep"

(***************************************************************************)
(* Jobs start in the order they were added and each runs at most once:     *)
(* those in the queue are the newest, in order, and the others are         *)
(* finished or with exactly one worker.                                    *)
(***************************************************************************)
InOrderOnce ==
    main # "freed" =>
        LET taken == added - Len(queue)
        IN  /\ \A i \in 1 .. Len(queue) : queue[i] = taken + i
            /\ \A k \in 1 .. taken :
                  \/ k \in finished /\ \A w \in Workers : job[w] # k
                  \/ k \notin finished /\ \E w \in Workers : job[w] = k
            /\ \A w, x \in Workers : job[w] = job[x] /\ job[w] # 0 => w = x

(***************************************************************************)
(* When thpool_wait returns, every job added before it has been run to its *)
(* end; it reads the queue's length without the queue's mutex.             *)
(***************************************************************************)
WaitMeansDone == main = "waited" => finished = 1 .. added

(***************************************************************************)
(* thpool_destroy frees the pool only when no worker is in a job or may    *)
(* start one.  The counter it polls is lowered before the worker's last    *)
(* use of the pool, the unlock of thcount_lock, but the lock lets only one *)
(* worker be there.                                                        *)
(***************************************************************************)
DestroyWaitsForJobs ==
    main = "freed" =>
        \E u \in Workers :
            /\ pc[u] \in {"unlocking", "gone"}
            /\ \A w \in Workers \ {u} : pc[w] = "gone"

\* Every job added is run, unless the pool is destroyed first.
JobsFinish ==
    \A k \in 1 .. MaxJobs : added >= k ~> (k \in finished \/ keepalive = 0)

\* thpool_wait returns.
WaitReturns == main = "waiting" ~> main = "waited"

\* thpool_destroy returns: the repeated posts reach every sleeping worker.
DestroyReturns == main = "killing" ~> main = "freed"
=============================================================================

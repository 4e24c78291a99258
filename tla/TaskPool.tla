------------------------------ MODULE TaskPool ------------------------------
(***************************************************************************)
(* The task pool of the c_sdk, iot_taskpool.c: worker threads take jobs    *)
(* from a dispatch queue, a timer thread moves deferred jobs into it, and  *)
(* the application schedules, cancels and recycles jobs and destroys the   *)
(* pool.                                                                   *)
(*                                                                         *)
(* Each critical section is one step, because it runs under the pool's     *)
(* lock; the exception is a scheduler that waits for a new thread to       *)
(* start, which keeps the lock meanwhile. What a thread does between two   *)
(* critical sections, waiting on a semaphore or running a callback, is a   *)
(* step of its own. Memory that was freed is not touched: no action of a   *)
(* freed pool is modelled beyond the point where it would touch it.        *)
(***************************************************************************)
EXTENDS Naturals, FiniteSets, SequencesExt

CONSTANTS
  Jobs, StaticJobs,       \* all jobs, and those in storage of the user
  NoJob,
  Threads,                \* the threads the system can create
  MinThreads, MaxThreads, \* minThreads, and maxThreads at creation
  RecycleLimit,           \* IOT_TASKPOOL_JOBS_RECYCLE_LIMIT
  Faults,                 \* which thread creations and allocations may fail
  MaxCalls                \* bound on the application's calls

ASSUME JobsAssumption    == /\ IsFiniteSet(Jobs) /\ NoJob \notin Jobs
                            /\ StaticJobs \subseteq Jobs
ASSUME ThreadsAssumption == /\ IsFiniteSet(Threads)
                            /\ MinThreads \in Nat \ {0} /\ MaxThreads \in Nat
                            /\ MinThreads <= MaxThreads
ASSUME LimitsAssumption  == /\ RecycleLimit \in Nat /\ MaxCalls \in Nat
                            /\ Faults \subseteq {"create", "normal", "high", "timerEvent"}

VARIABLES
  phase,           \* what the thread that creates and destroys the pool is at
  awaited,         \* how many posts of startStopSignal it still waits for
  completeShutdown, \* IotTaskPool_Destroy frees the pool, not the timer thread
  freed,           \* the pool's lock, semaphores and memory are gone
  lock,            \* who keeps the lock across a wait
  grow,            \* the scheduler that waits for a new thread
  maxThreads, activeThreads, activeJobs,
  dispatchSignal, startStopSignal,
  status,          \* the status of each job
  queue,           \* dispatchQueue
  timerEvents,     \* timerEventsList, as its jobs
  expired,         \* how many of its first events are due
  cache,           \* jobsCache
  timerArmed,      \* the one-shot timer runs
  timerThread,     \* where _timerThread is
  worker,          \* where each worker thread is
  calls

control == <<phase, awaited, completeShutdown, freed>>
counts  == <<maxThreads, activeThreads, activeJobs>>
signals == <<dispatchSignal, startStopSignal>>
defers  == <<timerEvents, expired, timerArmed>>
vars    == <<control, lock, grow, counts, signals, status, queue, defers, cache,
             timerThread, worker, calls>>

Statuses   == {"undefined", "ready", "scheduled", "deferred", "completed", "canceled"}
NoGrow     == [job |-> NoJob, head |-> FALSE]
Gone       == [at |-> "none", job |-> NoJob, running |-> FALSE]
At(p)      == [at |-> p, job |-> NoJob, running |-> TRUE]

Init ==
  /\ phase = "creating" /\ awaited = 0 /\ completeShutdown = TRUE /\ freed = FALSE
  /\ lock = "free" /\ grow = NoGrow
  /\ maxThreads = MaxThreads /\ activeThreads = 0 /\ activeJobs = 0
  /\ dispatchSignal = 0 /\ startStopSignal = 0
  /\ status = [j \in Jobs |-> "undefined"]
  /\ queue = <<>> /\ timerEvents = <<>> /\ expired = 0 /\ cache = {}
  /\ timerArmed = FALSE /\ timerThread = "idle"
  /\ worker = [w \in Threads |-> Gone]
  /\ calls = MaxCalls

Free            == lock = "free" /\ ~freed
ShutdownStarted == maxThreads = 0
FreeThreads     == {w \in Threads : worker[w].at = "none"}

-----------------------------------------------------------------------------
(* Creation: the minimum of threads, then a wait until all are up.         *)

CreateWorker ==
  /\ phase = "creating" /\ activeThreads < MinThreads
  /\ \E w \in FreeThreads : worker' = [worker EXCEPT ![w] = At("starting")]
  /\ activeThreads' = activeThreads + 1 /\ awaited' = awaited + 1
  /\ UNCHANGED <<phase, completeShutdown, freed, lock, grow, maxThreads, activeJobs,
                 signals, status, queue, defers, cache, timerThread, calls>>

WorkersCreated ==
  /\ phase = "creating"
  /\ \/ activeThreads = MinThreads /\ phase' = "readying"
     \/ /\ activeThreads < MinThreads /\ "create" \in Faults
        /\ phase' = "failing"
  /\ UNCHANGED <<awaited, completeShutdown, freed, lock, grow, counts, signals, status,
                 queue, defers, cache, timerThread, worker, calls>>

(* IotSemaphore_Wait(startStopSignal) of _createTaskPool and of            *)
(* IotTaskPool_Destroy.                                                    *)
AwaitThread ==
  /\ phase \in {"readying", "failing", "stopping"} /\ ~freed
  /\ awaited > 0 /\ startStopSignal > 0
  /\ awaited' = awaited - 1 /\ startStopSignal' = startStopSignal - 1
  /\ UNCHANGED <<phase, completeShutdown, freed, lock, grow, counts, dispatchSignal,
                 status, queue, defers, cache, timerThread, worker, calls>>

(* _signalShutdown: the exit condition, and a post for every thread.       *)
SignalShutdown ==
  /\ maxThreads' = 0
  /\ dispatchSignal' = dispatchSignal + activeThreads
  /\ awaited' = activeThreads /\ phase' = "stopping"

Created ==
  /\ awaited = 0
  /\ \/ /\ phase = "readying" /\ phase' = "running"
        /\ UNCHANGED <<awaited, maxThreads, dispatchSignal>>
     \/ phase = "failing" /\ SignalShutdown
  /\ UNCHANGED <<completeShutdown, freed, lock, grow, activeThreads, activeJobs,
                 startStopSignal, status, queue, defers, cache, timerThread, worker, calls>>

-----------------------------------------------------------------------------
(* Scheduling.                                                             *)

(* The dispatch queue with job j added, and the worker's signal.           *)
EnqueueUnsignalled(q, j, head) ==
  /\ queue' = IF head THEN <<j>> \o q ELSE Append(q, j)
  /\ dispatchSignal' = dispatchSignal
Enqueue(q, j, head) ==
  /\ queue' = IF head THEN <<j>> \o q ELSE Append(q, j)
  /\ dispatchSignal' = dispatchSignal + 1

(* _scheduleInternal over the queue q. A pool whose threads are all busy   *)
(* grows, beyond maxThreads for a high priority job; the caller then waits *)
(* under the lock for the new thread. A high priority job fails when the   *)
(* thread cannot be created, and keeps its new status.                     *)
MustGrow(high)   == high /\ activeThreads <= activeJobs + 1
ShouldGrow(high) == /\ ~high /\ activeThreads <= activeJobs + 1
                    /\ activeThreads < maxThreads

ScheduleInternal(j, high, q, holder) ==
  /\ status' = [status EXCEPT ![j] = "scheduled"]
  /\ \/ /\ MustGrow(high) \/ ShouldGrow(high)
        /\ \E w \in FreeThreads : worker' = [worker EXCEPT ![w] = At("starting")]
        /\ grow' = [job |-> j, head |-> high]
        /\ activeJobs' = activeJobs + 1
        /\ queue' = q /\ lock' = holder
        /\ UNCHANGED dispatchSignal
     \/ /\ ~MustGrow(high)
        /\ ShouldGrow(high) => "normal" \in Faults
        /\ Enqueue(q, j, FALSE)
        /\ activeJobs' = activeJobs + 1
        /\ UNCHANGED <<worker, grow, lock>>
     \/ /\ MustGrow(high) /\ "high" \in Faults
        /\ queue' = q
        /\ UNCHANGED <<worker, grow, lock, activeJobs, dispatchSignal>>

(* The new thread is up: the scheduler goes on.                            *)
GrowUncounted ==
  /\ grow # NoGrow /\ startStopSignal > 0
  /\ startStopSignal' = startStopSignal - 1
  /\ Enqueue(queue, grow.job, grow.head)
  /\ grow' = NoGrow
  /\ lock' = IF lock = "timer" THEN "timer" ELSE "free"
  /\ UNCHANGED <<control, maxThreads, activeThreads, activeJobs, status, defers, cache,
                 timerThread, worker, calls>>
FinishGrow ==
  /\ grow # NoGrow /\ startStopSignal > 0
  /\ startStopSignal' = startStopSignal - 1
  /\ activeThreads' = activeThreads + 1
  /\ Enqueue(queue, grow.job, grow.head)
  /\ grow' = NoGrow
  /\ lock' = IF lock = "timer" THEN "timer" ELSE "free"
  /\ UNCHANGED <<control, maxThreads, activeJobs, status, defers, cache, timerThread,
                 worker, calls>>

(* _tryCancelInternal and _trySafeExtraction: a scheduled job leaves the   *)
(* dispatch queue, a deferred one the timer list, and the timer is armed   *)
(* for the next event when it was the first.                               *)
CanExtract(j) == status[j] \in {"ready", "canceled", "scheduled", "deferred"}

IsDue(j)     == \E i \in 1..expired : timerEvents[i] = j
NowDue(j)    == IF IsDue(j) THEN expired - 1 ELSE expired
Rearmed(j)   == timerArmed \/ (Len(timerEvents) > 1 /\ Head(timerEvents) = j)

RemoveTimerEvent(j) ==
  /\ timerEvents' = RemoveFirst(timerEvents, j)
  /\ expired' = NowDue(j)
  /\ timerArmed' = Rearmed(j)

Call == phase = "running" /\ Free /\ calls > 0 /\ calls' = calls - 1

CreateJob(j) ==
  /\ Call /\ j \in StaticJobs /\ status[j] \notin {"scheduled", "deferred"}
  /\ status' = [status EXCEPT ![j] = "ready"]
  /\ UNCHANGED <<control, lock, grow, counts, signals, queue, defers, cache, timerThread,
                 worker>>

(* _fetchOrAllocateJob: a job of the cache, or new memory.                 *)
CreateRecyclableJob(j) ==
  /\ Call /\ j \notin StaticJobs
  /\ IF cache # {} THEN j \in cache ELSE status[j] = "undefined"
  /\ status' = [status EXCEPT ![j] = "ready"]
  /\ cache' = cache \ {j}
  /\ UNCHANGED <<control, lock, grow, counts, signals, queue, defers, timerThread, worker>>

Schedule(j, high) ==
  /\ Call /\ CanExtract(j)
  /\ RemoveTimerEvent(j)
  /\ ScheduleInternal(j, high, RemoveFirst(queue, j), "app")
  /\ UNCHANGED <<control, maxThreads, activeThreads, startStopSignal, cache, timerThread>>

(* The event goes somewhere behind those that are due; the timer is armed  *)
(* when it comes first. Without memory for the event the job has left      *)
(* where it was all the same.                                              *)
ScheduleDeferred(j) ==
  /\ Call /\ CanExtract(j)
  /\ LET events == RemoveFirst(timerEvents, j)
     IN  \E i \in NowDue(j) + 1 .. Len(events) + 1 :
           /\ timerEvents' = InsertAt(events, i, j)
           /\ timerArmed' = (i = 1 \/ Rearmed(j))
  /\ expired' = NowDue(j)
  /\ queue' = RemoveFirst(queue, j)
  /\ status' = [status EXCEPT ![j] = "deferred"]
  /\ UNCHANGED <<control, lock, grow, counts, signals, cache, timerThread, worker>>

DeferralFails(j) ==
  /\ Call /\ CanExtract(j) /\ "timerEvent" \in Faults
  /\ RemoveTimerEvent(j) /\ queue' = RemoveFirst(queue, j)
  /\ status' = [status EXCEPT ![j] = IF @ = "ready" THEN "ready" ELSE "canceled"]
  /\ UNCHANGED <<control, lock, grow, counts, signals, cache, timerThread, worker>>

CancelDequeuesNothing(j) ==
  /\ Call /\ CanExtract(j)
  /\ RemoveTimerEvent(j)
  /\ status' = [status EXCEPT ![j] = "canceled"]
  /\ UNCHANGED <<control, lock, grow, counts, signals, queue, cache, timerThread, worker>>
TryCancel(j) ==
  /\ Call /\ CanExtract(j)
  /\ RemoveTimerEvent(j) /\ queue' = RemoveFirst(queue, j)
  /\ status' = [status EXCEPT ![j] = "canceled"]
  /\ UNCHANGED <<control, lock, grow, counts, signals, cache, timerThread, worker>>

(* A job that was extracted, or that has run, goes to the cache while      *)
(* there is room.                                                          *)
Dispose(j, kept) ==
  /\ Call /\ j \notin StaticJobs /\ (CanExtract(j) \/ status[j] = "completed")
  /\ RemoveTimerEvent(j) /\ queue' = RemoveFirst(queue, j)
  /\ status' = [status EXCEPT ![j] = "undefined"]
  /\ cache' = IF kept THEN cache \cup {j} ELSE cache
  /\ UNCHANGED <<control, lock, grow, counts, signals, timerThread, worker>>

RecycleJob(j)           == Dispose(j, Cardinality(cache) < RecycleLimit)
DestroyRecyclableJob(j) == Dispose(j, FALSE)

SetMaxThreads(m) ==
  /\ Call /\ m >= MinThreads
  /\ maxThreads' = m
  /\ dispatchSignal' = IF m < maxThreads THEN dispatchSignal + (maxThreads - m)
                       ELSE dispatchSignal
  /\ UNCHANGED <<control, lock, grow, activeThreads, activeJobs, startStopSignal, status,
                 queue, defers, cache, timerThread, worker>>

-----------------------------------------------------------------------------
(* A worker thread: _taskPoolWorker.                                       *)

Start(w) ==
  /\ worker[w].at = "starting" /\ ~freed
  /\ startStopSignal' = startStopSignal + 1
  /\ worker' = [worker EXCEPT ![w] = At("waiting")]
  /\ UNCHANGED <<control, lock, grow, counts, dispatchSignal, status, queue, defers, cache,
                 timerThread, calls>>

(* IotSemaphore_TimedWait returns with a post, or without one.             *)
Wake(w) ==
  /\ worker[w].at = "waiting" /\ ~freed
  /\ \/ /\ dispatchSignal > 0 /\ dispatchSignal' = dispatchSignal - 1
        /\ worker' = [worker EXCEPT ![w] = At("woken")]
     \/ /\ dispatchSignal = 0 /\ UNCHANGED dispatchSignal
        /\ worker' = [worker EXCEPT ![w] = At("timedOut")]
  /\ UNCHANGED <<control, lock, grow, counts, startStopSignal, status, queue, defers, cache,
                 timerThread, calls>>

(* The first job of the queue is dequeued and marked, still under the lock.*)
TakeJob(w, running) ==
  /\ queue # <<>> /\ queue' = Tail(queue)
  /\ status' = [status EXCEPT ![Head(queue)] = "completed"]
  /\ worker' = [worker EXCEPT ![w] =
                  [at |-> "executing", job |-> Head(queue), running |-> running]]

(* A thread above the quota, or woken by a timeout above the minimum, dies *)
(* after this round.                                                       *)
Dies(w) == \/ activeThreads > maxThreads
           \/ worker[w].at = "timedOut" /\ activeThreads > MinThreads

LeavesWithoutJob(w) ==
  /\ worker[w].at \in {"woken", "timedOut"} /\ Free /\ ~ShutdownStarted
  /\ activeThreads' = IF Dies(w) THEN activeThreads - 1 ELSE activeThreads
  /\ worker' = [worker EXCEPT ![w] = IF Dies(w) THEN Gone ELSE At("waiting")]
  /\ UNCHANGED <<control, lock, grow, maxThreads, activeJobs, signals, status, queue,
                 defers, cache, timerThread, calls>>
LookForJob(w) ==
  /\ worker[w].at \in {"woken", "timedOut"} /\ Free /\ ~ShutdownStarted
  /\ activeThreads' = IF Dies(w) THEN activeThreads - 1 ELSE activeThreads
  /\ \/ worker[w].at = "woken" /\ TakeJob(w, ~Dies(w))
     \/ /\ worker[w].at = "timedOut" \/ queue = <<>>
        /\ worker' = [worker EXCEPT ![w] = IF Dies(w) THEN Gone ELSE At("waiting")]
        /\ UNCHANGED <<queue, status>>
  /\ UNCHANGED <<control, lock, grow, maxThreads, activeJobs, signals, defers, cache,
                 timerThread, calls>>

(* The exit condition: leave, then signal that the thread is gone.         *)
ExitUncounted(w) ==
  /\ worker[w].at \in {"woken", "timedOut"} /\ Free /\ ShutdownStarted
  /\ worker' = [worker EXCEPT ![w] = At("exiting")]
  /\ UNCHANGED <<control, lock, grow, counts, signals, status, queue, defers, cache,
                 timerThread, calls>>
SeeShutdown(w) ==
  /\ worker[w].at \in {"woken", "timedOut"} /\ Free /\ ShutdownStarted
  /\ activeThreads' = activeThreads - 1
  /\ worker' = [worker EXCEPT ![w] = At("exiting")]
  /\ UNCHANGED <<control, lock, grow, maxThreads, activeJobs, signals, status, queue,
                 defers, cache, timerThread, calls>>

ExitUnsignalled(w) ==
  /\ worker[w].at = "exiting" /\ ~freed
  /\ worker' = [worker EXCEPT ![w] = Gone]
  /\ UNCHANGED <<control, lock, grow, counts, signals, status, queue, defers, cache,
                 timerThread, calls>>
Exit(w) ==
  /\ worker[w].at = "exiting" /\ ~freed
  /\ startStopSignal' = startStopSignal + 1
  /\ worker' = [worker EXCEPT ![w] = Gone]
  /\ UNCHANGED <<control, lock, grow, counts, dispatchSignal, status, queue, defers, cache,
                 timerThread, calls>>

(* The callback returns; a thread marked dead leaves without the lock.     *)
CallbackReturns(w) ==
  /\ worker[w].at = "executing"
  /\ worker' = [worker EXCEPT ![w] = IF worker[w].running THEN At("returned") ELSE Gone]
  /\ UNCHANGED <<control, lock, grow, counts, signals, status, queue, defers, cache,
                 timerThread, calls>>

(* The inner loop: the next job is taken without a post.                   *)
NextJob(w) ==
  /\ worker[w].at = "returned" /\ Free
  /\ activeJobs' = activeJobs - 1
  /\ \/ TakeJob(w, TRUE)
     \/ /\ queue = <<>> /\ worker' = [worker EXCEPT ![w] = At("waiting")]
        /\ UNCHANGED <<queue, status>>
  /\ UNCHANGED <<control, lock, grow, maxThreads, activeThreads, signals, defers, cache,
                 timerThread, calls>>

Worker(w) == \/ Start(w) \/ Wake(w) \/ LookForJob(w) \/ SeeShutdown(w) \/ Exit(w)
             \/ CallbackReturns(w) \/ NextJob(w)

-----------------------------------------------------------------------------
(* The timer.                                                              *)

TimePasses ==
  /\ expired < Len(timerEvents) /\ expired' = expired + 1
  /\ UNCHANGED <<control, lock, grow, counts, signals, status, queue, timerEvents,
                 timerArmed, cache, timerThread, worker, calls>>

(* The one-shot timer goes off when its first event is due, or where an    *)
(* event was that has been canceled, and _timerThread runs in the timer    *)
(* task.                                                                   *)
TimerFires ==
  /\ timerArmed /\ timerThread = "idle" /\ ~freed
  /\ timerEvents = <<>> \/ expired > 0
  /\ timerArmed' = FALSE /\ timerThread' = "called"
  /\ UNCHANGED <<control, lock, grow, counts, signals, status, queue, timerEvents, expired,
                 cache, worker, calls>>

(* _timerThread gets the lock: after a shutdown it frees the pool.         *)
TimerLocks ==
  /\ timerThread = "called" /\ Free
  /\ \/ /\ ShutdownStarted
        /\ freed' = TRUE /\ timerArmed' = FALSE /\ timerThread' = "idle"
        /\ UNCHANGED lock
     \/ /\ ~ShutdownStarted
        /\ lock' = "timer" /\ timerThread' = "dispatching"
        /\ UNCHANGED <<freed, timerArmed>>
  /\ UNCHANGED <<phase, awaited, completeShutdown, grow, counts, signals, status, queue,
                 timerEvents, expired, cache, worker, calls>>

DispatchExpired ==
  /\ timerThread = "dispatching" /\ grow = NoGrow /\ expired > 0
  /\ timerEvents' = Tail(timerEvents) /\ expired' = expired - 1
  /\ ScheduleInternal(Head(timerEvents), FALSE, queue, "timer")
  /\ UNCHANGED <<control, maxThreads, activeThreads, startStopSignal, timerArmed, cache,
                 timerThread, calls>>

TimerDone ==
  /\ timerThread = "dispatching" /\ grow = NoGrow /\ expired = 0
  /\ timerArmed' = (timerArmed \/ timerEvents # <<>>)
  /\ lock' = "free" /\ timerThread' = "idle"
  /\ UNCHANGED <<control, grow, counts, signals, status, queue, timerEvents, expired, cache,
                 worker, calls>>

TimerTask == TimerFires \/ TimerLocks \/ DispatchExpired \/ TimerDone

-----------------------------------------------------------------------------
(* IotTaskPool_Destroy: queue, timer list and cache are emptied and the    *)
(* jobs destroyed, the threads are told to exit and waited for. The pool   *)
(* is freed here unless the first deferred job was due: then the timer     *)
(* thread is left to do it.                                                *)
Destroy ==
  /\ phase = "running" /\ Free
  /\ status' = [j \in Jobs |-> IF status[j] \in {"scheduled", "deferred"} THEN "undefined"
                               ELSE status[j]]
  /\ queue' = <<>> /\ timerEvents' = <<>> /\ expired' = 0 /\ cache' = {}
  /\ completeShutdown' = (expired = 0)
  /\ SignalShutdown
  /\ UNCHANGED <<freed, lock, grow, activeThreads, activeJobs, startStopSignal, timerArmed,
                 timerThread, worker, calls>>

FinishDestroy ==
  /\ phase = "stopping" /\ awaited = 0 /\ ~freed
  /\ phase' = "destroyed"
  /\ freed' = completeShutdown
  /\ timerArmed' = (timerArmed /\ ~completeShutdown)
  /\ UNCHANGED <<awaited, completeShutdown, lock, grow, counts, signals, status, queue,
                 timerEvents, expired, cache, timerThread, worker, calls>>

Owner == CreateWorker \/ WorkersCreated \/ AwaitThread \/ Created \/ FinishDestroy

Application ==
  \/ \E j \in Jobs : \/ CreateJob(j) \/ CreateRecyclableJob(j) \/ ScheduleDeferred(j)
                     \/ DeferralFails(j) \/ TryCancel(j) \/ RecycleJob(j) \/ DestroyRecyclableJob(j)
                     \/ \E high \in BOOLEAN : Schedule(j, high)
  \/ \E m \in 1..MaxThreads : SetMaxThreads(m)
  \/ Destroy

Next ==
  \/ Owner \/ Application \/ FinishGrow \/ TimePasses \/ TimerTask
  \/ \E w \in Threads : Worker(w)

Spec == Init /\ [][Next]_vars

(* Every thread runs when it can, callbacks return and time passes. The    *)
(* application may stop calling.                                           *)
FairSpec == /\ Spec /\ WF_vars(Owner) /\ WF_vars(FinishGrow) /\ WF_vars(TimePasses)
            /\ WF_vars(TimerTask) /\ \A w \in Threads : WF_vars(Worker(w))

-----------------------------------------------------------------------------
(* Properties.                                                             *)

Places == {"none", "starting", "waiting", "woken", "timedOut", "executing", "returned",
           "exiting"}

(* Every variable has its type; the counters never go below zero.          *)
TypeOK ==
  /\ phase \in {"creating", "readying", "failing", "running", "stopping", "destroyed"}
  /\ awaited \in Nat /\ completeShutdown \in BOOLEAN /\ freed \in BOOLEAN
  /\ lock \in {"free", "app", "timer"}
  /\ grow \in [job : Jobs \cup {NoJob}, head : BOOLEAN]
  /\ maxThreads \in Nat /\ activeThreads \in Nat /\ activeJobs \in Nat
  /\ dispatchSignal \in Nat /\ startStopSignal \in Nat
  /\ status \in [Jobs -> Statuses]
  /\ queue \in Seq(Jobs) /\ timerEvents \in Seq(Jobs)
  /\ expired \in 0..Len(timerEvents) /\ cache \subseteq Jobs
  /\ timerArmed \in BOOLEAN /\ timerThread \in {"idle", "called", "dispatching"}
  /\ worker \in [Threads -> [at : Places, job : Jobs \cup {NoJob}, running : BOOLEAN]]
  /\ calls \in 0..MaxCalls

(* A scheduled job is in the dispatch queue, once, or in the hands of the  *)
(* scheduler that waits for a thread; a deferred job has one timer event;  *)
(* no other job is linked anywhere.                                        *)
JobsLinked ==
  \A j \in Jobs :
    /\ Cardinality({i \in DOMAIN queue : queue[i] = j})
         = IF status[j] = "scheduled" /\ grow.job # j THEN 1 ELSE 0
    /\ Cardinality({i \in DOMAIN timerEvents : timerEvents[i] = j})
         = IF status[j] = "deferred" THEN 1 ELSE 0
    /\ j \in cache => status[j] = "undefined"

(* activeThreads counts the threads that still take part.                  *)
Counted(w) ==
  /\ \/ worker[w].at \in {"waiting", "woken", "timedOut", "executing", "returned"}
     \/ worker[w].at = "starting" /\ phase \in {"creating", "readying", "failing"}
  /\ worker[w].running
ThreadsCounted ==
  /\ grow = NoGrow => activeThreads = Cardinality({w \in Threads : Counted(w)})
  /\ phase = "running" => activeThreads >= MinThreads

(* No job waits without a wake-up: for every job of the queue there is a   *)
(* post of dispatchSignal, or a thread that took one and will look.        *)
NoLostWakeup ==
  Len(queue) <= dispatchSignal + Cardinality({w \in Threads : worker[w].at = "woken"})

(* What IotTaskPool_Destroy asserts when it has waited for all threads.    *)
ShutdownClean ==
  phase = "stopping" /\ awaited = 0 /\ ~freed => activeThreads = 0 /\ startStopSignal = 0

(* Nobody uses the pool after it was freed: the threads are gone, the      *)
(* timer thread is not waiting for its lock and Destroy has finished.      *)
PoolOutlivesUsers ==
  freed => /\ phase = "destroyed" /\ timerThread = "idle"
           /\ \A w \in Threads : ~worker[w].running

(* What the pool does with jobs is what PoolJobs promises: a job of the    *)
(* dispatch queue, of a scheduler that waits, or whose timer event is due  *)
(* may run; only such a job does, and it is then asked for no more.        *)
Due     == {j \in Jobs : status[j] = "scheduled" \/ IsDue(j)}
Later   == {j \in Jobs : status[j] = "deferred" /\ ~IsDue(j)}
Running == [w \in Threads |-> IF worker[w].at = "executing" THEN worker[w].job ELSE NoJob]

Promise == INSTANCE PoolJobs WITH
             Workers <- Threads, due <- Due, deferred <- Later, running <- Running,
             open <- ~ShutdownStarted
PoolSpec == Promise!Spec

(* Every job that was scheduled runs, is canceled or is destroyed, and so  *)
(* does a deferred one after its time.                                     *)
JobsRun == \A j \in Jobs : status[j] \in {"scheduled", "deferred"}
                             ~> status[j] \notin {"scheduled", "deferred"}

(* Destruction, once begun, ends with the pool freed.                      *)
DestroyFrees == phase = "stopping" ~> freed
=============================================================================

------------------------------ MODULE PoolJobs ------------------------------
(***************************************************************************)
(* What a task pool promises those who schedule jobs with it, whatever its *)
(* threads, its queues and its timer do: a job runs at most once for each  *)
(* time it was asked for, not before its time has come, not after it was   *)
(* canceled, and no job begins to run once the pool is being destroyed.    *)
(***************************************************************************)
CONSTANTS Jobs, NoJob, Workers

VARIABLES
  due,       \* the jobs that may run
  deferred,  \* those that are to run later
  running,   \* the job each worker runs
  open       \* the pool takes and runs jobs

vars == <<due, deferred, running, open>>

Init == /\ due = {} /\ deferred = {} /\ open = TRUE
        /\ running = [w \in Workers |-> NoJob]

(* A job is to run: it takes the place of an earlier request for it.       *)
Request(j) == /\ open
              /\ due' = due \cup {j} /\ deferred' = deferred \ {j}
              /\ UNCHANGED <<running, open>>

Defer(j) == /\ open
            /\ due' = due \ {j} /\ deferred' = deferred \cup {j}
            /\ UNCHANGED <<running, open>>

(* The time of a deferred job has come.                                    *)
Elapse(j) == /\ j \in deferred
             /\ due' = due \cup {j} /\ deferred' = deferred \ {j}
             /\ UNCHANGED <<running, open>>

(* A job is canceled, recycled or destroyed before it runs.                *)
Withdraw(j) == /\ open /\ j \in due \cup deferred
               /\ due' = due \ {j} /\ deferred' = deferred \ {j}
               /\ UNCHANGED <<running, open>>

Run(w, j) == /\ open /\ j \in due /\ running[w] = NoJob
             /\ due' = due \ {j}
             /\ running' = [running EXCEPT ![w] = j]
             /\ UNCHANGED <<deferred, open>>

Return(w) == /\ running[w] # NoJob
             /\ running' = [running EXCEPT ![w] = NoJob]
             /\ UNCHANGED <<due, deferred, open>>

(* The pool is being destroyed, and what has not run with it.              *)
Close == /\ open /\ open' = FALSE
         /\ due' = {} /\ deferred' = {}
         /\ UNCHANGED running

Next == \/ \E j \in Jobs : Request(j) \/ Defer(j) \/ Elapse(j) \/ Withdraw(j)
        \/ \E w \in Workers : Return(w) \/ \E j \in Jobs : Run(w, j)
        \/ Close

Spec == Init /\ [][Next]_vars
=============================================================================

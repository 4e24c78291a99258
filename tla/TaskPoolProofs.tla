--------------------------- MODULE TaskPoolProofs ---------------------------
(***************************************************************************)
(* Proofs about the task pool, for every set of jobs and of threads, every *)
(* minimum and maximum of threads and every fault: the pool counts its     *)
(* threads, no job waits without a wake-up, and what IotTaskPool_Destroy   *)
(* asserts holds; and it implements PoolJobs. When no high priority job    *)
(* fails, every job is linked where its status says.                       *)
(***************************************************************************)
EXTENDS TaskPool, FiniteSetTheorems, SequenceTheorems, WellFoundedInduction, TLAPS

Creating == phase \in {"creating", "readying", "failing"}
Ending   == phase \in {"stopping", "destroyed"}

(* How many threads are starting, take part, are leaving, or have been     *)
(* woken.                                                                  *)
Taking == {"waiting", "woken", "timedOut", "executing", "returned"}
StartingThreads == {w \in Threads : worker[w].at = "starting" /\ worker[w].running}
TakingThreads   == {w \in Threads : worker[w].at \in Taking /\ worker[w].running}
ExitingThreads  == {w \in Threads : worker[w].at = "exiting" /\ worker[w].running}
WokenThreads    == {w \in Threads : worker[w].at = "woken"}
Starting == Cardinality(StartingThreads)
Active   == Cardinality(TakingThreads)
Exiting  == Cardinality(ExitingThreads)
Woken    == Cardinality(WokenThreads)

Typed ==
  /\ phase \in {"creating", "readying", "failing", "running", "stopping", "destroyed"}
  /\ lock \in {"free", "app", "timer"}
  /\ grow \in {NoGrow} \cup [job : Jobs, head : BOOLEAN]
  /\ awaited \in Nat /\ maxThreads \in Nat /\ activeThreads \in Nat
  /\ dispatchSignal \in Nat /\ startStopSignal \in Nat
  /\ queue \in Seq(Jobs) /\ timerEvents \in Seq(Jobs) /\ expired \in 0..Len(timerEvents)
  /\ timerArmed \in BOOLEAN

Threadlike == [at : Places, job : Jobs \cup {NoJob}, running : BOOLEAN]

WorkersTyped ==
  /\ worker \in [Threads -> Threadlike]
  /\ \A w \in Threads : ~worker[w].running => worker[w].at \in {"none", "executing"}

(* The lock is kept by a scheduler that waits or by the timer thread, and  *)
(* only while the pool runs.                                               *)
Locked ==
  /\ grow # NoGrow => lock # "free"
  /\ lock = "app" => grow # NoGrow
  /\ lock = "timer" <=> timerThread = "dispatching"
  /\ lock # "free" => phase = "running"

(* Before the pool runs there is nothing to do; once the shutdown has      *)
(* begun there is nothing left to do.                                      *)
NoWork ==
  /\ Creating => /\ dispatchSignal = 0 /\ timerEvents = <<>> /\ ~timerArmed
                 /\ timerThread = "idle"
  /\ Creating \/ Ending => queue = <<>>
  /\ Ending <=> maxThreads = 0
  /\ ~Ending => maxThreads >= MinThreads

(* Every thread that was started and not waited for, that takes part, or   *)
(* that is leaving is in exactly one count.                                *)
Counts ==
  /\ Creating => /\ awaited = Starting + startStopSignal
                 /\ activeThreads = Active + Starting
                 /\ activeThreads <= MinThreads /\ Exiting = 0
  /\ phase = "readying" => activeThreads = MinThreads
  /\ phase = "running" =>
       /\ Starting + startStopSignal = (IF grow = NoGrow THEN 0 ELSE 1)
       /\ Active = activeThreads + startStopSignal
       /\ activeThreads >= MinThreads /\ Exiting = 0
  /\ Ending => /\ Starting = 0 /\ Active = activeThreads
               /\ awaited = startStopSignal + Exiting + Active
  /\ phase = "destroyed" => awaited = 0

Posted == Len(queue) <= dispatchSignal + Woken

IInv == Typed /\ WorkersTyped /\ Locked /\ NoWork /\ Counts /\ Posted
-----------------------------------------------------------------------------
(* Counting.                                                               *)

LEMMA CountMoves ==
  ASSUME NEW S \in SUBSET Threads, NEW T \in SUBSET Threads, NEW w \in Threads,
         S \ {w} = T \ {w}
  PROVE  /\ Cardinality(S) \in Nat /\ Cardinality(T) \in Nat
         /\ Cardinality(T) = (Cardinality(S) - (IF w \in S THEN 1 ELSE 0))
                               + (IF w \in T THEN 1 ELSE 0)
         /\ w \in S => Cardinality(S) > 0
<1>1. IsFiniteSet(S) /\ IsFiniteSet(T) /\ IsFiniteSet(S \ {w})
  BY ThreadsAssumption, FS_Subset
<1>2. /\ Cardinality(S \ {w}) = IF w \in S THEN Cardinality(S) - 1 ELSE Cardinality(S)
      /\ Cardinality(T \ {w}) = IF w \in T THEN Cardinality(T) - 1 ELSE Cardinality(T)
  BY <1>1, FS_RemoveElement
<1>3. Cardinality(S) \in Nat /\ Cardinality(T) \in Nat /\ Cardinality(S \ {w}) \in Nat
  BY <1>1, FS_CardinalityType
<1>4. Cardinality(S \ {w}) = Cardinality(T \ {w})
  OBVIOUS
<1> DEFINE c == Cardinality(S)
           d == Cardinality(T)
           r == Cardinality(S \ {w})
<1>5. /\ r = (IF w \in S THEN c - 1 ELSE c)
      /\ r = (IF w \in T THEN d - 1 ELSE d)
      /\ c \in Nat /\ d \in Nat /\ r \in Nat
  BY <1>2, <1>3, <1>4
<1> HIDE DEF c, d, r
<1>6. c \in Nat /\ d \in Nat /\ (w \in S => c > 0)
      /\ d = (c - (IF w \in S THEN 1 ELSE 0)) + (IF w \in T THEN 1 ELSE 0)
  BY <1>5
<1> QED  BY <1>6 DEF c, d

LEMMA CountsNat == Starting \in Nat /\ Active \in Nat /\ Exiting \in Nat /\ Woken \in Nat
<1>1. ASSUME NEW S \in SUBSET Threads PROVE Cardinality(S) \in Nat
  BY ThreadsAssumption, FS_Subset, FS_CardinalityType
<1>2. /\ StartingThreads \in SUBSET Threads /\ TakingThreads \in SUBSET Threads
      /\ ExitingThreads \in SUBSET Threads /\ WokenThreads \in SUBSET Threads
  BY DEF StartingThreads, TakingThreads, ExitingThreads, WokenThreads
<1> QED  BY <1>1, <1>2 DEF Starting, Active, Exiting, Woken

(* One thread goes from one place to another.                              *)
LEMMA Moves ==
  ASSUME WorkersTyped, NEW w \in Threads, NEW v \in Threadlike,
         v.running \/ v.at \in {"none", "executing"}, worker' = [worker EXCEPT ![w] = v]
  PROVE  /\ Starting' = (Starting - (IF worker[w].at = "starting" /\ worker[w].running
                                      THEN 1 ELSE 0))
                          + (IF v.at = "starting" /\ v.running THEN 1 ELSE 0)
         /\ Active' = (Active - (IF worker[w].at \in Taking /\ worker[w].running THEN 1 ELSE 0))
                        + (IF v.at \in Taking /\ v.running THEN 1 ELSE 0)
         /\ Exiting' = (Exiting - (IF worker[w].at = "exiting" /\ worker[w].running THEN 1 ELSE 0))
                         + (IF v.at = "exiting" /\ v.running THEN 1 ELSE 0)
         /\ Woken' = (Woken - (IF worker[w].at = "woken" THEN 1 ELSE 0))
                       + (IF v.at = "woken" THEN 1 ELSE 0)
         /\ WorkersTyped'
<1>1. /\ \A u \in Threads \ {w} : worker'[u] = worker[u]
      /\ worker'[w] = v /\ WorkersTyped'
  BY DEF WorkersTyped
<1>2. Starting' = (Starting - (IF worker[w].at = "starting" /\ worker[w].running THEN 1 ELSE 0))
                    + (IF v.at = "starting" /\ v.running THEN 1 ELSE 0)
  <2>1. StartingThreads \ {w} = StartingThreads' \ {w}
    BY <1>1 DEF StartingThreads
  <2>2. /\ w \in StartingThreads <=> worker[w].at = "starting" /\ worker[w].running
        /\ w \in StartingThreads' <=> v.at = "starting" /\ v.running
        /\ StartingThreads \in SUBSET Threads /\ StartingThreads' \in SUBSET Threads
    BY <1>1 DEF StartingThreads
  <2> QED  BY <2>1, <2>2, CountMoves DEF Starting
<1>3. Active' = (Active - (IF worker[w].at \in Taking /\ worker[w].running THEN 1 ELSE 0))
                  + (IF v.at \in Taking /\ v.running THEN 1 ELSE 0)
  <2>1. TakingThreads \ {w} = TakingThreads' \ {w}
    BY <1>1 DEF TakingThreads
  <2>2. /\ w \in TakingThreads <=> worker[w].at \in Taking /\ worker[w].running
        /\ w \in TakingThreads' <=> v.at \in Taking /\ v.running
        /\ TakingThreads \in SUBSET Threads /\ TakingThreads' \in SUBSET Threads
    BY <1>1 DEF TakingThreads
  <2> QED  BY <2>1, <2>2, CountMoves DEF Active
<1>4. Exiting' = (Exiting - (IF worker[w].at = "exiting" /\ worker[w].running THEN 1 ELSE 0))
                   + (IF v.at = "exiting" /\ v.running THEN 1 ELSE 0)
  <2>1. ExitingThreads \ {w} = ExitingThreads' \ {w}
    BY <1>1 DEF ExitingThreads
  <2>2. /\ w \in ExitingThreads <=> worker[w].at = "exiting" /\ worker[w].running
        /\ w \in ExitingThreads' <=> v.at = "exiting" /\ v.running
        /\ ExitingThreads \in SUBSET Threads /\ ExitingThreads' \in SUBSET Threads
    BY <1>1 DEF ExitingThreads
  <2> QED  BY <2>1, <2>2, CountMoves DEF Exiting
<1>5. Woken' = (Woken - (IF worker[w].at = "woken" THEN 1 ELSE 0))
                 + (IF v.at = "woken" THEN 1 ELSE 0)
  <2>1. WokenThreads \ {w} = WokenThreads' \ {w}
    BY <1>1 DEF WokenThreads
  <2>2. /\ w \in WokenThreads <=> worker[w].at = "woken"
        /\ w \in WokenThreads' <=> v.at = "woken"
        /\ WokenThreads \in SUBSET Threads /\ WokenThreads' \in SUBSET Threads
    BY <1>1 DEF WokenThreads
  <2> QED  BY <2>1, <2>2, CountMoves DEF Woken
<1> QED  BY <1>1, <1>2, <1>3, <1>4, <1>5

(* A new thread starts.                                                    *)
LEMMA Appears ==
  ASSUME WorkersTyped, \E w \in FreeThreads : worker' = [worker EXCEPT ![w] = At("starting")]
  PROVE  /\ WorkersTyped' /\ Starting' = Starting + 1 /\ Active' = Active
         /\ Exiting' = Exiting /\ Woken' = Woken
<1>1. PICK w \in FreeThreads : worker' = [worker EXCEPT ![w] = At("starting")]
  OBVIOUS
<1>2. w \in Threads /\ worker[w].at = "none"
  BY DEF FreeThreads
<1>3. At("starting") \in Threadlike /\ At("starting").at = "starting" /\ At("starting").running
  BY DEF At, Places, Threadlike
<1>4. /\ WorkersTyped'
      /\ Starting' = (Starting - 0) + 1 /\ Active' = (Active - 0) + 0
      /\ Exiting' = (Exiting - 0) + 0 /\ Woken' = (Woken - 0) + 0
  BY <1>1, <1>2, <1>3, Moves DEF Taking
<1> QED  BY <1>4, CountsNat

(* A thread that is somewhere is counted there.                            *)
LEMMA Present ==
  ASSUME WorkersTyped, NEW w \in Threads
  PROVE  /\ worker[w].at = "starting" => Starting > 0
         /\ worker[w].at \in Taking /\ worker[w].running => Active > 0
         /\ worker[w].at = "exiting" => Exiting > 0
         /\ worker[w].at = "woken" => Woken > 0
<1>1. worker[w].at \notin {"none", "executing"} => worker[w].running
  BY DEF WorkersTyped
<1>2. worker[w].at = "starting" => Starting > 0
  <2>1. StartingThreads \in SUBSET Threads /\ (worker[w].at = "starting" => w \in StartingThreads)
    BY <1>1 DEF StartingThreads
  <2> QED  BY <2>1, CountMoves DEF Starting
<1>3. worker[w].at \in Taking /\ worker[w].running => Active > 0
  <2>1. /\ TakingThreads \in SUBSET Threads
        /\ worker[w].at \in Taking /\ worker[w].running => w \in TakingThreads
    BY DEF TakingThreads
  <2> QED  BY <2>1, CountMoves DEF Active
<1>4. worker[w].at = "exiting" => Exiting > 0
  <2>1. ExitingThreads \in SUBSET Threads /\ (worker[w].at = "exiting" => w \in ExitingThreads)
    BY <1>1 DEF ExitingThreads
  <2> QED  BY <2>1, CountMoves DEF Exiting
<1>5. worker[w].at = "woken" => Woken > 0
  <2>1. WokenThreads \in SUBSET Threads /\ (worker[w].at = "woken" => w \in WokenThreads)
    BY DEF WokenThreads
  <2> QED  BY <2>1, CountMoves DEF Woken
<1> QED  BY <1>2, <1>3, <1>4, <1>5

LEMMA Stays ==
  ASSUME worker' = worker
  PROVE  /\ Starting' = Starting /\ Active' = Active /\ Exiting' = Exiting /\ Woken' = Woken
         /\ WorkersTyped' = WorkersTyped
BY DEF WorkersTyped, Starting, Active, Exiting, Woken, StartingThreads, TakingThreads,
       ExitingThreads, WokenThreads

-----------------------------------------------------------------------------
(* Unlinking.                                                              *)

LEMMA Smallest ==
  ASSUME NEW I \in SUBSET Nat, I # {}
  PROVE  Min(I) \in I /\ \A y \in I : Min(I) <= y
<1>1. PICK x \in I : \A y \in I : ~(<<y, x>> \in OpToRel(<, Nat))
  BY NatLessThanWellFounded, WFMin
<1>2. ASSUME NEW y \in I
      PROVE  x <= y
  <2>1. ~(<<y, x>> \in {ss \in Nat \X Nat : ss[1] < ss[2]})
    BY <1>1 DEF OpToRel
  <2> QED  BY <2>1
<1> QED  BY <1>2 DEF Min

LEMMA RemoveAtIs ==
  ASSUME NEW S, NEW s \in Seq(S), NEW k \in 1..Len(s)
  PROVE  /\ RemoveAt(s, k) \in Seq(S) /\ Len(RemoveAt(s, k)) = Len(s) - 1
         /\ \A i \in 1..Len(s) - 1 : RemoveAt(s, k)[i] = IF i < k THEN s[i] ELSE s[i + 1]
<1>1. k \in Nat /\ Len(s) \in Nat /\ 1 <= k /\ k <= Len(s)
  OBVIOUS
<1> DEFINE a == SubSeq(s, 1, k - 1)
           b == SubSeq(s, k + 1, Len(s))
<1>2. a \in Seq(S) /\ Len(a) = k - 1 /\ \A i \in 1..k - 1 : a[i] = s[i]
  BY <1>1, SubSeqProperties
<1>3. b \in Seq(S) /\ Len(b) = Len(s) - k /\ \A i \in 1..Len(s) - k : b[i] = s[i + k]
  BY <1>1, SubSeqProperties
<1> HIDE DEF a, b
<1>4. /\ a \o b \in Seq(S)
      /\ Len(a \o b) = Len(a) + Len(b)
      /\ \A i \in 1 .. Len(a) + Len(b) :
           (a \o b)[i] = IF i <= Len(a) THEN a[i] ELSE b[i - Len(a)]
  BY <1>2, <1>3, ConcatProperties
<1>5. RemoveAt(s, k) = a \o b
  BY DEF RemoveAt, a, b
<1>6. Len(a \o b) = Len(s) - 1
  BY <1>1, <1>2, <1>3, <1>4
<1>7. ASSUME NEW i \in 1..Len(s) - 1
      PROVE  (a \o b)[i] = IF i < k THEN s[i] ELSE s[i + 1]
  <2>1. CASE i < k
    BY <1>1, <1>2, <1>3, <1>4, <2>1
  <2>2. CASE ~(i < k)
    <3>1. (a \o b)[i] = b[i - (k - 1)]
      BY <1>1, <1>2, <1>3, <1>4, <2>2
    <3>2. i - (k - 1) \in 1..Len(s) - k /\ i - (k - 1) + k = i + 1
      BY <1>1, <2>2
    <3> QED  BY <3>1, <3>2, <2>2, <1>3
  <2> QED  BY <2>1, <2>2
<1> QED  BY <1>4, <1>5, <1>6, <1>7

(* RemoveFirst takes the first of its kind, or nothing.                    *)
LEMMA RemoveFirstIs ==
  ASSUME NEW S, NEW s \in Seq(S), NEW e
  PROVE  \/ RemoveFirst(s, e) = s /\ \A i \in 1..Len(s) : s[i] # e
         \/ \E k \in 1..Len(s) : /\ s[k] = e /\ RemoveFirst(s, e) = RemoveAt(s, k)
                                 /\ \A i \in 1..k - 1 : s[i] # e
<1> DEFINE I == {i \in 1..Len(s) : s[i] = e}
<1>1. CASE I = {}
  BY <1>1 DEF RemoveFirst
<1>2. CASE I # {}
  <2>1. \E i \in 1..Len(s) : s[i] = e
    BY <1>2
  <2>2. RemoveFirst(s, e) = RemoveAt(s, Min(I))
    BY <1>2, <2>1 DEF RemoveFirst, SelectInSeq
  <2>3. Min(I) \in I /\ \A y \in I : Min(I) <= y
    <3>1. I \in SUBSET Nat
      OBVIOUS
    <3> HIDE DEF I
    <3> QED  BY <1>2, <3>1, Smallest
  <2>4. Min(I) \in 1..Len(s) /\ s[Min(I)] = e
    BY <2>3
  <2>5. \A i \in 1..Min(I) - 1 : s[i] # e
    BY <2>3
  <2> QED  BY <2>2, <2>4, <2>5
<1> QED  BY <1>1, <1>2

LEMMA Unlinked ==
  ASSUME NEW s \in Seq(Jobs), NEW j
  PROVE  RemoveFirst(s, j) \in Seq(Jobs) /\ Len(RemoveFirst(s, j)) <= Len(s)
<1>1. CASE RemoveFirst(s, j) = s
  BY <1>1
<1>2. ASSUME NEW k \in 1..Len(s), RemoveFirst(s, j) = RemoveAt(s, k)
      PROVE  RemoveFirst(s, j) \in Seq(Jobs) /\ Len(RemoveFirst(s, j)) <= Len(s)
  BY <1>2, RemoveAtIs
<1> QED  BY <1>1, <1>2, RemoveFirstIs

(* Unlinking an event keeps what is due within the list.                   *)
LEMMA EventUnlinked ==
  ASSUME Typed, NEW j
  PROVE  /\ RemoveFirst(timerEvents, j) \in Seq(Jobs)
         /\ NowDue(j) \in 0..Len(RemoveFirst(timerEvents, j))
<1>1. RemoveFirst(timerEvents, j) \in Seq(Jobs)
  BY Unlinked DEF Typed
<1>2. CASE /\ RemoveFirst(timerEvents, j) = timerEvents
           /\ \A i \in 1..Len(timerEvents) : timerEvents[i] # j
  <2>1. ~IsDue(j)
    BY <1>2 DEF IsDue, Typed
  <2> QED  BY <1>1, <1>2, <2>1 DEF NowDue, Typed
<1>3. ASSUME NEW k \in 1..Len(timerEvents), timerEvents[k] = j,
             RemoveFirst(timerEvents, j) = RemoveAt(timerEvents, k),
             \A i \in 1..k - 1 : timerEvents[i] # j
      PROVE  NowDue(j) \in 0..Len(RemoveFirst(timerEvents, j))
  <2>1. Len(RemoveFirst(timerEvents, j)) = Len(timerEvents) - 1
    BY <1>3, RemoveAtIs DEF Typed
  <2>2. expired \in Nat /\ expired <= Len(timerEvents) /\ Len(timerEvents) \in Nat
    BY DEF Typed
  <2>3. CASE k <= expired
    <3>1. IsDue(j)
      BY <1>3, <2>2, <2>3 DEF IsDue
    <3> QED  BY <2>1, <2>2, <2>3, <3>1 DEF NowDue
  <2>4. CASE k > expired
    <3>1. ~IsDue(j)
      BY <1>3, <2>2, <2>4 DEF IsDue
    <3> QED  BY <2>1, <2>2, <2>4, <3>1 DEF NowDue
  <2> QED  BY <2>2, <2>3, <2>4
<1> QED  BY <1>1, <1>2, <1>3, RemoveFirstIs DEF Typed

-----------------------------------------------------------------------------
LEMMA InvInit == Init => IInv
<1> SUFFICES ASSUME Init PROVE IInv
  OBVIOUS
<1>1. Typed
  <2>1. grow \in {NoGrow} \cup [job : Jobs, head : BOOLEAN]
    BY DEF Init
  <2>2. queue \in Seq(Jobs) /\ timerEvents \in Seq(Jobs) /\ expired \in 0..Len(timerEvents)
    BY DEF Init
  <2>3. awaited \in Nat /\ maxThreads \in Nat /\ activeThreads \in Nat
    BY ThreadsAssumption DEF Init
  <2> QED  BY <2>1, <2>2, <2>3 DEF Init, Typed
<1>3. WorkersTyped
  BY DEF Init, WorkersTyped, Threadlike, Gone, Places
<1>2. Starting = 0 /\ Active = 0 /\ Exiting = 0 /\ Woken = 0
  <2>1. StartingThreads = {} /\ TakingThreads = {} /\ ExitingThreads = {} /\ WokenThreads = {}
    BY DEF Init, Gone, StartingThreads, TakingThreads, ExitingThreads, WokenThreads, Taking
  <2> QED  BY <2>1, FS_EmptySet DEF Starting, Active, Exiting, Woken
<1> QED
  BY <1>1, <1>2, <1>3, ThreadsAssumption
     DEF Init, IInv, Locked, NoWork, Counts, Posted, Creating, Ending, NoGrow

(* The pool is created.                                                    *)
LEMMA CreationStep == IInv /\ (CreateWorker \/ WorkersCreated \/ AwaitThread \/ Created) => IInv'
<1> SUFFICES ASSUME IInv, CreateWorker \/ WorkersCreated \/ AwaitThread \/ Created PROVE IInv'
  OBVIOUS
<1> USE ThreadsAssumption, CountsNat
        DEF IInv, Typed, Locked, NoWork, Counts, Posted, Creating, Ending
<1>1. CASE CreateWorker
  <2>1. /\ WorkersTyped' /\ Starting' = Starting + 1 /\ Active' = Active
        /\ Exiting' = Exiting /\ Woken' = Woken
    BY <1>1, Appears DEF CreateWorker
  <2> QED  BY <1>1, <2>1 DEF CreateWorker, signals, defers
<1>2. CASE WorkersCreated
  BY <1>2, Stays DEF WorkersCreated, counts, signals, defers
<1>3. CASE AwaitThread
  BY <1>3, Stays DEF AwaitThread, counts, defers
<1>4. CASE Created
  BY <1>4, Stays DEF Created, SignalShutdown, defers
<1> QED  BY <1>1, <1>2, <1>3, <1>4


-----------------------------------------------------------------------------
(* The application.                                                        *)

(* A call that only moves jobs in or out of the lists, or posts.           *)
LEMMA Relink ==
  ASSUME IInv, phase = "running",
         UNCHANGED <<control, lock, grow, activeThreads, activeJobs, startStopSignal,
                     timerThread, worker>>,
         maxThreads' \in Nat, maxThreads' >= MinThreads,
         dispatchSignal' \in Nat, dispatchSignal' >= dispatchSignal,
         queue' \in Seq(Jobs), Len(queue') <= Len(queue),
         timerEvents' \in Seq(Jobs), expired' \in 0..Len(timerEvents'), timerArmed' \in BOOLEAN
  PROVE  IInv'
<1>1. /\ WorkersTyped' /\ Starting' = Starting /\ Active' = Active
      /\ Exiting' = Exiting /\ Woken' = Woken
  BY Stays DEF IInv
<1>2. Typed'
  BY DEF IInv, Typed, control
<1>3. Locked' /\ NoWork' /\ Counts'
  BY <1>1, ThreadsAssumption DEF IInv, Locked, NoWork, Counts, Creating, Ending, control
<1>4. Posted'
  <2>1. Len(queue) \in Nat /\ Len(queue') \in Nat /\ dispatchSignal \in Nat /\ Woken \in Nat
    BY CountsNat DEF IInv, Typed
  <2> QED  BY <1>1, <2>1 DEF IInv, Posted
<1> QED  BY <1>1, <1>2, <1>3, <1>4 DEF IInv

(* A job is scheduled over the queue q, with or without a new thread.      *)
LEMMA ScheduledStep ==
  ASSUME IInv, phase = "running", grow = NoGrow,
         NEW j \in Jobs, NEW high \in BOOLEAN, NEW q \in Seq(Jobs), NEW holder,
         \/ holder = "app" /\ lock = "free"
         \/ holder = "timer" /\ lock = "timer",
         Len(q) <= Len(queue), ScheduleInternal(j, high, q, holder),
         UNCHANGED <<control, maxThreads, activeThreads, startStopSignal, timerThread>>,
         timerEvents' \in Seq(Jobs), expired' \in 0..Len(timerEvents'), timerArmed' \in BOOLEAN
  PROVE  IInv'
<1>1. Len(q) \in Nat /\ Len(queue) \in Nat /\ dispatchSignal \in Nat
  BY DEF IInv, Typed
<1>2. CASE /\ \E w \in FreeThreads : worker' = [worker EXCEPT ![w] = At("starting")]
           /\ grow' = [job |-> j, head |-> high] /\ queue' = q /\ lock' = holder
           /\ UNCHANGED dispatchSignal
  <2>1. /\ WorkersTyped' /\ Starting' = Starting + 1 /\ Active' = Active
        /\ Exiting' = Exiting /\ Woken' = Woken
    BY <1>2, Appears DEF IInv
  <2>2. grow' # NoGrow
    BY <1>2, JobsAssumption DEF NoGrow
  <2>3. Typed' /\ Locked' /\ NoWork' /\ Posted'
    BY <1>1, <1>2, <2>1, <2>2, CountsNat
       DEF IInv, Typed, Locked, NoWork, Posted, Creating, Ending, control
  <2>4. Counts'
    BY <1>2, <2>1, <2>2, CountsNat DEF IInv, Typed, Counts, Creating, Ending, control
  <2> QED  BY <2>1, <2>3, <2>4 DEF IInv
<1>3. CASE Enqueue(q, j, FALSE) /\ UNCHANGED <<worker, grow, lock>>
  <2>1. /\ WorkersTyped' /\ Starting' = Starting /\ Active' = Active
        /\ Exiting' = Exiting /\ Woken' = Woken
    BY <1>3, Stays DEF IInv
  <2>2. queue' \in Seq(Jobs) /\ Len(queue') = Len(q) + 1 /\ dispatchSignal' = dispatchSignal + 1
    BY <1>3 DEF Enqueue
  <2>3. Typed' /\ Locked' /\ NoWork' /\ Counts' /\ Posted'
    BY <1>1, <1>3, <2>1, <2>2, CountsNat
       DEF IInv, Typed, Locked, NoWork, Posted, Counts, Creating, Ending, control
  <2> QED  BY <2>1, <2>3 DEF IInv
<1>4. CASE queue' = q /\ UNCHANGED <<worker, grow, lock, activeJobs, dispatchSignal>>
  BY <1>4, <1>1, Relink DEF IInv, Typed, NoWork, Ending, Creating
<1> QED  BY <1>2, <1>3, <1>4 DEF ScheduleInternal

LEMMA Inserted ==
  ASSUME NEW s \in Seq(Jobs), NEW j \in Jobs, NEW i \in 1 .. Len(s) + 1
  PROVE  InsertAt(s, i, j) \in Seq(Jobs) /\ Len(InsertAt(s, i, j)) = Len(s) + 1
<1> DEFINE a == SubSeq(s, 1, i - 1)
           b == SubSeq(s, i, Len(s))
<1>1. a \in Seq(Jobs) /\ Len(a) = i - 1
  BY SubSeqProperties
<1>2. b \in Seq(Jobs) /\ Len(b) = Len(s) + 1 - i
  BY SubSeqProperties
<1>3. InsertAt(s, i, j) = a \o <<j>> \o b
  BY DEF InsertAt
<1> HIDE DEF a, b
<1>4. a \o <<j>> \o b \in Seq(Jobs) /\ Len(a \o <<j>> \o b) = Len(a) + 1 + Len(b)
  BY <1>1, <1>2
<1> QED  BY <1>1, <1>2, <1>3, <1>4

LEMMA ApplicationStep == IInv /\ Application => IInv'
<1> SUFFICES ASSUME IInv, Application PROVE IInv'
  OBVIOUS
<1>1. ASSUME NEW j \in Jobs,
             RemoveTimerEvent(j)
      PROVE  /\ timerEvents' \in Seq(Jobs) /\ expired' \in 0..Len(timerEvents')
             /\ timerArmed' \in BOOLEAN
  BY <1>1, EventUnlinked DEF IInv, Typed, RemoveTimerEvent, Rearmed
<1>2. ASSUME NEW j \in Jobs
      PROVE  RemoveFirst(queue, j) \in Seq(Jobs) /\ Len(RemoveFirst(queue, j)) <= Len(queue)
  BY Unlinked DEF IInv, Typed
<1>3. /\ queue \in Seq(Jobs) /\ timerEvents \in Seq(Jobs) /\ expired \in 0..Len(timerEvents)
      /\ timerArmed \in BOOLEAN /\ maxThreads \in Nat /\ dispatchSignal \in Nat
      /\ phase = "running" => maxThreads >= MinThreads
  BY DEF IInv, Typed, NoWork, Ending
<1>4. CASE \E j \in Jobs : CreateJob(j) \/ CreateRecyclableJob(j)
  BY <1>3, <1>4, Relink
     DEF CreateJob, CreateRecyclableJob, Call, counts, signals, defers
<1>5. ASSUME NEW j \in Jobs, ScheduleDeferred(j)
      PROVE  IInv'
  <2>1. /\ timerEvents' \in Seq(Jobs) /\ expired' \in 0..Len(timerEvents')
        /\ timerArmed' \in BOOLEAN
    <3>1. /\ RemoveFirst(timerEvents, j) \in Seq(Jobs)
          /\ NowDue(j) \in 0..Len(RemoveFirst(timerEvents, j))
      BY EventUnlinked DEF IInv
    <3>2. PICK i \in NowDue(j) + 1 .. Len(RemoveFirst(timerEvents, j)) + 1 :
            /\ timerEvents' = InsertAt(RemoveFirst(timerEvents, j), i, j)
            /\ timerArmed' = (i = 1 \/ Rearmed(j))
      BY <1>5 DEF ScheduleDeferred
    <3>3. /\ timerEvents' \in Seq(Jobs)
          /\ Len(timerEvents') = Len(RemoveFirst(timerEvents, j)) + 1
      BY <3>1, <3>2, Inserted
    <3> QED  BY <1>5, <3>1, <3>2, <3>3 DEF ScheduleDeferred
  <2> QED
    BY <1>2, <1>3, <1>5, <2>1, Relink DEF ScheduleDeferred, Call, counts, signals
<1>6. CASE \E j \in Jobs : DeferralFails(j) \/ TryCancel(j) \/ RecycleJob(j)
                             \/ DestroyRecyclableJob(j)
  <2>1. PICK j \in Jobs : DeferralFails(j) \/ TryCancel(j) \/ RecycleJob(j)
                            \/ DestroyRecyclableJob(j)
    BY <1>6
  <2>2. /\ RemoveTimerEvent(j) /\ queue' = RemoveFirst(queue, j) /\ phase = "running"
        /\ UNCHANGED <<control, lock, grow, counts, signals, timerThread, worker>>
    BY <2>1 DEF DeferralFails, TryCancel, RecycleJob, DestroyRecyclableJob, Dispose, Call
  <2> QED  BY <1>1, <1>2, <1>3, <2>2, Relink DEF counts, signals
<1>7. ASSUME NEW j \in Jobs, NEW high \in BOOLEAN, Schedule(j, high)
      PROVE  IInv'
  <2>1. lock = "free" /\ grow = NoGrow /\ phase = "running"
    BY <1>7 DEF Schedule, Call, Free, IInv, Locked
  <2> QED
    BY <1>1, <1>2, <1>7, <2>1, ScheduledStep DEF Schedule
<1>8. CASE \E m \in 1..MaxThreads : SetMaxThreads(m)
  <2>1. PICK m \in 1..MaxThreads : SetMaxThreads(m)
    BY <1>8
  <2>2. m >= MinThreads /\ maxThreads' = m /\ phase = "running"
    BY <2>1 DEF SetMaxThreads, Call
  <2>3. dispatchSignal' \in Nat /\ dispatchSignal' >= dispatchSignal
    BY <1>3, <2>1 DEF SetMaxThreads
  <2> QED
    BY <1>3, <2>1, <2>2, <2>3, Relink DEF SetMaxThreads, Call, signals, defers
<1>9. CASE Destroy
  <2>1. grow = NoGrow /\ phase = "running"
    BY <1>9 DEF Destroy, Free, IInv, Locked
  <2>2. /\ WorkersTyped' /\ Starting' = Starting /\ Active' = Active
        /\ Exiting' = Exiting /\ Woken' = Woken
    BY <1>9, Stays DEF Destroy, IInv
  <2>3. Typed' /\ Locked' /\ NoWork' /\ Posted'
    BY <1>9, <2>1, <2>2, CountsNat, ThreadsAssumption
       DEF IInv, Typed, Locked, NoWork, Posted, Creating, Ending, Destroy, Free, SignalShutdown
  <2>4. Counts'
    BY <1>9, <2>1, <2>2, CountsNat, ThreadsAssumption
       DEF IInv, Typed, Counts, Creating, Ending, Destroy, SignalShutdown
  <2> QED  BY <2>2, <2>3, <2>4 DEF IInv
<1> QED  BY <1>4, <1>5, <1>6, <1>7, <1>8, <1>9 DEF Application

(* The scheduler that waited for its thread goes on.                       *)
LEMMA FinishGrowStep == IInv /\ FinishGrow => IInv'
<1> SUFFICES ASSUME IInv, FinishGrow PROVE IInv'
  OBVIOUS
<1>1. phase = "running" /\ lock # "free" /\ grow.job \in Jobs
  BY DEF IInv, Typed, Locked, FinishGrow
<1>2. /\ WorkersTyped' /\ Starting' = Starting /\ Active' = Active
      /\ Exiting' = Exiting /\ Woken' = Woken
  BY Stays DEF FinishGrow, IInv
<1>3. queue' \in Seq(Jobs) /\ Len(queue') = Len(queue) + 1 /\ dispatchSignal' = dispatchSignal + 1
  BY <1>1 DEF FinishGrow, Enqueue, IInv, Typed
<1>4. Typed' /\ Locked' /\ NoWork'
  BY <1>1, <1>3 DEF IInv, Typed, Locked, NoWork, Creating, Ending, FinishGrow, control, defers
<1>5. Counts'
  BY <1>1, <1>2, CountsNat, ThreadsAssumption
     DEF IInv, Typed, Counts, Creating, Ending, FinishGrow, control
<1>6. Posted'
  BY <1>2, <1>3, CountsNat DEF IInv, Typed, Posted
<1> QED  BY <1>2, <1>4, <1>5, <1>6 DEF IInv

-----------------------------------------------------------------------------
(* A worker thread.                                                        *)

LEMMA WorkerStep == IInv /\ (\E w \in Threads : Worker(w)) => IInv'
<1> SUFFICES ASSUME IInv, NEW w \in Threads, Worker(w) PROVE IInv'
  OBVIOUS
<1>1. /\ WorkersTyped /\ Typed /\ (Free => grow = NoGrow /\ lock = "free")
      /\ worker[w] \in Threadlike /\ worker[w].running \in BOOLEAN
      /\ worker[w].at \notin {"none", "executing"} => worker[w].running
  BY DEF IInv, Locked, Free, WorkersTyped, Threadlike
<1>2. \A p \in Places : At(p) \in Threadlike /\ At(p).at = p /\ At(p).running
  BY DEF At, Threadlike
<1>3. {"waiting", "woken", "timedOut", "exiting", "returned"} \subseteq Places
      /\ Gone \in Threadlike /\ Gone.at = "none" /\ ~Gone.running
  BY DEF Places, Gone, Threadlike
<1>4. CASE Start(w)
  <2>1. worker[w].at = "starting" /\ Starting > 0
    BY <1>1, <1>4, Present DEF Start
  <2>2. /\ WorkersTyped' /\ Starting' = Starting - 1 /\ Active' = Active + 1
        /\ Exiting' = Exiting /\ Woken' = Woken
    <3>1. /\ WorkersTyped' /\ Starting' = (Starting - 1) + 0 /\ Active' = (Active - 0) + 1
          /\ Exiting' = (Exiting - 0) + 0 /\ Woken' = (Woken - 0) + 0
      BY <1>1, <1>2, <1>3, <1>4, <2>1, Moves DEF Start, Taking
    <3> QED  BY <3>1, CountsNat
  <2>3. Typed' /\ Locked' /\ NoWork' /\ Posted'
    BY <1>4, <2>2, CountsNat
       DEF IInv, Typed, Locked, NoWork, Posted, Creating, Ending, Start, control, counts, defers
  <2>4. Counts'
    BY <1>4, <2>1, <2>2, CountsNat, ThreadsAssumption
       DEF IInv, Typed, Counts, Creating, Ending, Start, control, counts
  <2> QED  BY <2>2, <2>3, <2>4 DEF IInv
<1>5. CASE Wake(w)
  <2>1. worker[w].at = "waiting" /\ worker[w].running
    BY <1>1, <1>5 DEF Wake
  <2>2. /\ WorkersTyped' /\ Starting' = Starting /\ Active' = Active /\ Exiting' = Exiting
        /\ Woken' = Woken + (dispatchSignal - dispatchSignal')
        /\ dispatchSignal' \in Nat
    <3>1. CASE worker' = [worker EXCEPT ![w] = At("woken")] /\ dispatchSignal > 0
               /\ dispatchSignal' = dispatchSignal - 1
      <4>1. /\ WorkersTyped' /\ Starting' = (Starting - 0) + 0 /\ Active' = (Active - 1) + 1
            /\ Exiting' = (Exiting - 0) + 0 /\ Woken' = (Woken - 0) + 1
        BY <1>1, <1>2, <1>3, <2>1, <3>1, Moves DEF Taking
      <4> QED  BY <3>1, <4>1, <1>1, CountsNat DEF Typed
    <3>2. CASE worker' = [worker EXCEPT ![w] = At("timedOut")]
               /\ dispatchSignal' = dispatchSignal
      <4>1. /\ WorkersTyped' /\ Starting' = (Starting - 0) + 0 /\ Active' = (Active - 1) + 1
            /\ Exiting' = (Exiting - 0) + 0 /\ Woken' = (Woken - 0) + 0
        BY <1>1, <1>2, <1>3, <2>1, <3>2, Moves DEF Taking
      <4> QED  BY <3>2, <4>1, <1>1, CountsNat DEF Typed
    <3> QED  BY <1>5, <3>1, <3>2 DEF Wake
  <2>3. dispatchSignal' <= dispatchSignal
    BY <1>5 DEF Wake, IInv, Typed
  <2>4. Typed' /\ Locked' /\ NoWork' /\ Posted'
    BY <1>5, <2>2, <2>3, CountsNat
       DEF IInv, Typed, Locked, NoWork, Posted, Creating, Ending, Wake, control, counts, defers
  <2>5. Counts'
    BY <1>5, <2>2, CountsNat DEF IInv, Typed, Counts, Creating, Ending, Wake, control, counts
  <2> QED  BY <2>2, <2>4, <2>5 DEF IInv
<1>6. CASE LookForJob(w)
  <2>1. worker[w].at \in {"woken", "timedOut"} /\ worker[w].running /\ ~ShutdownStarted
        /\ grow = NoGrow /\ lock = "free" /\ Active > 0
    BY <1>1, <1>6, Present DEF LookForJob, Taking
  <2>2. /\ WorkersTyped' /\ Starting' = Starting /\ Exiting' = Exiting
        /\ Active' = (IF Dies(w) THEN Active - 1 ELSE Active)
        /\ Woken' = (IF worker[w].at = "woken" THEN Woken - 1 ELSE Woken)
    <3>1. PICK v \in Threadlike :
            /\ worker' = [worker EXCEPT ![w] = v]
            /\ v.running <=> ~Dies(w)
            /\ v.at \in {"none", "executing", "waiting"} /\ (v.at = "waiting" => v.running)
            /\ v.running => v.at # "none"
      <4>1. CASE TakeJob(w, ~Dies(w))
        <5>1. Head(queue) \in Jobs
          BY <4>1 DEF TakeJob, IInv, Typed
        <5>2. [at |-> "executing", job |-> Head(queue), running |-> ~Dies(w)] \in Threadlike
          BY <5>1 DEF Threadlike, Places, Dies
        <5> QED  BY <4>1, <5>2 DEF TakeJob
      <4>2. CASE worker' = [worker EXCEPT ![w] = IF Dies(w) THEN Gone ELSE At("waiting")]
        <5>1. CASE Dies(w)
          BY <4>2, <5>1, <1>3
        <5>2. CASE ~Dies(w)
          BY <4>2, <5>2, <1>2, <1>3
        <5> QED  BY <5>1, <5>2
      <4> QED  BY <1>6, <4>1, <4>2 DEF LookForJob
    <3>2. /\ WorkersTyped' /\ Starting' = (Starting - 0) + 0 /\ Exiting' = (Exiting - 0) + 0
          /\ Active' = (Active - 1) + (IF Dies(w) THEN 0 ELSE 1)
          /\ Woken' = (Woken - (IF worker[w].at = "woken" THEN 1 ELSE 0)) + 0
      BY <1>1, <2>1, <3>1, Moves DEF Taking
    <3> QED  BY <3>2, CountsNat
  <2>3. /\ activeThreads' = (IF Dies(w) THEN activeThreads - 1 ELSE activeThreads)
        /\ activeThreads \in Nat /\ maxThreads \in Nat /\ maxThreads # 0
        /\ Dies(w) => activeThreads > maxThreads \/ activeThreads > MinThreads
    BY <1>1, <1>6, <2>1 DEF LookForJob, Dies, Typed, ShutdownStarted
  <2>4. ~Ending /\ ~Ending' /\ maxThreads >= MinThreads
    BY <1>6, <2>3 DEF IInv, NoWork, LookForJob, Ending, control
  <2>5. Counts'
    <3>1. Creating => ~Dies(w)
      BY <2>3, <2>4, ThreadsAssumption DEF IInv, Counts
    <3>2. ~Creating => phase = "running" /\ startStopSignal = 0 /\ Starting = 0
      BY <1>1, <2>1, <2>4, CountsNat DEF IInv, Counts, Typed, Creating, Ending
    <3>3. UNCHANGED <<phase, awaited, startStopSignal, grow>>
      BY <1>6 DEF LookForJob, control, signals
    <3> QED
      BY <1>1, <2>1, <2>2, <2>3, <2>4, <3>1, <3>2, <3>3, CountsNat, ThreadsAssumption
         DEF IInv, Counts, Typed, Creating, Ending
  <2>6. queue' \in Seq(Jobs) /\ Len(queue') <= Len(queue)
        /\ Len(queue') <= (dispatchSignal + Woken) - (IF worker[w].at = "woken" THEN 1 ELSE 0)
    <3>1. Len(queue) \in Nat /\ dispatchSignal \in Nat /\ Woken \in Nat
          /\ Len(queue) <= dispatchSignal + Woken
      BY CountsNat DEF IInv, Typed, Posted
    <3>2. CASE worker[w].at = "woken" /\ TakeJob(w, ~Dies(w))
      <4>1. queue' \in Seq(Jobs) /\ Len(queue') = Len(queue) - 1
        BY <3>2 DEF TakeJob, IInv, Typed
      <4> QED  BY <3>1, <3>2, <4>1
    <3>3. CASE (worker[w].at = "timedOut" \/ queue = <<>>) /\ queue' = queue
      <4>1. worker[w].at = "woken" => Woken > 0
        BY <1>1, Present
      <4> QED  BY <3>1, <3>3, <4>1 DEF IInv, Typed
    <3> QED  BY <1>6, <3>2, <3>3 DEF LookForJob
  <2>7. Typed'
    <3>1. activeThreads' \in Nat
      BY <2>3, ThreadsAssumption
    <3> QED  BY <1>6, <2>6, <3>1 DEF LookForJob, IInv, Typed, control, signals, defers
  <2>8. Locked' /\ NoWork'
    <3>1. Creating => queue' = <<>>
      <4>1. Creating => Len(queue') = 0
        BY <2>6 DEF IInv, NoWork, Typed
      <4> QED  BY <2>6, <4>1
    <3> QED
      BY <1>6, <2>4, <3>1
         DEF LookForJob, IInv, Locked, NoWork, Creating, Ending, control, signals, defers
  <2>9. Posted'
    BY <1>6, <2>2, <2>6, CountsNat DEF LookForJob, Posted, signals, IInv, Typed
  <2> QED  BY <2>2, <2>5, <2>7, <2>8, <2>9 DEF IInv
<1>7. CASE SeeShutdown(w)
  <2>1. worker[w].at \in {"woken", "timedOut"} /\ worker[w].running /\ Ending /\ Active > 0
    BY <1>1, <1>7, Present DEF SeeShutdown, ShutdownStarted, Taking, IInv, NoWork
  <2>2. /\ WorkersTyped' /\ Starting' = Starting /\ Active' = Active - 1
        /\ Exiting' = Exiting + 1
    <3>1. /\ WorkersTyped' /\ Starting' = (Starting - 0) + 0 /\ Active' = (Active - 1) + 0
          /\ Exiting' = (Exiting - 0) + 1
      BY <1>1, <1>2, <1>3, <1>7, <2>1, Moves DEF SeeShutdown, Taking
    <3> QED  BY <3>1, CountsNat
  <2>3. Counts' /\ activeThreads' \in Nat
    BY <1>7, <2>1, <2>2, CountsNat
       DEF IInv, Typed, Counts, Creating, Ending, SeeShutdown, control, signals
  <2>4. Posted'
    <3>1. queue' = <<>> /\ Woken' \in Nat /\ dispatchSignal' \in Nat
      <4>1. Woken' = (Woken - (IF worker[w].at = "woken" THEN 1 ELSE 0)) + 0
        BY <1>1, <1>2, <1>3, <1>7, <2>1, Moves DEF SeeShutdown
      <4>2. worker[w].at = "woken" => Woken > 0
        BY <1>1, Present
      <4>3. Woken' \in Nat
        BY <4>1, <4>2, CountsNat
      <4> QED  BY <1>7, <2>1, <4>3 DEF IInv, NoWork, Typed, SeeShutdown, signals
    <3>2. Len(queue') = 0
      BY <3>1
    <3>3. \A m, n \in Nat : 0 <= m + n
      OBVIOUS
    <3> QED  BY <3>1, <3>2, <3>3 DEF Posted
  <2>5. Typed' /\ Locked' /\ NoWork'
    BY <1>7, <2>3
       DEF IInv, Typed, Locked, NoWork, Creating, Ending, SeeShutdown, control, signals, defers
  <2> QED  BY <2>2, <2>3, <2>4, <2>5 DEF IInv
<1>8. CASE Exit(w)
  <2>1. worker[w].at = "exiting" /\ worker[w].running /\ Exiting > 0
    BY <1>1, <1>8, Present DEF Exit
  <2>2. /\ WorkersTyped' /\ Starting' = Starting /\ Active' = Active
        /\ Exiting' = Exiting - 1 /\ Woken' = Woken
    <3>1. /\ WorkersTyped' /\ Starting' = (Starting - 0) + 0 /\ Active' = (Active - 0) + 0
          /\ Exiting' = (Exiting - 1) + 0 /\ Woken' = (Woken - 0) + 0
      BY <1>1, <1>3, <1>8, <2>1, Moves DEF Exit, Taking
    <3> QED  BY <3>1, CountsNat
  <2>3. Counts'
    BY <1>8, <2>1, <2>2, CountsNat
       DEF IInv, Typed, Counts, Creating, Ending, Exit, control, counts
  <2>4. Typed' /\ Locked' /\ NoWork' /\ Posted'
    BY <1>8, <2>2
       DEF IInv, Typed, Locked, NoWork, Posted, Creating, Ending, Exit, control, counts, defers
  <2> QED  BY <2>2, <2>3, <2>4 DEF IInv
<1>9. CASE CallbackReturns(w)
  <2>1. worker[w].at = "executing"
    BY <1>9 DEF CallbackReturns
  <2>2. /\ WorkersTyped' /\ Starting' = Starting /\ Active' = Active
        /\ Exiting' = Exiting /\ Woken' = Woken
    <3>1. CASE worker[w].running
      <4>1. worker' = [worker EXCEPT ![w] = At("returned")]
        BY <1>9, <3>1 DEF CallbackReturns
      <4>2. /\ WorkersTyped' /\ Starting' = (Starting - 0) + 0 /\ Active' = (Active - 1) + 1
            /\ Exiting' = (Exiting - 0) + 0 /\ Woken' = (Woken - 0) + 0
        BY <1>1, <1>2, <1>3, <2>1, <3>1, <4>1, Moves DEF Taking
      <4> QED  BY <4>2, CountsNat
    <3>2. CASE ~worker[w].running
      <4>1. worker' = [worker EXCEPT ![w] = Gone]
        BY <1>9, <3>2 DEF CallbackReturns
      <4>2. /\ WorkersTyped' /\ Starting' = (Starting - 0) + 0 /\ Active' = (Active - 0) + 0
            /\ Exiting' = (Exiting - 0) + 0 /\ Woken' = (Woken - 0) + 0
        BY <1>1, <1>3, <2>1, <3>2, <4>1, Moves DEF Taking
      <4> QED  BY <4>2, CountsNat
    <3> QED  BY <3>1, <3>2
  <2>3. Typed' /\ Locked' /\ NoWork' /\ Counts' /\ Posted'
    BY <1>9, <2>2
       DEF IInv, Typed, Locked, NoWork, Counts, Posted, Creating, Ending, CallbackReturns,
           control, counts, signals, defers
  <2> QED  BY <2>2, <2>3 DEF IInv
<1>10. CASE NextJob(w)
  <2>1. worker[w].at = "returned" /\ worker[w].running
    BY <1>1, <1>10 DEF NextJob
  <2>2. queue' \in Seq(Jobs) /\ Len(queue') <= Len(queue) /\ (queue = <<>> => queue' = <<>>)
    <3>1. queue \in Seq(Jobs)
      BY DEF IInv, Typed
    <3>2. CASE queue # <<>> /\ queue' = Tail(queue)
      BY <3>1, <3>2
    <3>3. CASE queue' = queue
      BY <3>1, <3>3
    <3> QED  BY <1>10, <3>2, <3>3 DEF NextJob, TakeJob
  <2>3. /\ WorkersTyped' /\ Starting' = Starting /\ Active' = Active
        /\ Exiting' = Exiting /\ Woken' = Woken
    <3>1. PICK v \in Threadlike : /\ worker' = [worker EXCEPT ![w] = v] /\ v.running
                                  /\ v.at \in {"executing", "waiting"}
      <4>1. CASE TakeJob(w, TRUE)
        <5>1. Head(queue) \in Jobs
          BY <4>1 DEF TakeJob, IInv, Typed
        <5>2. [at |-> "executing", job |-> Head(queue), running |-> TRUE] \in Threadlike
          BY <5>1 DEF Threadlike, Places
        <5> QED  BY <4>1, <5>2 DEF TakeJob
      <4>2. CASE worker' = [worker EXCEPT ![w] = At("waiting")]
        BY <4>2, <1>2, <1>3
      <4> QED  BY <1>10, <4>1, <4>2 DEF NextJob
    <3>2. /\ WorkersTyped' /\ Starting' = (Starting - 0) + 0 /\ Active' = (Active - 1) + 1
          /\ Exiting' = (Exiting - 0) + 0 /\ Woken' = (Woken - 0) + 0
      BY <1>1, <2>1, <3>1, Moves DEF Taking
    <3> QED  BY <3>2, CountsNat
  <2>4. Typed' /\ Locked' /\ NoWork' /\ Counts'
    BY <1>10, <2>2, <2>3
       DEF IInv, Typed, Locked, NoWork, Counts, Creating, Ending, NextJob, control, signals,
           defers
  <2>5. Posted'
    BY <1>10, <2>2, <2>3, CountsNat DEF IInv, Typed, Posted, NextJob, signals
  <2> QED  BY <2>3, <2>4, <2>5 DEF IInv
<1> QED  BY <1>4, <1>5, <1>6, <1>7, <1>8, <1>9, <1>10 DEF Worker

-----------------------------------------------------------------------------
(* The timer thread, and the end of the pool.                              *)

LEMMA TimerStep == IInv /\ (TimePasses \/ TimerTask) => IInv'
<1> SUFFICES ASSUME IInv, TimePasses \/ TimerTask PROVE IInv'
  OBVIOUS
<1>1. CASE DispatchExpired
  <2>1. /\ lock = "timer" /\ phase = "running" /\ grow = NoGrow /\ queue \in Seq(Jobs)
    BY <1>1 DEF DispatchExpired, IInv, Locked, Typed
  <2>2. /\ Head(timerEvents) \in Jobs /\ timerEvents' \in Seq(Jobs)
        /\ expired' \in 0..Len(timerEvents') /\ timerArmed' \in BOOLEAN
    <3>1. timerEvents \in Seq(Jobs) /\ expired \in 1..Len(timerEvents) /\ timerEvents # <<>>
      BY <1>1 DEF DispatchExpired, IInv, Typed
    <3>2. Len(Tail(timerEvents)) = Len(timerEvents) - 1 /\ Tail(timerEvents) \in Seq(Jobs)
      BY <3>1
    <3> QED  BY <1>1, <3>1, <3>2 DEF DispatchExpired, IInv, Typed
  <2>3. ScheduleInternal(Head(timerEvents), FALSE, queue, "timer")
    BY <1>1 DEF DispatchExpired
  <2>4. UNCHANGED <<control, maxThreads, activeThreads, startStopSignal, timerThread>>
    BY <1>1 DEF DispatchExpired, control
  <2>5. Len(queue) <= Len(queue)
    BY <2>1
  <2> QED  BY <2>1, <2>2, <2>3, <2>4, <2>5, ScheduledStep
<1>2. CASE TimePasses \/ TimerFires \/ TimerLocks \/ TimerDone
  <2>1. UNCHANGED <<worker, queue, dispatchSignal>>
    BY <1>2 DEF TimePasses, TimerFires, TimerLocks, TimerDone, signals
  <2>2. /\ WorkersTyped' /\ Starting' = Starting /\ Active' = Active
        /\ Exiting' = Exiting /\ Woken' = Woken
    BY <2>1, Stays DEF IInv
  <2>3. Counts'
    BY <1>2, <2>2
       DEF IInv, Counts, Creating, Ending, TimePasses, TimerFires, TimerLocks, TimerDone,
           control, counts, signals
  <2>4. Typed'
    <3>1. CASE TimePasses
      BY <3>1 DEF IInv, Typed, TimePasses, control, counts, signals
    <3>2. CASE TimerFires
      BY <3>2 DEF IInv, Typed, TimerFires, control, counts, signals
    <3>3. CASE TimerLocks
      BY <3>3 DEF IInv, Typed, TimerLocks, counts, signals
    <3>4. CASE TimerDone
      BY <3>4 DEF IInv, Typed, TimerDone, control, counts, signals
    <3> QED  BY <1>2, <3>1, <3>2, <3>3, <3>4
  <2>6. Posted'
    BY <2>1, <2>2 DEF IInv, Posted
  <2>5. Locked' /\ NoWork'
    <3>1. CASE TimePasses
      BY <3>1 DEF IInv, Typed, Locked, NoWork, Creating, Ending, TimePasses, control, counts,
                  signals
    <3>2. CASE TimerFires
      BY <3>2 DEF IInv, Locked, NoWork, Creating, Ending, TimerFires, control, counts, signals
    <3>3. CASE TimerLocks
      BY <3>3 DEF IInv, Typed, Locked, NoWork, Creating, Ending, TimerLocks, Free,
                  ShutdownStarted, counts, signals
    <3>4. CASE TimerDone
      BY <3>4 DEF IInv, Locked, NoWork, Creating, Ending, TimerDone, control, counts, signals
    <3> QED  BY <1>2, <3>1, <3>2, <3>3, <3>4
  <2> QED  BY <2>2, <2>3, <2>4, <2>5, <2>6 DEF IInv
<1> QED  BY <1>1, <1>2 DEF TimerTask

LEMMA FinishStep == IInv /\ FinishDestroy => IInv'
BY Stays
   DEF IInv, Typed, Locked, NoWork, Counts, Posted, Creating, Ending, FinishDestroy, counts, signals

LEMMA InvStep == IInv /\ [Next]_vars => IInv'
<1>1. IInv /\ UNCHANGED vars => IInv'
  BY Stays
     DEF IInv, Typed, Locked, NoWork, Counts, Posted, Creating, Ending, vars, control, counts,
         signals, defers
<1> QED
  BY <1>1, CreationStep, FinishStep, ApplicationStep, FinishGrowStep, TimerStep, WorkerStep
     DEF Next, Owner

LEMMA Invariant == Spec => []IInv
BY InvInit, InvStep, PTL DEF Spec

-----------------------------------------------------------------------------
(* The worker threads and the counter of the pool agree: a thread that     *)
(* waits for its turn, runs a job or is on its way back is counted in      *)
(* activeThreads, one that leaves is not, and a running pool never falls   *)
(* below its minimum.                                                      *)
THEOREM ThreadsCountedHolds == Spec => []ThreadsCounted
<1>1. ASSUME IInv PROVE ThreadsCounted
  <2> DEFINE C == {w \in Threads : Counted(w)}
  <2>1. CASE Creating
    <3>1. C = TakingThreads \cup StartingThreads /\ TakingThreads \cap StartingThreads = {}
      BY <2>1 DEF Creating, Counted, TakingThreads, StartingThreads, Taking
    <3>2. IsFiniteSet(TakingThreads) /\ IsFiniteSet(StartingThreads)
      BY ThreadsAssumption, FS_Subset DEF TakingThreads, StartingThreads
    <3>3. Cardinality(C) = Active + Starting
      <4>1. Cardinality(TakingThreads \cap StartingThreads) = 0
        BY <3>1, FS_EmptySet
      <4> HIDE DEF C
      <4>2. Cardinality(TakingThreads \cup StartingThreads)
              = Cardinality(TakingThreads) + Cardinality(StartingThreads)
                  - Cardinality(TakingThreads \cap StartingThreads)
        BY <3>2, FS_Union
      <4>3. Cardinality(C) = Active + Starting - 0
        BY <3>1, <4>1, <4>2 DEF Active, Starting
      <4> QED  BY <4>3, CountsNat
    <3> QED  BY <1>1, <2>1, <3>3 DEF IInv, Counts, Creating, ThreadsCounted
  <2>2. CASE ~Creating
    <3>1. C = TakingThreads
      BY <2>2 DEF Creating, Counted, TakingThreads, Taking
    <3>2. grow = NoGrow => activeThreads = Active
      BY <1>1, <2>2, CountsNat DEF IInv, Typed, Counts, Creating, Ending
    <3> QED  BY <1>1, <3>1, <3>2 DEF IInv, Counts, ThreadsCounted, Active
  <2> QED  BY <2>1, <2>2
<1> QED  BY <1>1, Invariant, PTL

(* A job in the dispatch queue always has a wake-up on its way: a post of  *)
(* the dispatch signal, or a thread that took one and has not yet looked.  *)
THEOREM JobsSignalled == Spec => []NoLostWakeup
<1>1. IInv => NoLostWakeup
  BY DEF IInv, Posted, NoLostWakeup, Woken, WokenThreads
<1> QED  BY <1>1, Invariant, PTL

(* When IotTaskPool_Destroy has waited for all the threads it counted,     *)
(* none of them is left and no post was made twice.                        *)
THEOREM DestroyAsserts == Spec => []ShutdownClean
<1>1. IInv => ShutdownClean
  BY CountsNat DEF IInv, Typed, Counts, Ending, ShutdownClean
<1> QED  BY <1>1, Invariant, PTL
-----------------------------------------------------------------------------
(* Every job is in one place, that of its status.                          *)

Once(s) == \A i, k \in 1..Len(s) : s[i] = s[k] => i = k
Listed(s, S) == Once(s) /\ \A j \in Jobs : j \in S <=> \E i \in 1..Len(s) : s[i] = j

(* A high priority job that failed for want of a thread is scheduled and   *)
(* nowhere: where that happens, only the jobs of the queue are asked for.  *)
Queued == {j \in Jobs : /\ status[j] = "scheduled" /\ grow.job # j
                        /\ "high" \in Faults => \E i \in 1..Len(queue) : queue[i] = j}
Timed  == {j \in Jobs : status[j] = "deferred"}

Links ==
  /\ status \in [Jobs -> Statuses] /\ cache \subseteq Jobs \ StaticJobs
  /\ grow.job \in Jobs => status[grow.job] = "scheduled"
  /\ Listed(queue, Queued)
  /\ Listed(timerEvents, Timed)
  /\ \A j \in cache : status[j] = "undefined"

LEMMA SameMembers ==
  ASSUME NEW s \in Seq(Jobs), NEW S, NEW T, Listed(s, S), \A j \in Jobs : j \in S <=> j \in T
  PROVE  Listed(s, T)
BY DEF Listed

LEMMA EmptyList == \A S : (\A j \in Jobs : j \notin S) => Listed(<<>>, S)
BY DEF Listed, Once

LEMMA WithoutOne ==
  ASSUME NEW s \in Seq(Jobs), NEW S, Listed(s, S), NEW k \in 1..Len(s), NEW t \in Seq(Jobs),
         Len(t) = Len(s) - 1,
         \A i \in 1..Len(s) - 1 : t[i] = IF i < k THEN s[i] ELSE s[i + 1]
  PROVE  Listed(t, S \ {s[k]}) /\ s[k] \in S
<1> DEFINE At2(i) == IF i < k THEN i ELSE i + 1
<1>1. Len(s) \in Nat /\ k \in Nat /\ 1 <= k /\ k <= Len(s)
  OBVIOUS
<1>2. ASSUME NEW i \in 1..Len(t)
      PROVE  At2(i) \in 1..Len(s) /\ At2(i) # k /\ t[i] = s[At2(i)]
  BY <1>1
<1>3. ASSUME NEW m \in 1..Len(s), m # k
      PROVE  \E i \in 1..Len(t) : t[i] = s[m]
  <2>1. CASE m < k
    BY <1>1, <2>1
  <2>2. CASE m > k
    <3>1. m - 1 \in 1..Len(t) /\ ~(m - 1 < k) /\ (m - 1) + 1 = m
      BY <1>1, <2>2
    <3> QED  BY <3>1
  <2> QED  BY <1>1, <1>3, <2>1, <2>2
<1>4. Once(t)
  <2> SUFFICES ASSUME NEW i \in 1..Len(t), NEW m \in 1..Len(t), t[i] = t[m] PROVE i = m
    BY DEF Once
  <2>1. At2(i) = At2(m)
    <3> HIDE DEF At2
    <3> QED  BY <1>2 DEF Listed, Once
  <2> QED  BY <1>1, <2>1
<1>5. ASSUME NEW j \in Jobs
      PROVE  j \in S \ {s[k]} <=> \E i \in 1..Len(t) : t[i] = j
  <2> HIDE DEF At2
  <2>1. ASSUME j \in S, j # s[k] PROVE \E i \in 1..Len(t) : t[i] = j
    <3>1. PICK m \in 1..Len(s) : s[m] = j
      BY <2>1 DEF Listed
    <3>2. m # k
      BY <2>1, <3>1
    <3> QED  BY <1>3, <3>1, <3>2
  <2>2. ASSUME NEW i \in 1..Len(t), t[i] = j PROVE j \in S /\ j # s[k]
    BY <1>2, <2>2 DEF Listed, Once
  <2> QED  BY <2>1, <2>2
<1>6. s[k] \in S
  BY DEF Listed
<1> QED  BY <1>4, <1>5, <1>6 DEF Listed

LEMMA WithOne ==
  ASSUME NEW s \in Seq(Jobs), NEW S, Listed(s, S), NEW j \in Jobs, j \notin S,
         NEW k \in 1 .. Len(s) + 1, NEW t \in Seq(Jobs), Len(t) = Len(s) + 1, t[k] = j,
         \A i \in 1..Len(s) : t[IF i < k THEN i ELSE i + 1] = s[i]
  PROVE  Listed(t, S \cup {j})
<1>1. Len(s) \in Nat /\ k \in Nat /\ 1 <= k /\ k <= Len(s) + 1
  OBVIOUS
<1>2. ASSUME NEW m \in 1..Len(t), m # k
      PROVE  \E i \in 1..Len(s) : m = (IF i < k THEN i ELSE i + 1) /\ t[m] = s[i]
  <2>1. CASE m < k
    <3>1. m \in 1..Len(s) /\ t[m] = s[m]
      BY <1>1, <2>1
    <3> QED  BY <2>1, <3>1
  <2>2. CASE m > k
    <3>1. m - 1 \in 1..Len(s) /\ ~(m - 1 < k) /\ (m - 1) + 1 = m
      BY <1>1, <2>2
    <3>2. t[m] = s[m - 1]
      BY <3>1
    <3> QED  BY <3>1, <3>2
  <2> QED  BY <1>1, <1>2, <2>1, <2>2
<1>3. \A i \in 1..Len(s) : s[i] # j
  BY DEF Listed
<1>4. Once(t)
  <2> SUFFICES ASSUME NEW i \in 1..Len(t), NEW m \in 1..Len(t), t[i] = t[m] PROVE i = m
    BY DEF Once
  <2>1. CASE i = k \/ m = k
    BY <1>2, <1>3, <2>1
  <2>2. CASE i # k /\ m # k
    BY <1>2, <2>2 DEF Listed, Once
  <2> QED  BY <2>1, <2>2
<1>5. ASSUME NEW x \in Jobs
      PROVE  x \in S \cup {j} <=> \E i \in 1..Len(t) : t[i] = x
  <2>1. ASSUME x \in S PROVE \E i \in 1..Len(t) : t[i] = x
    <3>1. PICK i \in 1..Len(s) : s[i] = x
      BY <2>1 DEF Listed
    <3>2. (IF i < k THEN i ELSE i + 1) \in 1..Len(t)
      BY <1>1
    <3> QED  BY <3>1, <3>2
  <2>2. k \in 1..Len(t)
    BY <1>1
  <2>3. ASSUME NEW m \in 1..Len(t), t[m] = x, m # k PROVE x \in S
    BY <1>2, <2>3 DEF Listed
  <2> QED  BY <2>1, <2>2, <2>3
<1> QED  BY <1>4, <1>5 DEF Listed

LEMMA Removed ==
  ASSUME NEW s \in Seq(Jobs), NEW S, Listed(s, S), NEW j \in Jobs
  PROVE  RemoveFirst(s, j) \in Seq(Jobs) /\ Listed(RemoveFirst(s, j), S \ {j})
<1>1. CASE RemoveFirst(s, j) = s /\ \A i \in 1..Len(s) : s[i] # j
  <2>1. j \notin S
    BY <1>1 DEF Listed
  <2> QED  BY <1>1, <2>1 DEF Listed
<1>2. ASSUME NEW k \in 1..Len(s), s[k] = j, RemoveFirst(s, j) = RemoveAt(s, k)
      PROVE  RemoveFirst(s, j) \in Seq(Jobs) /\ Listed(RemoveFirst(s, j), S \ {j})
  <2>1. /\ RemoveAt(s, k) \in Seq(Jobs) /\ Len(RemoveAt(s, k)) = Len(s) - 1
        /\ \A i \in 1..Len(s) - 1 : RemoveAt(s, k)[i] = IF i < k THEN s[i] ELSE s[i + 1]
    BY RemoveAtIs
  <2>2. Listed(RemoveAt(s, k), S \ {s[k]})
    BY <2>1, WithoutOne
  <2> QED  BY <1>2, <2>1, <2>2
<1> QED  BY <1>1, <1>2, RemoveFirstIs

LEMMA Taken ==
  ASSUME NEW s \in Seq(Jobs), NEW S, Listed(s, S), s # <<>>
  PROVE  /\ Tail(s) \in Seq(Jobs) /\ Listed(Tail(s), S \ {Head(s)})
         /\ Head(s) \in S /\ Head(s) \in Jobs
<1>1. /\ Tail(s) \in Seq(Jobs) /\ Len(Tail(s)) = Len(s) - 1 /\ Head(s) = s[1] /\ 1 \in 1..Len(s)
      /\ \A i \in 1..Len(s) - 1 : Tail(s)[i] = s[i + 1]
  OBVIOUS
<1>2. \A i \in 1..Len(s) - 1 : Tail(s)[i] = IF i < 1 THEN s[i] ELSE s[i + 1]
  BY <1>1
<1>3. Listed(Tail(s), S \ {s[1]}) /\ s[1] \in S
  BY <1>1, <1>2, WithoutOne
<1> QED  BY <1>1, <1>3

LEMMA Added ==
  ASSUME NEW s \in Seq(Jobs), NEW S, Listed(s, S), NEW j \in Jobs, j \notin S
  PROVE  /\ Listed(Append(s, j), S \cup {j})
         /\ Listed(<<j>> \o s, S \cup {j})
         /\ \A k \in 1 .. Len(s) + 1 : Listed(InsertAt(s, k, j), S \cup {j})
<1>1. Listed(Append(s, j), S \cup {j})
  <2>1. /\ Append(s, j) \in Seq(Jobs) /\ Len(Append(s, j)) = Len(s) + 1
        /\ Append(s, j)[Len(s) + 1] = j /\ Len(s) + 1 \in 1 .. Len(s) + 1
        /\ \A i \in 1..Len(s) : Append(s, j)[IF i < Len(s) + 1 THEN i ELSE i + 1] = s[i]
    OBVIOUS
  <2> QED  BY <2>1, WithOne
<1>2. Listed(<<j>> \o s, S \cup {j})
  <2> DEFINE t == <<j>> \o s
  <2>1. /\ t \in Seq(Jobs) /\ Len(t) = Len(s) + 1 /\ t[1] = j /\ 1 \in 1 .. Len(s) + 1
        /\ \A i \in 1..Len(s) : t[i + 1] = s[i]
    OBVIOUS
  <2> HIDE DEF t
  <2>2. \A i \in 1..Len(s) : t[IF i < 1 THEN i ELSE i + 1] = s[i]
    BY <2>1
  <2>3. Listed(t, S \cup {j})
    BY <2>1, <2>2, WithOne
  <2> QED  BY <2>3 DEF t
<1>3. ASSUME NEW k \in 1 .. Len(s) + 1
      PROVE  Listed(InsertAt(s, k, j), S \cup {j})
  <2> DEFINE a == SubSeq(s, 1, k - 1)
             b == SubSeq(s, k, Len(s))
             c == a \o <<j>>
             t == c \o b
  <2>1. a \in Seq(Jobs) /\ Len(a) = k - 1 /\ \A i \in 1..k - 1 : a[i] = s[i]
    BY SubSeqProperties
  <2>2. /\ b \in Seq(Jobs) /\ Len(b) = Len(s) + 1 - k
        /\ \A i \in 1..Len(s) + 1 - k : b[i] = s[k + i - 1]
    BY SubSeqProperties
  <2>3. InsertAt(s, k, j) = t
    BY DEF InsertAt
  <2> HIDE DEF a, b
  <2>7. c \in Seq(Jobs) /\ Len(c) = k /\ c[k] = j /\ \A i \in 1..k - 1 : c[i] = a[i]
    BY <2>1
  <2> HIDE DEF c
  <2>8. /\ t \in Seq(Jobs) /\ Len(t) = Len(c) + Len(b)
        /\ \A i \in 1 .. Len(c) + Len(b) : t[i] = IF i <= Len(c) THEN c[i] ELSE b[i - Len(c)]
    BY <2>2, <2>7, ConcatProperties
  <2> HIDE DEF t
  <2>4. /\ t \in Seq(Jobs) /\ Len(t) = Len(s) + 1 /\ t[k] = j
        /\ \A i \in 1..k - 1 : t[i] = a[i]
        /\ \A i \in 1..Len(b) : t[k + i] = b[i]
    <3>1. Len(t) = Len(s) + 1 /\ \A i \in 1..k : t[i] = c[i]
      BY <2>2, <2>7, <2>8
    <3>2. ASSUME NEW i \in 1..Len(b)
          PROVE  t[k + i] = b[i]
      <4>1. k + i \in 1 .. Len(c) + Len(b) /\ ~(k + i <= Len(c)) /\ (k + i) - Len(c) = i
        BY <2>2, <2>7
      <4> QED  BY <2>8, <4>1
    <3> QED  BY <2>7, <2>8, <3>1, <3>2
  <2>5. ASSUME NEW i \in 1..Len(s)
        PROVE  t[IF i < k THEN i ELSE i + 1] = s[i]
    <3>1. CASE i < k
      BY <2>1, <2>4, <3>1
    <3>2. CASE ~(i < k)
      <4>1. i - k + 1 \in 1..Len(b) /\ k + (i - k + 1) = i + 1 /\ k + (i - k + 1) - 1 = i
        BY <2>2, <3>2
      <4> QED  BY <2>2, <2>4, <3>2, <4>1
    <3> QED  BY <3>1, <3>2
  <2>6. Listed(t, S \cup {j})
    BY <2>4, <2>5, WithOne
  <2> QED  BY <2>3, <2>6
<1> QED  BY <1>1, <1>2, <1>3

-----------------------------------------------------------------------------
LInv == IInv /\ Links

LEMMA LinksInit == Init => Links
<1> SUFFICES ASSUME Init PROVE Links
  OBVIOUS
<1>1. \A j \in Jobs : j \notin Queued /\ j \notin Timed
  BY DEF Init, Queued, Timed
<1>2. Listed(queue, Queued) /\ Listed(timerEvents, Timed)
  BY <1>1, EmptyList DEF Init
<1> QED  BY <1>2, JobsAssumption DEF Init, Links, NoGrow, Statuses

LEMMA QueuedIs ==
  ASSUME queue' \in Seq(Jobs), NEW T, Listed(queue', T),
         \A i \in Jobs : i \in T => status'[i] = "scheduled" /\ grow'.job # i,
         "high" \in Faults
           \/ \A i \in Jobs : status'[i] = "scheduled" /\ grow'.job # i => i \in T
  PROVE  Listed(queue', Queued')
<1>1. \A i \in Jobs : i \in T <=> i \in Queued'
  BY DEF Listed, Queued
<1> QED  BY <1>1, SameMembers

(* A step that changes the status of at most one job and leaves it in at   *)
(* most one list keeps the links.                                          *)
LEMMA Relinked ==
  ASSUME Links, NEW j \in Jobs, NEW x \in Statuses, status' = [status EXCEPT ![j] = x],
         cache' \subseteq Jobs \ StaticJobs, \A c \in cache' : c \in cache \/ c = j,
         j \in cache' => x = "undefined",
         grow.job # NoJob => grow.job \in Jobs /\ grow.job # j,
         \/ grow' = grow
         \/ grow'.job = j /\ x = "scheduled",
         grow.job = NoJob \/ grow' = grow,
         \/ Listed(queue', (Queued \ {j}) \cup {i \in {j} : x = "scheduled" /\ grow'.job # j})
         \/ "high" \in Faults /\ Listed(queue', Queued \ {j}),
         Listed(timerEvents', (Timed \ {j}) \cup {i \in {j} : x = "deferred"}),
         queue' \in Seq(Jobs), timerEvents' \in Seq(Jobs)
  PROVE  Links'
<1>1. /\ status' \in [Jobs -> Statuses] /\ status'[j] = x
      /\ \A i \in Jobs \ {j} : status'[i] = status[i]
  BY DEF Links
<1>2. \A i \in Jobs \ {j} : grow'.job # i <=> grow.job # i
  BY JobsAssumption
<1>3. Listed(queue', Queued')
  <2> DEFINE T == (Queued \ {j}) \cup {m \in {j} : x = "scheduled" /\ grow'.job # j}
  <2>1. CASE Listed(queue', T)
    <3>1. \A i \in Jobs : i \in T => status'[i] = "scheduled" /\ grow'.job # i
      BY <1>1, <1>2 DEF Queued
    <3>2. "high" \in Faults
            \/ \A i \in Jobs : status'[i] = "scheduled" /\ grow'.job # i => i \in T
      BY <1>1, <1>2 DEF Queued
    <3> QED  BY <2>1, <3>1, <3>2, QueuedIs
  <2>2. CASE "high" \in Faults /\ Listed(queue', Queued \ {j})
    <3>1. \A i \in Jobs : i \in Queued \ {j} => status'[i] = "scheduled" /\ grow'.job # i
      BY <1>1, <1>2 DEF Queued
    <3> QED  BY <2>2, <3>1, QueuedIs
  <2> QED  BY <2>1, <2>2
<1>4. Listed(timerEvents', Timed')
  <2>1. \A i \in Jobs : i \in (Timed \ {j}) \cup {m \in {j} : x = "deferred"} <=> i \in Timed'
    BY <1>1 DEF Timed
  <2> QED  BY <2>1, SameMembers
<1>5. grow'.job \in Jobs => status'[grow'.job] = "scheduled"
  BY <1>1, JobsAssumption DEF Links
<1>6. \A c \in cache' : status'[c] = "undefined"
  BY <1>1 DEF Links
<1> QED  BY <1>1, <1>3, <1>4, <1>5, <1>6 DEF Links

LEMMA LinksStay ==
  ASSUME Links, UNCHANGED <<status, cache, grow, queue, timerEvents>>
  PROVE  Links'
BY DEF Links, Queued, Timed, Listed, Once

LEMMA ScheduledLinks ==
  ASSUME Links, grow = NoGrow, NEW j \in Jobs, j \notin cache,
         NEW high \in BOOLEAN, NEW q \in Seq(Jobs), NEW holder,
         ScheduleInternal(j, high, q, holder), cache' = cache,
         Listed(q, Queued \ {j}), Listed(timerEvents', Timed \ {j}),
         timerEvents' \in Seq(Jobs)
  PROVE  Links'
<1>1. /\ grow.job = NoJob /\ status' = [status EXCEPT ![j] = "scheduled"]
      /\ "scheduled" \in Statuses /\ cache' \subseteq Jobs \ StaticJobs
  BY DEF NoGrow, ScheduleInternal, Statuses, Links
<1>2. Listed(timerEvents', (Timed \ {j}) \cup {i \in {j} : "scheduled" = "deferred"})
  <2>1. (Timed \ {j}) \cup {i \in {j} : "scheduled" = "deferred"} = Timed \ {j}
    OBVIOUS
  <2> QED  BY <2>1
<1>3. CASE grow' = [job |-> j, head |-> high] /\ queue' = q
  <2>1. (Queued \ {j}) \cup {i \in {j} : "scheduled" = "scheduled" /\ grow'.job # j}
          = Queued \ {j}
    BY <1>3
  <2> QED  BY <1>1, <1>2, <1>3, <2>1, Relinked
<1>4. CASE Enqueue(q, j, FALSE) /\ grow' = grow
  <2>1. (Queued \ {j}) \cup {i \in {j} : "scheduled" = "scheduled" /\ grow'.job # j}
          = (Queued \ {j}) \cup {j}
    BY <1>1, <1>4, JobsAssumption
  <2>2. queue' = Append(q, j) /\ queue' \in Seq(Jobs)
    BY <1>4 DEF Enqueue
  <2>3. Listed(queue', (Queued \ {j}) \cup {j})
    BY <2>2, Added
  <2> QED  BY <1>1, <1>2, <1>4, <2>1, <2>2, <2>3, Relinked
(* The high priority job failed.                                           *)
<1>5. CASE "high" \in Faults /\ queue' = q /\ grow' = grow
  BY <1>1, <1>2, <1>5, Relinked
<1> QED  BY <1>3, <1>4, <1>5 DEF ScheduleInternal

LEMMA ApplicationLinks ==
  ASSUME LInv, Application
  PROVE  Links'
<1>1. grow = NoGrow
  BY DEF Application, CreateJob, CreateRecyclableJob, Schedule, ScheduleDeferred, DeferralFails,
         TryCancel, RecycleJob, DestroyRecyclableJob, Dispose, SetMaxThreads, Destroy, Call,
         Free, LInv, IInv, Locked
<1>2. /\ Links /\ Typed /\ grow.job = NoJob /\ queue \in Seq(Jobs) /\ timerEvents \in Seq(Jobs)
      /\ status \in [Jobs -> Statuses] /\ cache \subseteq Jobs \ StaticJobs
      /\ \A c \in cache : status[c] = "undefined"
  BY <1>1 DEF LInv, IInv, Typed, NoGrow, Links
<1>3. /\ Listed(queue, Queued) /\ Listed(timerEvents, Timed)
      /\ \A i \in Jobs : grow.job # i
  BY <1>2, JobsAssumption DEF Links
<1>4. ASSUME NEW j \in Jobs
      PROVE  /\ RemoveFirst(queue, j) \in Seq(Jobs) /\ RemoveFirst(timerEvents, j) \in Seq(Jobs)
             /\ Listed(RemoveFirst(queue, j), Queued \ {j})
             /\ Listed(RemoveFirst(timerEvents, j), Timed \ {j})
             /\ CanExtract(j) => j \notin cache
  BY <1>2, <1>3, Removed DEF CanExtract
(* The lists of a call that leaves j in none of them.                      *)
<1>5. ASSUME NEW j \in Jobs, NEW x \in Statuses \ {"scheduled", "deferred"},
             status' = [status EXCEPT ![j] = x], grow' = grow,
             cache' \subseteq Jobs \ StaticJobs, \A c \in cache' : c \in cache \/ c = j,
             j \in cache' => x = "undefined",
             Listed(queue', Queued \ {j}), Listed(timerEvents', Timed \ {j}),
             queue' \in Seq(Jobs), timerEvents' \in Seq(Jobs)
      PROVE  Links'
  <2>1. \A S : S \cup {i \in {j} : x = "scheduled" /\ grow'.job # j} = S
    BY <1>5
  <2>2. \A S : S \cup {i \in {j} : x = "deferred"} = S
    BY <1>5
  <2>3. /\ Listed(queue', (Queued \ {j}) \cup {i \in {j} : x = "scheduled" /\ grow'.job # j})
        /\ Listed(timerEvents', (Timed \ {j}) \cup {i \in {j} : x = "deferred"})
    BY <1>5, <2>1, <2>2
  <2> QED  BY <1>2, <1>5, <2>3, Relinked
<1>6. CASE \E j \in Jobs : CreateJob(j) \/ CreateRecyclableJob(j)
  <2>1. PICK j \in Jobs : CreateJob(j) \/ CreateRecyclableJob(j)
    BY <1>6
  <2>2. /\ status[j] \notin {"scheduled", "deferred"} /\ status' = [status EXCEPT ![j] = "ready"]
        /\ j \notin cache' /\ cache' \subseteq cache
        /\ UNCHANGED <<queue, timerEvents, grow>>
    BY <1>2, <2>1 DEF CreateJob, CreateRecyclableJob, defers
  <2>3. Listed(queue', Queued \ {j}) /\ Listed(timerEvents', Timed \ {j})
    <3>1. j \notin Queued /\ j \notin Timed
      BY <2>2 DEF Queued, Timed
    <3>2. Queued \ {j} = Queued /\ Timed \ {j} = Timed
      BY <3>1
    <3> QED  BY <1>3, <2>2, <3>2
  <2>4. "ready" \in Statuses \ {"scheduled", "deferred"}
    BY DEF Statuses
  <2> QED  BY <1>2, <1>5, <2>2, <2>3, <2>4
<1>7. CASE \E j \in Jobs : DeferralFails(j) \/ TryCancel(j)
  <2>1. PICK j \in Jobs : DeferralFails(j) \/ TryCancel(j)
    BY <1>7
  <2>2. PICK x \in {"ready", "canceled"} :
          /\ status' = [status EXCEPT ![j] = x] /\ j \notin cache
          /\ queue' = RemoveFirst(queue, j) /\ timerEvents' = RemoveFirst(timerEvents, j)
          /\ UNCHANGED <<cache, grow>>
    BY <1>4, <2>1 DEF DeferralFails, TryCancel, RemoveTimerEvent
  <2>3. x \in Statuses \ {"scheduled", "deferred"}
    BY DEF Statuses
  <2> QED  BY <1>2, <1>4, <1>5, <2>2, <2>3
<1>8. CASE \E j \in Jobs : RecycleJob(j) \/ DestroyRecyclableJob(j)
  <2>1. PICK j \in Jobs : RecycleJob(j) \/ DestroyRecyclableJob(j)
    BY <1>8
  <2>2. /\ status' = [status EXCEPT ![j] = "undefined"] /\ j \notin StaticJobs
        /\ queue' = RemoveFirst(queue, j) /\ timerEvents' = RemoveFirst(timerEvents, j)
        /\ cache' \in {cache, cache \cup {j}} /\ grow' = grow
    BY <2>1 DEF RecycleJob, DestroyRecyclableJob, Dispose, RemoveTimerEvent
  <2>3. "undefined" \in Statuses \ {"scheduled", "deferred"}
    BY DEF Statuses
  <2> QED  BY <1>2, <1>4, <1>5, <2>2, <2>3
<1>9. ASSUME NEW j \in Jobs, ScheduleDeferred(j)
      PROVE  Links'
  <2>1. /\ status' = [status EXCEPT ![j] = "deferred"] /\ j \notin cache
        /\ queue' = RemoveFirst(queue, j) /\ UNCHANGED <<cache, grow>>
    BY <1>4, <1>9 DEF ScheduleDeferred
  <2>2. PICK i \in 1 .. Len(RemoveFirst(timerEvents, j)) + 1 :
          timerEvents' = InsertAt(RemoveFirst(timerEvents, j), i, j)
    <3>1. NowDue(j) \in Nat
      BY <1>2, EventUnlinked
    <3> QED  BY <1>9, <3>1 DEF ScheduleDeferred
  <2>3. timerEvents' \in Seq(Jobs) /\ Listed(timerEvents', (Timed \ {j}) \cup {j})
    BY <1>4, <2>2, Added, Inserted
  <2>4. Listed(queue', (Queued \ {j}) \cup {x \in {j} : FALSE})
    <3>1. (Queued \ {j}) \cup {x \in {j} : FALSE} = Queued \ {j}
      OBVIOUS
    <3> QED  BY <1>4, <2>1, <3>1
  <2> QED
    BY <1>2, <1>3, <1>4, <2>1, <2>3, <2>4, Relinked DEF Statuses
<1>10. ASSUME NEW j \in Jobs, NEW high \in BOOLEAN, Schedule(j, high)
       PROVE  Links'
  <2>1. /\ ScheduleInternal(j, high, RemoveFirst(queue, j), "app") /\ cache' = cache
        /\ timerEvents' = RemoveFirst(timerEvents, j) /\ j \notin cache
    BY <1>4, <1>10 DEF Schedule, RemoveTimerEvent
  <2> QED  BY <1>1, <1>2, <1>4, <2>1, ScheduledLinks
<1>11. CASE \E m \in 1..MaxThreads : SetMaxThreads(m)
  BY <1>2, <1>11, LinksStay DEF SetMaxThreads, defers
<1>12. CASE Destroy
  <2>1. /\ status' \in [Jobs -> Statuses]
        /\ \A i \in Jobs : status'[i] \notin {"scheduled", "deferred"}
        /\ queue' = <<>> /\ timerEvents' = <<>> /\ cache' = {} /\ grow' = grow
    BY <1>2, <1>12 DEF Destroy, Statuses
  <2>2. \A i \in Jobs : i \notin Queued' /\ i \notin Timed'
    BY <2>1 DEF Queued, Timed
  <2>3. Listed(queue', Queued') /\ Listed(timerEvents', Timed')
    BY <2>1, <2>2, EmptyList
  <2> QED  BY <1>2, <2>1, <2>3, JobsAssumption DEF Links
<1> QED
  BY <1>6, <1>7, <1>8, <1>9, <1>10, <1>11, <1>12 DEF Application

LEMMA GrowLinks == LInv /\ FinishGrow => Links'
<1> SUFFICES ASSUME LInv, FinishGrow PROVE Links'
  OBVIOUS
<1>1. /\ grow.job \in Jobs /\ status[grow.job] = "scheduled" /\ queue \in Seq(Jobs)
      /\ grow' = NoGrow /\ UNCHANGED <<status, timerEvents, cache>>
  BY DEF LInv, IInv, Typed, Links, FinishGrow, defers
<1>2. grow.job \notin Queued
  BY DEF Queued
<1>3. /\ \A j \in Jobs : j \in Queued \cup {grow.job} => status'[j] = "scheduled" /\ grow'.job # j
      /\ "high" \in Faults
           \/ \A j \in Jobs : status'[j] = "scheduled" /\ grow'.job # j => j \in Queued \cup {grow.job}
  BY <1>1, JobsAssumption DEF Queued, NoGrow
<1>4. Listed(queue', Queued \cup {grow.job})
  BY <1>1, <1>2, Added DEF FinishGrow, Enqueue, LInv, Links
<1>5. queue' \in Seq(Jobs)
  BY <1>1 DEF FinishGrow, Enqueue
<1>6. Listed(queue', Queued')
  BY <1>3, <1>4, <1>5, QueuedIs
<1>7. Listed(timerEvents', Timed')
  BY <1>1 DEF LInv, Links, Listed, Once, Timed
<1>8. grow'.job = NoJob
  BY <1>1 DEF NoGrow
<1> QED  BY <1>1, <1>6, <1>7, <1>8, JobsAssumption DEF LInv, Links

LEMMA TakenLinks ==
  ASSUME LInv, grow = NoGrow, NEW w, NEW running, TakeJob(w, running),
         UNCHANGED <<cache, grow, timerEvents>>
  PROVE  Links'
<1> DEFINE j == Head(queue)
<1>1. /\ queue \in Seq(Jobs) /\ timerEvents \in Seq(Jobs) /\ queue # <<>>
      /\ queue' = Tail(queue) /\ status' = [status EXCEPT ![j] = "completed"]
      /\ Links /\ grow.job = NoJob
  BY DEF LInv, IInv, Typed, TakeJob, NoGrow
<1>2. /\ queue' \in Seq(Jobs) /\ Listed(queue', Queued \ {j}) /\ j \in Queued /\ j \in Jobs
  BY <1>1, Taken DEF Links
<1> HIDE DEF j
<1>3. j \notin cache /\ j \notin Timed /\ "completed" \in Statuses
  BY <1>1, <1>2 DEF Links, Queued, Timed, Statuses
<1>4. Listed(queue', (Queued \ {j}) \cup {i \in {j} : "completed" = "scheduled" /\ grow'.job # j})
  <2>1. (Queued \ {j}) \cup {i \in {j} : "completed" = "scheduled" /\ grow'.job # j}
          = Queued \ {j}
    OBVIOUS
  <2> QED  BY <1>2, <2>1
<1>5. Listed(timerEvents', (Timed \ {j}) \cup {i \in {j} : "completed" = "deferred"})
  <2>1. (Timed \ {j}) \cup {i \in {j} : "completed" = "deferred"} = Timed
    BY <1>3
  <2> QED  BY <1>1, <2>1 DEF Links
<1> QED  BY <1>1, <1>2, <1>3, <1>4, <1>5, Relinked DEF Links

LEMMA LinksStep == LInv /\ [Next]_vars => LInv'
<1> SUFFICES ASSUME LInv, [Next]_vars PROVE Links'
  BY InvStep DEF LInv
<1>1. CASE Application
  BY <1>1, ApplicationLinks
<1>2. CASE FinishGrow
  BY <1>2, GrowLinks
<1>3. CASE DispatchExpired
  <2>1. /\ timerEvents \in Seq(Jobs) /\ queue \in Seq(Jobs) /\ timerEvents # <<>>
        /\ grow = NoGrow /\ timerEvents' = Tail(timerEvents) /\ cache' = cache
        /\ Links
    BY <1>3 DEF LInv, IInv, Typed, DispatchExpired
  <2>5. ScheduleInternal(Head(timerEvents), FALSE, queue, "timer")
    BY <1>3 DEF DispatchExpired
  <2>2. /\ timerEvents' \in Seq(Jobs) /\ Listed(timerEvents', Timed \ {Head(timerEvents)})
        /\ Head(timerEvents) \in Timed /\ Head(timerEvents) \in Jobs
    BY <2>1, Taken DEF Links
  <2>3. Head(timerEvents) \notin cache /\ Head(timerEvents) \notin Queued
    BY <2>1, <2>2 DEF Links, Timed, Queued
  <2>4. Listed(queue, Queued \ {Head(timerEvents)})
    <3>1. Queued \ {Head(timerEvents)} = Queued
      BY <2>3
    <3> QED  BY <2>1, <3>1 DEF Links
  <2> QED  BY <2>1, <2>2, <2>3, <2>4, <2>5, ScheduledLinks
<1>4. ASSUME NEW w \in Threads, Worker(w)
      PROVE  Links'
  <2>1. CASE \E running \in BOOLEAN : TakeJob(w, running) /\ (LookForJob(w) \/ NextJob(w))
    <3>1. grow = NoGrow /\ UNCHANGED <<cache, grow, timerEvents>>
      BY <2>1 DEF LookForJob, NextJob, Free, LInv, IInv, Locked, defers
    <3> QED  BY <2>1, <3>1, TakenLinks
  <2>2. CASE UNCHANGED <<status, cache, grow, queue, timerEvents>>
    BY <2>2, LinksStay DEF LInv
  <2>3. LookForJob(w) \/ NextJob(w) => \/ \E running \in BOOLEAN : TakeJob(w, running)
                                      \/ UNCHANGED <<status, cache, grow, queue, timerEvents>>
    BY DEF LookForJob, NextJob, defers, Dies
  <2>4. Start(w) \/ Wake(w) \/ SeeShutdown(w) \/ Exit(w) \/ CallbackReturns(w)
          => UNCHANGED <<status, cache, grow, queue, timerEvents>>
    BY DEF Start, Wake, SeeShutdown, Exit, CallbackReturns, defers
  <2> QED  BY <1>4, <2>1, <2>2, <2>3, <2>4 DEF Worker
<1>5. CASE Owner \/ TimePasses \/ TimerFires \/ TimerLocks \/ TimerDone \/ UNCHANGED vars
  <2>1. UNCHANGED <<status, cache, grow, queue, timerEvents>>
    BY <1>5 DEF Owner, CreateWorker, WorkersCreated, AwaitThread, Created, FinishDestroy,
                TimePasses, TimerFires, TimerLocks, TimerDone, vars, defers
  <2> QED  BY <2>1, LinksStay DEF LInv
<1> QED  BY <1>1, <1>2, <1>3, <1>4, <1>5 DEF Next, TimerTask

(* While no high priority job fails for want of a thread, a scheduled job  *)
(* is in the dispatch queue exactly once, or with the scheduler that waits *)
(* for a thread, a deferred job has exactly one timer event, and no job of *)
(* the cache is linked anywhere.                                           *)
THEOREM JobsStayLinked ==
  ASSUME "high" \notin Faults
  PROVE  Spec => []JobsLinked
<1>1. ASSUME NEW s \in Seq(Jobs), NEW S, Listed(s, S), NEW j \in Jobs
      PROVE  Cardinality({i \in DOMAIN s : s[i] = j}) = IF j \in S THEN 1 ELSE 0
  <2>1. DOMAIN s = 1..Len(s)
    OBVIOUS
  <2>2. CASE j \in S
    <3>1. PICK k \in 1..Len(s) : s[k] = j
      BY <1>1, <2>2 DEF Listed
    <3>2. {i \in DOMAIN s : s[i] = j} = {k}
      BY <1>1, <2>1, <3>1 DEF Listed, Once
    <3> QED  BY <2>2, <3>2, FS_Singleton
  <2>3. CASE j \notin S
    <3>1. {i \in DOMAIN s : s[i] = j} = {}
      BY <1>1, <2>1, <2>3 DEF Listed
    <3> QED  BY <2>3, <3>1, FS_EmptySet
  <2> QED  BY <2>2, <2>3
<1>2. ASSUME LInv PROVE JobsLinked
  <2> SUFFICES ASSUME NEW j \in Jobs
               PROVE  /\ Cardinality({i \in DOMAIN queue : queue[i] = j})
                           = IF status[j] = "scheduled" /\ grow.job # j THEN 1 ELSE 0
                      /\ Cardinality({i \in DOMAIN timerEvents : timerEvents[i] = j})
                           = IF status[j] = "deferred" THEN 1 ELSE 0
                      /\ j \in cache => status[j] = "undefined"
    BY DEF JobsLinked
  <2>1. /\ j \in Queued <=> status[j] = "scheduled" /\ grow.job # j
        /\ j \in Timed <=> status[j] = "deferred"
    BY DEF Queued, Timed
  <2>2. queue \in Seq(Jobs) /\ timerEvents \in Seq(Jobs) /\ Links
    BY <1>2 DEF LInv, IInv, Typed
  <2>3. /\ Cardinality({i \in DOMAIN queue : queue[i] = j}) = IF j \in Queued THEN 1 ELSE 0
        /\ Cardinality({i \in DOMAIN timerEvents : timerEvents[i] = j})
             = IF j \in Timed THEN 1 ELSE 0
    BY <1>1, <2>2 DEF Links
  <2> QED  BY <2>1, <2>2, <2>3 DEF Links
<1>3. Init => LInv
  BY InvInit, LinksInit DEF LInv
<1> QED  BY <1>2, <1>3, LinksStep, PTL DEF Spec

-----------------------------------------------------------------------------
(* The pool implements PoolJobs. Only the first events of the timer list   *)
(* are due, and unlinking or adding a job must keep the others so.         *)

First(s, n, j) == \E i \in 1..n : s[i] = j

LEMMA FirstRemoved ==
  ASSUME NEW s \in Seq(Jobs), Once(s), NEW n \in 0..Len(s), NEW j, NEW x,
         NEW m, m = IF First(s, n, j) THEN n - 1 ELSE n
  PROVE  First(RemoveFirst(s, j), m, x) <=> First(s, n, x) /\ x # j
<1>1. CASE RemoveFirst(s, j) = s /\ \A i \in 1..Len(s) : s[i] # j
  BY <1>1 DEF First
<1>2. ASSUME NEW k \in 1..Len(s), s[k] = j, RemoveFirst(s, j) = RemoveAt(s, k)
      PROVE  First(RemoveFirst(s, j), m, x) <=> First(s, n, x) /\ x # j
  <2> DEFINE t == RemoveAt(s, k)
  <2>1. \A i \in 1..Len(s) - 1 : t[i] = IF i < k THEN s[i] ELSE s[i + 1]
    BY RemoveAtIs
  <2> HIDE DEF t
  <2>2. \A i \in 1..Len(s) : s[i] = j => i = k
    BY <1>2 DEF Once
  <2>3. CASE k <= n
    <3>1. m = n - 1
      BY <1>2, <2>3 DEF First
    <3>2. ASSUME NEW i \in 1..m, t[i] = x
          PROVE  First(s, n, x) /\ x # j
      <4>1. CASE i < k
        BY <2>1, <2>2, <3>1, <3>2, <4>1 DEF First
      <4>2. CASE ~(i < k)
        <5>1. i + 1 \in 1..n /\ i + 1 # k /\ i \in 1..Len(s) - 1
          BY <3>1, <4>2
        <5>2. s[i + 1] = x
          BY <2>1, <3>2, <4>2, <5>1
        <5>3. i + 1 \in 1..Len(s)
          BY <5>1
        <5> QED  BY <2>2, <5>1, <5>2, <5>3 DEF First
      <4> QED  BY <4>1, <4>2
    <3>3. ASSUME NEW i \in 1..n, s[i] = x, x # j
          PROVE  First(t, m, x)
      <4>1. CASE i < k
        <5>1. i \in 1..m /\ t[i] = x
          BY <2>1, <2>3, <3>1, <3>3, <4>1
        <5> QED  BY <5>1 DEF First
      <4>2. CASE ~(i < k)
        <5>1. i - 1 \in 1..m /\ ~(i - 1 < k) /\ (i - 1) + 1 = i
          BY <1>2, <2>3, <3>1, <3>3, <4>2
        <5>2. t[i - 1] = x
          BY <2>1, <3>1, <3>3, <5>1
        <5> QED  BY <5>1, <5>2 DEF First
      <4> QED  BY <4>1, <4>2
    <3> QED  BY <1>2, <3>2, <3>3 DEF First, t
  <2>4. CASE n < k
    <3>1. ~First(s, n, j) /\ m = n
      BY <2>2, <2>4 DEF First
    <3>2. \A i \in 1..n : t[i] = s[i]
      BY <2>1, <2>4
    <3> QED  BY <1>2, <3>1, <3>2 DEF First, t
  <2> QED  BY <2>3, <2>4
<1> QED  BY <1>1, <1>2, RemoveFirstIs

LEMMA FirstInserted ==
  ASSUME NEW s \in Seq(Jobs), NEW j \in Jobs, NEW n \in 0..Len(s),
         NEW i \in n + 1 .. Len(s) + 1, NEW x
  PROVE  First(InsertAt(s, i, j), n, x) <=> First(s, n, x)
<1> DEFINE a == SubSeq(s, 1, i - 1)
           b == SubSeq(s, i, Len(s))
<1>1. a \in Seq(Jobs) /\ Len(a) = i - 1 /\ \A k \in 1..i - 1 : a[k] = s[k]
  BY SubSeqProperties
<1>2. b \in Seq(Jobs)
  BY SubSeqProperties
<1>3. InsertAt(s, i, j) = a \o <<j>> \o b
  BY DEF InsertAt
<1> HIDE DEF a, b
<1>4. \A k \in 1..i - 1 : (a \o <<j>> \o b)[k] = a[k]
  BY <1>1, <1>2
<1>5. \A k \in 1..n : InsertAt(s, i, j)[k] = s[k]
  BY <1>1, <1>3, <1>4
<1> QED  BY <1>5 DEF First

(* What is due is the first events; the thread that creates the pool finds *)
(* no job asked for.                                                       *)
Unasked == Creating => \A j \in Jobs : status[j] = "undefined"
PInv == LInv /\ Unasked

LEMMA DueIs ==
  /\ \A j : IsDue(j) <=> First(timerEvents, expired, j)
  /\ \A j : IsDue(j)' <=> First(timerEvents', expired', j)
BY DEF IsDue, First

LEMMA DueDeferred ==
  ASSUME LInv, NEW j \in Jobs, IsDue(j)
  PROVE  status[j] = "deferred"
BY DEF IsDue, LInv, IInv, Typed, Links, Listed, Timed

LEMMA PromiseActions ==
  ASSUME NEW j, NEW w
  PROVE
  /\ (Promise!vars' = Promise!vars) <=>
        Due' = Due /\ Later' = Later /\ Running' = Running /\ ShutdownStarted' = ShutdownStarted
  /\ Promise!Request(j) <=>
        /\ ~ShutdownStarted /\ ~ShutdownStarted' /\ Running' = Running
        /\ Due' = Due \cup {j} /\ Later' = Later \ {j}
  /\ Promise!Defer(j) <=>
        /\ ~ShutdownStarted /\ ~ShutdownStarted' /\ Running' = Running
        /\ Due' = Due \ {j} /\ Later' = Later \cup {j}
  /\ Promise!Elapse(j) <=>
        /\ j \in Later /\ Running' = Running /\ ShutdownStarted' = ShutdownStarted
        /\ Due' = Due \cup {j} /\ Later' = Later \ {j}
  /\ Promise!Withdraw(j) <=>
        /\ ~ShutdownStarted /\ ~ShutdownStarted' /\ Running' = Running /\ j \in Due \cup Later
        /\ Due' = Due \ {j} /\ Later' = Later \ {j}
  /\ Promise!Run(w, j) <=>
        /\ ~ShutdownStarted /\ ~ShutdownStarted' /\ j \in Due /\ Running[w] = NoJob
        /\ Due' = Due \ {j} /\ Later' = Later /\ Running' = [Running EXCEPT ![w] = j]
  /\ Promise!Return(w) <=>
        /\ Running[w] # NoJob /\ Running' = [Running EXCEPT ![w] = NoJob]
        /\ Due' = Due /\ Later' = Later /\ ShutdownStarted' = ShutdownStarted
  /\ Promise!Close <=>
        /\ ~ShutdownStarted /\ ShutdownStarted' /\ Running' = Running
        /\ Due' = {} /\ Later' = {}
<1> USE DEF ShutdownStarted
<1>1. (Promise!vars' = Promise!vars) <=>
        Due' = Due /\ Later' = Later /\ Running' = Running /\ ShutdownStarted' = ShutdownStarted
  BY DEF Promise!vars
<1>2. Promise!Request(j) <=>
        /\ ~ShutdownStarted /\ ~ShutdownStarted' /\ Running' = Running
        /\ Due' = Due \cup {j} /\ Later' = Later \ {j}
  BY DEF Promise!Request
<1>3. Promise!Defer(j) <=>
        /\ ~ShutdownStarted /\ ~ShutdownStarted' /\ Running' = Running
        /\ Due' = Due \ {j} /\ Later' = Later \cup {j}
  BY DEF Promise!Defer
<1>4. Promise!Elapse(j) <=>
        /\ j \in Later /\ Running' = Running /\ ShutdownStarted' = ShutdownStarted
        /\ Due' = Due \cup {j} /\ Later' = Later \ {j}
  BY DEF Promise!Elapse
<1>5. Promise!Withdraw(j) <=>
        /\ ~ShutdownStarted /\ ~ShutdownStarted' /\ Running' = Running /\ j \in Due \cup Later
        /\ Due' = Due \ {j} /\ Later' = Later \ {j}
  BY DEF Promise!Withdraw
<1>6. Promise!Run(w, j) <=>
        /\ ~ShutdownStarted /\ ~ShutdownStarted' /\ j \in Due /\ Running[w] = NoJob
        /\ Due' = Due \ {j} /\ Later' = Later /\ Running' = [Running EXCEPT ![w] = j]
  BY DEF Promise!Run
<1>7. Promise!Return(w) <=>
        /\ Running[w] # NoJob /\ Running' = [Running EXCEPT ![w] = NoJob]
        /\ Due' = Due /\ Later' = Later /\ ShutdownStarted' = ShutdownStarted
  BY DEF Promise!Return
<1>8. Promise!Close <=>
        /\ ~ShutdownStarted /\ ShutdownStarted' /\ Running' = Running
        /\ Due' = {} /\ Later' = {}
  BY DEF Promise!Close
<1> QED  BY <1>1, <1>2, <1>3, <1>4, <1>5, <1>6, <1>7, <1>8

(* Neither a thread that takes no job nor the timer's next round changes   *)
(* what is promised.                                                       *)
LEMMA SameJobs ==
  ASSUME UNCHANGED <<status, timerEvents, expired>>
  PROVE  Due' = Due /\ Later' = Later
BY DEF Due, Later, IsDue

LEMMA SameRunning ==
  ASSUME \/ worker' = worker
         \/ \E w \in Threads : \E v : /\ worker' = [worker EXCEPT ![w] = v]
                                       /\ worker[w].at # "executing" /\ v.at # "executing",
         WorkersTyped
  PROVE  Running' = Running
<1>1. CASE worker' = worker
  BY <1>1 DEF Running
<1>2. ASSUME NEW w \in Threads, NEW v, worker' = [worker EXCEPT ![w] = v],
             worker[w].at # "executing", v.at # "executing"
      PROVE  Running' = Running
  <2>1. \A u \in Threads : worker'[u] = IF u = w THEN v ELSE worker[u]
    BY <1>2 DEF WorkersTyped
  <2> QED  BY <1>2, <2>1 DEF Running
<1> QED  BY <1>1, <1>2

(* What a change of one job's status makes of the jobs asked for.          *)
LEMMA OneJob ==
  ASSUME LInv, NEW j \in Jobs, NEW x, status' = [status EXCEPT ![j] = x],
         \A i \in Jobs \ {j} : IsDue(i)' <=> IsDue(i)
  PROVE  /\ x = "scheduled" => Due' = Due \cup {j} /\ Later' = Later \ {j}
         /\ x = "deferred" /\ ~IsDue(j)' => Due' = Due \ {j} /\ Later' = Later \cup {j}
         /\ x \notin {"scheduled", "deferred"} /\ ~IsDue(j)'
              => Due' = Due \ {j} /\ Later' = Later \ {j}
<1>1. status'[j] = x /\ \A i \in Jobs \ {j} : status'[i] = status[i]
  BY DEF LInv, Links
<1> QED  BY <1>1 DEF Due, Later

(* A job leaves the timer list.                                            *)
LEMMA EventRemoved ==
  ASSUME LInv, NEW j \in Jobs, timerEvents' = RemoveFirst(timerEvents, j), expired' = NowDue(j)
  PROVE  /\ ~IsDue(j)'
         /\ \A i \in Jobs \ {j} : IsDue(i)' <=> IsDue(i)
<1>1. timerEvents \in Seq(Jobs) /\ expired \in 0..Len(timerEvents) /\ Once(timerEvents)
  BY DEF LInv, IInv, Typed, Links, Listed
<1>2. expired' = IF First(timerEvents, expired, j) THEN expired - 1 ELSE expired
  BY DueIs DEF NowDue
<1>3. \A i : First(timerEvents', expired', i) <=> First(timerEvents, expired, i) /\ i # j
  BY <1>1, <1>2, FirstRemoved
<1> QED  BY <1>3, DueIs

LEMMA UnaskedStep == PInv /\ [Next]_vars => PInv'
<1> SUFFICES ASSUME PInv, [Next]_vars, Creating' PROVE Unasked'
  BY LinksStep DEF PInv, Unasked
<1>1. LInv /\ IInv /\ Locked /\ NoWork
  BY DEF PInv, LInv, IInv
<1>2. Creating
  <2>1. CASE Owner
    BY <2>1 DEF Owner, CreateWorker, WorkersCreated, AwaitThread, Created, FinishDestroy,
                SignalShutdown, Creating
  <2>2. CASE Application
    BY <2>2 DEF Application, CreateJob, CreateRecyclableJob, Schedule, ScheduleDeferred,
                DeferralFails, TryCancel, RecycleJob, DestroyRecyclableJob, Dispose,
                SetMaxThreads, Destroy, SignalShutdown, Call, Creating, control
  <2>3. CASE FinishGrow \/ TimePasses \/ TimerTask \/ UNCHANGED vars
    BY <2>3 DEF FinishGrow, TimePasses, TimerTask, TimerFires, TimerLocks, DispatchExpired,
                TimerDone, vars, control, Creating
  <2>4. ASSUME NEW w \in Threads, Worker(w) PROVE Creating
    BY <2>4 DEF Worker, Start, Wake, LookForJob, SeeShutdown, Exit, CallbackReturns, NextJob,
                control, Creating
  <2> QED  BY <2>1, <2>2, <2>3, <2>4 DEF Next
<1>3. phase # "running" /\ queue = <<>> /\ lock = "free" /\ timerThread # "dispatching"
  BY <1>1, <1>2 DEF Creating, Locked, NoWork
<1>4. status' = status
  <2>1. CASE Owner
    BY <2>1 DEF Owner, CreateWorker, WorkersCreated, AwaitThread, Created, FinishDestroy
  <2>2. CASE Application
    BY <1>3, <2>2 DEF Application, CreateJob, CreateRecyclableJob, Schedule, ScheduleDeferred,
                DeferralFails, TryCancel, RecycleJob, DestroyRecyclableJob, Dispose,
                SetMaxThreads, Destroy, Call
  <2>3. CASE FinishGrow \/ TimePasses \/ TimerTask \/ UNCHANGED vars
    BY <1>3, <2>3 DEF FinishGrow, TimePasses, TimerTask, TimerFires, TimerLocks,
                DispatchExpired, TimerDone, vars
  <2>4. ASSUME NEW w \in Threads, Worker(w) PROVE status' = status
    BY <1>3, <2>4 DEF Worker, Start, Wake, LookForJob, TakeJob, SeeShutdown, Exit,
                CallbackReturns, NextJob
  <2> QED  BY <2>1, <2>2, <2>3, <2>4 DEF Next
<1> QED  BY <1>2, <1>4 DEF PInv, Unasked

(* The calls of the application.                                           *)
LEMMA CallImplements ==
  ASSUME PInv, Application
  PROVE  [Promise!Next]_Promise!vars
<1>1. /\ LInv /\ IInv /\ Typed /\ NoWork /\ WorkersTyped
      /\ status \in [Jobs -> Statuses]
      /\ \A j \in cache : status[j] = "undefined"
  BY DEF PInv, LInv, IInv, Links
<1>2. phase = "running" /\ ~ShutdownStarted
  <2>1. phase = "running"
    BY DEF Application, CreateJob, CreateRecyclableJob, Schedule, ScheduleDeferred, DeferralFails,
           TryCancel, RecycleJob, DestroyRecyclableJob, Dispose, SetMaxThreads, Destroy, Call
  <2> QED  BY <1>1, <2>1 DEF NoWork, Ending, ShutdownStarted
(* A job that is not asked for any more, or was not.                       *)
<1>3. ASSUME NEW j \in Jobs, NEW x \in Statuses \ {"scheduled", "deferred"},
             status' = [status EXCEPT ![j] = x], maxThreads' = maxThreads, worker' = worker,
             ~IsDue(j)', \A i \in Jobs \ {j} : IsDue(i)' <=> IsDue(i)
      PROVE  [Promise!Next]_Promise!vars
  <2>1. Due' = Due \ {j} /\ Later' = Later \ {j}
    BY <1>1, <1>3, OneJob
  <2>2. Running' = Running /\ ShutdownStarted' = ShutdownStarted
    BY <1>1, <1>3, SameRunning DEF ShutdownStarted
  <2>3. CASE j \in Due \cup Later
    <3>1. Promise!Withdraw(j)
      BY <1>2, <2>1, <2>2, <2>3, PromiseActions
    <3> QED  BY <3>1 DEF Promise!Next
  <2>4. CASE j \notin Due \cup Later
    <3>1. Due' = Due /\ Later' = Later
      BY <2>1, <2>4
    <3> QED  BY <2>2, <3>1, PromiseActions
  <2> QED  BY <2>3, <2>4
<1>4. ASSUME NEW j \in Jobs, CreateJob(j) \/ CreateRecyclableJob(j)
      PROVE  [Promise!Next]_Promise!vars
  <2>1. /\ status[j] \notin {"scheduled", "deferred"} /\ status' = [status EXCEPT ![j] = "ready"]
        /\ UNCHANGED <<timerEvents, expired, maxThreads, worker>>
    BY <1>1, <1>4 DEF CreateJob, CreateRecyclableJob, defers, counts
  <2>2. /\ ~IsDue(j)' /\ \A i \in Jobs \ {j} : IsDue(i)' <=> IsDue(i)
    BY <1>1, <2>1, DueDeferred DEF IsDue
  <2>3. "ready" \in Statuses \ {"scheduled", "deferred"}
    BY DEF Statuses
  <2> QED  BY <1>3, <2>1, <2>2, <2>3
<1>5. ASSUME NEW j \in Jobs,
             DeferralFails(j) \/ TryCancel(j) \/ RecycleJob(j) \/ DestroyRecyclableJob(j)
      PROVE  [Promise!Next]_Promise!vars
  <2>1. PICK x \in {"ready", "canceled", "undefined"} :
          /\ status' = [status EXCEPT ![j] = x] /\ UNCHANGED <<maxThreads, worker>>
          /\ timerEvents' = RemoveFirst(timerEvents, j) /\ expired' = NowDue(j)
    BY <1>5 DEF DeferralFails, TryCancel, RecycleJob, DestroyRecyclableJob, Dispose,
                RemoveTimerEvent, counts
  <2>2. x \in Statuses \ {"scheduled", "deferred"}
    BY DEF Statuses
  <2> QED  BY <1>1, <1>3, <2>1, <2>2, EventRemoved
<1>6. ASSUME NEW j \in Jobs, ScheduleDeferred(j)
      PROVE  [Promise!Next]_Promise!vars
  <2>1. /\ status' = [status EXCEPT ![j] = "deferred"] /\ UNCHANGED <<maxThreads, worker>>
        /\ expired' = NowDue(j)
    BY <1>6 DEF ScheduleDeferred, counts
  <2> DEFINE s == RemoveFirst(timerEvents, j)
  <2>2. s \in Seq(Jobs) /\ NowDue(j) \in 0..Len(s)
    BY <1>1, EventUnlinked
  <2>3. PICK i \in NowDue(j) + 1 .. Len(s) + 1 : timerEvents' = InsertAt(s, i, j)
    BY <1>6 DEF ScheduleDeferred
  <2>4. timerEvents \in Seq(Jobs) /\ expired \in 0..Len(timerEvents) /\ Once(timerEvents)
    BY <1>1 DEF LInv, IInv, Typed, Links, Listed
  <2>5. NowDue(j) = IF First(timerEvents, expired, j) THEN expired - 1 ELSE expired
    BY DueIs DEF NowDue
  <2>6. \A x : First(s, NowDue(j), x) <=> First(timerEvents, expired, x) /\ x # j
    BY <2>4, <2>5, FirstRemoved
  <2> HIDE DEF s
  <2>7. \A x : First(timerEvents', expired', x) <=> First(s, NowDue(j), x)
    BY <2>1, <2>2, <2>3, FirstInserted
  <2>8. ~IsDue(j)' /\ \A x \in Jobs \ {j} : IsDue(x)' <=> IsDue(x)
    BY <2>6, <2>7, DueIs
  <2>9. Due' = Due \ {j} /\ Later' = Later \cup {j}
    BY <1>1, <2>1, <2>8, OneJob
  <2>10. Running' = Running /\ ~ShutdownStarted'
    BY <1>1, <1>2, <2>1, SameRunning DEF ShutdownStarted
  <2>11. Promise!Defer(j)
    BY <1>2, <2>9, <2>10, PromiseActions
  <2> QED  BY <2>11 DEF Promise!Next
<1>7. ASSUME NEW j \in Jobs, NEW high \in BOOLEAN, Schedule(j, high)
      PROVE  [Promise!Next]_Promise!vars
  <2>1. /\ timerEvents' = RemoveFirst(timerEvents, j) /\ expired' = NowDue(j)
        /\ ScheduleInternal(j, high, RemoveFirst(queue, j), "app") /\ maxThreads' = maxThreads
    BY <1>7 DEF Schedule, RemoveTimerEvent
  <2>2. /\ status' = [status EXCEPT ![j] = "scheduled"]
        /\ \/ worker' = worker
           \/ \E w \in FreeThreads : worker' = [worker EXCEPT ![w] = At("starting")]
    BY <2>1 DEF ScheduleInternal
  <2>3. Due' = Due \cup {j} /\ Later' = Later \ {j}
    BY <1>1, <2>1, <2>2, EventRemoved, OneJob
  <2>4. Running' = Running
    BY <1>1, <2>2, SameRunning DEF FreeThreads, At
  <2>5. Promise!Request(j)
    BY <1>2, <2>1, <2>3, <2>4, PromiseActions DEF ShutdownStarted
  <2> QED  BY <2>5 DEF Promise!Next
<1>8. ASSUME NEW m \in 1..MaxThreads, SetMaxThreads(m)
      PROVE  [Promise!Next]_Promise!vars
  <2>1. UNCHANGED <<status, timerEvents, expired, worker>> /\ ~ShutdownStarted'
    <3>1. m # 0
      BY ThreadsAssumption
    <3> QED  BY <1>8, <3>1 DEF SetMaxThreads, defers, ShutdownStarted
  <2>2. Due' = Due /\ Later' = Later /\ Running' = Running
    BY <1>1, <2>1, SameJobs, SameRunning
  <2>3. ShutdownStarted' = ShutdownStarted
    BY <1>2, <2>1 DEF ShutdownStarted
  <2> QED  BY <2>2, <2>3, PromiseActions
<1>9. CASE Destroy
  <2>1. /\ \A j \in Jobs : status'[j] \notin {"scheduled", "deferred"}
        /\ expired' = 0 /\ worker' = worker /\ maxThreads' = 0
    BY <1>1, <1>9 DEF Destroy, SignalShutdown
  <2>2. Due' = {} /\ Later' = {}
    BY <2>1 DEF Due, Later, IsDue
  <2>3. Running' = Running /\ ShutdownStarted'
    BY <1>1, <2>1, SameRunning DEF ShutdownStarted
  <2>4. Promise!Close
    BY <1>2, <2>2, <2>3, PromiseActions
  <2> QED  BY <2>4 DEF Promise!Next
<1> QED  BY <1>4, <1>5, <1>6, <1>7, <1>8, <1>9 DEF Application

(* A worker takes the first job of the queue.                              *)
LEMMA TakeImplements ==
  ASSUME LInv, ~ShutdownStarted, NEW w \in Threads, NEW running,
         worker[w].at # "executing", TakeJob(w, running),
         UNCHANGED <<timerEvents, expired, maxThreads>>
  PROVE  [Promise!Next]_Promise!vars
<1> DEFINE j == Head(queue)
<1>1. /\ queue \in Seq(Jobs) /\ queue # <<>> /\ worker \in [Threads -> Threadlike]
      /\ status \in [Jobs -> Statuses] /\ Listed(queue, Queued)
  BY DEF LInv, IInv, Typed, WorkersTyped, Links, TakeJob
<1>2. j \in Jobs /\ status[j] = "scheduled"
  <2>1. j \in Jobs /\ j \in Queued
    BY <1>1, Taken
  <2> QED  BY <2>1 DEF Queued
<1>3. /\ status' = [status EXCEPT ![j] = "completed"]
      /\ worker' = [worker EXCEPT ![w] = [at |-> "executing", job |-> j, running |-> running]]
  BY DEF TakeJob
<1> HIDE DEF j
<1>4. \A i \in Jobs : (IsDue(i)' <=> IsDue(i)) /\ (IsDue(i) => i # j)
  BY <1>2, DueDeferred DEF IsDue
<1>5. /\ status'[j] = "completed" /\ \A i \in Jobs \ {j} : status'[i] = status[i]
  BY <1>1, <1>2, <1>3
<1>6. Due' = Due \ {j} /\ Later' = Later /\ j \in Due
  BY <1>2, <1>4, <1>5 DEF Due, Later
<1>7. Running[w] = NoJob /\ Running' = [Running EXCEPT ![w] = j]
  BY <1>1, <1>3 DEF Running
<1>8. Promise!Run(w, j)
  BY <1>6, <1>7, PromiseActions DEF ShutdownStarted
<1> QED  BY <1>2, <1>8 DEF Promise!Next

LEMMA WorkerImplements ==
  ASSUME LInv, NEW w \in Threads, Worker(w)
  PROVE  [Promise!Next]_Promise!vars
<1>1. /\ WorkersTyped /\ NoWork /\ worker \in [Threads -> Threadlike]
  BY DEF LInv, IInv, WorkersTyped
<1>2. UNCHANGED <<timerEvents, expired, maxThreads>>
  BY DEF Worker, Start, Wake, LookForJob, SeeShutdown, Exit, CallbackReturns, NextJob, defers,
         counts
<1>3. CASE \E running \in BOOLEAN : TakeJob(w, running) /\ (LookForJob(w) \/ NextJob(w))
  <2>1. worker[w].at # "executing"
    BY <1>3 DEF LookForJob, NextJob
  <2>2. ~ShutdownStarted
    BY <1>1, <1>3 DEF TakeJob, NoWork, ShutdownStarted
  <2> QED  BY <1>2, <1>3, <2>1, <2>2, TakeImplements
<1>4. CASE CallbackReturns(w)
  <2> DEFINE v == IF worker[w].running THEN At("returned") ELSE Gone
  <2>1. /\ worker[w].at = "executing" /\ worker' = [worker EXCEPT ![w] = v]
        /\ v.at # "executing" /\ status' = status
    BY <1>4 DEF CallbackReturns, At, Gone
  <2>2. Due' = Due /\ Later' = Later /\ ShutdownStarted' = ShutdownStarted
    BY <1>2, <2>1, SameJobs DEF ShutdownStarted
  <2> HIDE DEF v
  <2>3. Running' = [Running EXCEPT ![w] = NoJob]
    BY <1>1, <2>1 DEF Running
  <2>4. CASE Running[w] # NoJob
    <3>1. Promise!Return(w)
      BY <2>2, <2>3, <2>4, PromiseActions
    <3> QED  BY <3>1 DEF Promise!Next
  <2>5. CASE Running[w] = NoJob
    <3>1. Running' = Running
      BY <2>3, <2>5 DEF Running
    <3> QED  BY <2>2, <3>1, PromiseActions
  <2> QED  BY <2>4, <2>5
<1>5. CASE /\ Start(w) \/ Wake(w) \/ SeeShutdown(w) \/ Exit(w) \/ LookForJob(w) \/ NextJob(w)
           /\ status' = status
           /\ \E v : /\ worker' = [worker EXCEPT ![w] = v]
                    /\ worker[w].at # "executing" /\ v.at # "executing"
  <2>1. Running' = Running /\ ShutdownStarted' = ShutdownStarted
    BY <1>1, <1>2, <1>5, SameRunning DEF ShutdownStarted
  <2> QED  BY <1>2, <1>5, <2>1, SameJobs, PromiseActions
<1>6. LookForJob(w) \/ NextJob(w) =>
        \/ \E running \in BOOLEAN : TakeJob(w, running)
        \/ /\ status' = status
           /\ \E v : /\ worker' = [worker EXCEPT ![w] = v]
                    /\ worker[w].at # "executing" /\ v.at # "executing"
  <2>1. At("waiting").at # "executing" /\ Gone.at # "executing"
    BY DEF At, Gone
  <2>2. Dies(w) \in BOOLEAN
    BY DEF Dies
  <2>3. CASE LookForJob(w)
    BY <2>1, <2>2, <2>3 DEF LookForJob
  <2>4. CASE NextJob(w)
    BY <2>1, <2>4 DEF NextJob
  <2> QED  BY <2>3, <2>4
<1>7. Start(w) \/ Wake(w) \/ SeeShutdown(w) \/ Exit(w) =>
        /\ status' = status
        /\ \E v : /\ worker' = [worker EXCEPT ![w] = v]
                 /\ worker[w].at # "executing" /\ v.at # "executing"
  <2>1. /\ \A p : At(p).at = p
        /\ Gone.at # "executing"
    BY DEF At, Gone
  <2> QED  BY <2>1 DEF Start, Wake, SeeShutdown, Exit
<1> QED  BY <1>3, <1>4, <1>5, <1>6, <1>7 DEF Worker

(* Time passes, and the timer thread moves what is due.                    *)
LEMMA TimerImplements ==
  ASSUME LInv, TimePasses \/ TimerTask
  PROVE  [Promise!Next]_Promise!vars
<1>1. /\ WorkersTyped /\ timerEvents \in Seq(Jobs) /\ expired \in 0..Len(timerEvents)
      /\ Listed(timerEvents, Timed) /\ Once(timerEvents) /\ status \in [Jobs -> Statuses]
  BY DEF LInv, IInv, Typed, Links, Listed
<1>2. CASE TimePasses
  <2> DEFINE j == timerEvents[expired + 1]
  <2>1. /\ expired + 1 \in 1..Len(timerEvents) /\ expired' = expired + 1
        /\ UNCHANGED <<status, timerEvents, worker, maxThreads>>
    BY <1>1, <1>2 DEF TimePasses, counts
  <2>2. j \in Jobs /\ status[j] = "deferred"
    BY <1>1, <2>1 DEF Listed, Timed
  <2>3. ~IsDue(j)
    BY <1>1, <2>1 DEF Once, IsDue
  <2>4. \A i : IsDue(i)' <=> IsDue(i) \/ i = j
    BY <1>1, <2>1 DEF IsDue
  <2> HIDE DEF j
  <2>5. j \in Later /\ Due' = Due \cup {j} /\ Later' = Later \ {j}
    BY <2>1, <2>2, <2>3, <2>4 DEF Due, Later
  <2>6. Running' = Running /\ ShutdownStarted' = ShutdownStarted
    BY <1>1, <2>1, SameRunning DEF ShutdownStarted
  <2>7. Promise!Elapse(j)
    BY <2>5, <2>6, PromiseActions
  <2> QED  BY <2>2, <2>7 DEF Promise!Next
<1>3. CASE DispatchExpired
  <2> DEFINE j == Head(timerEvents)
  <2>1. /\ expired > 0 /\ timerEvents # <<>> /\ timerEvents' = Tail(timerEvents)
        /\ expired' = expired - 1 /\ maxThreads' = maxThreads
        /\ ScheduleInternal(j, FALSE, queue, "timer")
    <3>1. /\ expired > 0 /\ timerEvents' = Tail(timerEvents)
          /\ expired' = expired - 1 /\ maxThreads' = maxThreads
          /\ ScheduleInternal(j, FALSE, queue, "timer")
      BY <1>3 DEF DispatchExpired
    <3>2. timerEvents # <<>>
      BY <1>1, <3>1
    <3> QED  BY <3>1, <3>2
  <2>2. /\ status' = [status EXCEPT ![j] = "scheduled"]
        /\ \/ worker' = worker
           \/ \E w \in FreeThreads : worker' = [worker EXCEPT ![w] = At("starting")]
    BY <2>1 DEF ScheduleInternal
  <2>3. j = timerEvents[1] /\ \A i \in 1..expired - 1 : timerEvents'[i] = timerEvents[i + 1]
    BY <1>1, <2>1
  <2>4. j \in Jobs /\ IsDue(j)
    BY <1>1, <2>1, <2>3 DEF IsDue
  <2> HIDE DEF j
  <2>5. ASSUME NEW i, i # j
        PROVE  IsDue(i)' <=> IsDue(i)
    <3>1. ASSUME NEW k \in 1..expired, timerEvents[k] = i
          PROVE  IsDue(i)'
      <4>1. k - 1 \in 1..expired' /\ (k - 1) + 1 = k
        BY <1>1, <2>1, <2>3, <2>5, <3>1
      <4>2. timerEvents'[k - 1] = i
        BY <2>1, <2>3, <3>1, <4>1
      <4> QED  BY <4>1, <4>2 DEF IsDue
    <3>2. ASSUME NEW k \in 1..expired', timerEvents'[k] = i
          PROVE  IsDue(i)
      <4>1. k + 1 \in 1..expired /\ timerEvents[k + 1] = i
        BY <1>1, <2>1, <2>3, <3>2
      <4> QED  BY <4>1 DEF IsDue
    <3> QED  BY <3>1, <3>2 DEF IsDue
  <2>6. Due' = Due \cup {j} /\ Later' = Later \ {j}
    BY <2>2, <2>4, <2>5, OneJob
  <2>7. Due' = Due /\ Later' = Later
    BY <2>4, <2>6 DEF Due, Later
  <2>8. Running' = Running /\ ShutdownStarted' = ShutdownStarted
    BY <1>1, <2>1, <2>2, SameRunning DEF FreeThreads, At, ShutdownStarted
  <2> QED  BY <2>7, <2>8, PromiseActions
<1>4. CASE TimerFires \/ TimerLocks \/ TimerDone
  <2>1. UNCHANGED <<status, timerEvents, expired, worker, maxThreads>>
    BY <1>4 DEF TimerFires, TimerLocks, TimerDone, counts
  <2> QED  BY <1>1, <2>1, SameJobs, SameRunning, PromiseActions DEF ShutdownStarted
<1> QED  BY <1>2, <1>3, <1>4 DEF TimerTask

(* Creation and destruction.                                               *)
LEMMA OwnerImplements ==
  ASSUME PInv, Owner \/ FinishGrow \/ UNCHANGED vars
  PROVE  [Promise!Next]_Promise!vars
<1>1. /\ LInv /\ WorkersTyped /\ NoWork
      /\ UNCHANGED <<status, timerEvents, expired>>
  BY DEF PInv, LInv, IInv, Owner, CreateWorker, WorkersCreated, AwaitThread, Created,
         FinishDestroy, FinishGrow, vars, defers
<1>2. Due' = Due /\ Later' = Later
  BY <1>1, SameJobs
<1>3. Running' = Running
  <2>1. CASE CreateWorker
    BY <1>1, <2>1, SameRunning DEF CreateWorker, FreeThreads, At
  <2>2. CASE ~CreateWorker
    <3>1. worker' = worker
      BY <2>2 DEF Owner, WorkersCreated, AwaitThread, Created, FinishDestroy, FinishGrow, vars
    <3> QED  BY <1>1, <3>1, SameRunning
  <2> QED  BY <2>1, <2>2
<1>4. CASE Created /\ phase = "failing"
  <2>1. ~ShutdownStarted /\ ShutdownStarted'
    BY <1>1, <1>4 DEF Created, SignalShutdown, ShutdownStarted, NoWork, Ending
  <2>2. \A j \in Jobs : status[j] = "undefined"
    BY <1>4 DEF PInv, Unasked, Creating
  <2>3. \A j \in Jobs : ~IsDue(j)
    BY <1>1, <2>2, DueDeferred
  <2>4. Due = {} /\ Later = {}
    BY <2>2, <2>3 DEF Due, Later
  <2>5. Promise!Close
    BY <1>2, <1>3, <2>1, <2>4, PromiseActions
  <2> QED  BY <2>5 DEF Promise!Next
<1>5. CASE ~(Created /\ phase = "failing")
  <2>1. maxThreads' = maxThreads
    BY <1>5 DEF Owner, CreateWorker, WorkersCreated, AwaitThread, Created, FinishDestroy,
                FinishGrow, vars, counts
  <2> QED  BY <1>2, <1>3, <2>1, PromiseActions DEF ShutdownStarted
<1> QED  BY <1>4, <1>5

(* IotTaskPool_Schedule, _ScheduleDeferred and _TryCancel keep their word: a *)
(* job runs at most once for each time it was asked for, not before its time *)
(* has come, and never after it was canceled or the destruction has begun.   *)
THEOREM PoolKeepsPromise == Spec => PoolSpec
<1>1. Init => PInv /\ Promise!Init
  <2> SUFFICES ASSUME Init PROVE PInv /\ Promise!Init
    OBVIOUS
  <2>1. PInv
    BY InvInit, LinksInit DEF Init, PInv, LInv, Unasked
  <2>2. Due = {} /\ Later = {}
    BY DEF Init, Due, Later, IsDue
  <2>3. Running = [w \in Threads |-> NoJob]
    BY DEF Init, Running, Gone
  <2>4. ~ShutdownStarted
    BY ThreadsAssumption DEF Init, ShutdownStarted
  <2> QED  BY <2>1, <2>2, <2>3, <2>4 DEF Promise!Init
<1>2. PInv /\ [Next]_vars => [Promise!Next]_Promise!vars
  <2> SUFFICES ASSUME PInv, [Next]_vars PROVE [Promise!Next]_Promise!vars
    OBVIOUS
  <2>1. LInv
    BY DEF PInv
  <2> QED  BY <2>1, CallImplements, WorkerImplements, TimerImplements, OwnerImplements DEF Next
<1> QED  BY <1>1, <1>2, UnaskedStep, PTL DEF Spec, PoolSpec, Promise!Spec
=============================================================================

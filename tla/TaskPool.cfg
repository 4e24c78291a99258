SPECIFICATION FairSpec
CONSTANTS
  s1 = s1  r1 = r1  w1 = w1  w2 = w2  w3 = w3
  NoJob = NoJob
  Jobs = {s1, r1}
  StaticJobs = {s1}
  Threads = {w1, w2, w3}
  MinThreads = 1
  MaxThreads = 2
  RecycleLimit = 1
  Faults = {"create", "normal", "timerEvent"}
  MaxCalls = 5
CHECK_DEADLOCK FALSE
INVARIANTS JobsLinked ThreadsCounted NoLostWakeup ShutdownClean
PROPERTIES JobsRun DestroyFrees

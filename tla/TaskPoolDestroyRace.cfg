SPECIFICATION Spec
CONSTANTS
  s1 = s1  r1 = r1  w1 = w1  w2 = w2  w3 = w3
  NoJob = NoJob
  Jobs = {r1}
  StaticJobs = {}
  Threads = {w1, w2, w3}
  MinThreads = 1
  MaxThreads = 2
  RecycleLimit = 1
  Faults = {}
  MaxCalls = 3
CHECK_DEADLOCK FALSE
INVARIANTS PoolOutlivesUsers

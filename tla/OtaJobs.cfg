SPECIFICATION Spec
CONSTANTS
  j1 = j1  j2 = j2  j3 = j3  j4 = j4  j5 = j5
  b1 = b1  b2 = b2
  NoJob = NoJob  NoJobDoc = NoJobDoc  NoData = NoData  BadBlock = BadBlock
  Jobs = {j1, j2, j3, j4, j5}
  JobKind <- EveryKind
  Blocks = {b1, b2}
  QueueLen = 4
  NumBuffers = 2
  MaxMomentum = 1
  MaxRequest = 2
  ActivatedFlag = "Testing"
  Faults = {"createFile", "writeBlock", "closeFile", "setPlatform", "dataInterface", "activate", "timer"}
  MaxDocs = 2
  MaxNoise = 0
  MaxApi = 1
  MaxSessions = 1
SYMMETRY BlockSymmetry
CHECK_DEADLOCK FALSE
INVARIANTS VerifiedOwn
PROPERTIES SucceededEarned

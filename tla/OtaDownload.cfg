SPECIFICATION Spec
CONSTANTS
  j1 = j1  j2 = j2  j3 = j3  j4 = j4  j5 = j5
  b1 = b1  b2 = b2
  NoJob = NoJob  NoJobDoc = NoJobDoc  NoData = NoData  BadBlock = BadBlock
  Jobs = {j1}
  JobKind <- OneFirmware
  Blocks = {b1, b2}
  QueueLen = 4
  NumBuffers = 2
  MaxMomentum = 2
  MaxRequest = 2
  ActivatedFlag = "Testing"
  Faults = {"waitTimeout", "requestBlock", "timer"}
  MaxDocs = 2
  MaxNoise = 1
  MaxApi = 1
  MaxSessions = 2
SYMMETRY BlockSymmetry
CHECK_DEADLOCK FALSE
INVARIANTS DownloadAccounting DownloadAwake BuffersHeld SelfTestWatched
PROPERTIES FileSpec

SPECIFICATION FairSpec
CONSTANTS
  j1 = j1  j2 = j2  j3 = j3  j4 = j4  j5 = j5
  b1 = b1  b2 = b2
  NoJob = NoJob  NoJobDoc = NoJobDoc  NoData = NoData  BadBlock = BadBlock
  Jobs = {j1}
  JobKind <- OneFirmware
  Blocks = {b1, b2}
  QueueLen = 4
  NumBuffers = 2
  MaxMomentum = 1
  MaxRequest = 2
  ActivatedFlag = "Testing"
  Faults = {"requestJob", "initFile", "requestBlock", "reconnect", "timer"}
  MaxDocs = 1
  MaxNoise = 1
  MaxApi = 1
  MaxSessions = 1
CHECK_DEADLOCK FALSE
PROPERTIES DownloadEnds Resumes

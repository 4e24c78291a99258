SPECIFICATION Spec
CONSTANTS
  Demos = {"mutual", "shadow", "jobs", "defender"}
  MaxRuns = 2
  RetryMax = 1
  Slots = 2
  Echoes = 2
  Jobs = 1
  Actions = {"none", "exit", "publish", "unknown"}
  MaxNested = 2
  MaxLosses = 1
  Room = 19
  Parts <- SmallParts
  ArraySize = 2
  EntrySizes = {2}
  MaxEntries = 3
INVARIANTS SocketsSettled SuccessMeansAccepted ReportExact
PROPERTIES DemoEnds

SPECIFICATION FairSpec
CONSTANTS
  Interfaces = {"transport", "afr"}
  MaxSockets = 2
  MaxBytes = 3
CHECK_DEADLOCK FALSE
INVARIANTS SocketsAccounted UsersOwn NoByteLost
PROPERTIES CloseReturns

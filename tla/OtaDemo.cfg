SPECIFICATION Spec
CONSTANTS
  Kinds = {"mqtt", "http"}
  RetryMax = 1
  PoolSize = 3
  MaxSubs = 4
  MaxOps = 3
  MaxLosses = 1
  Urls <- SmallUrls
INVARIANTS CommandsAccounted DispatchedOnce QuietWhileReconnecting HttpSocketAccounted
PROPERTIES DemoReturns

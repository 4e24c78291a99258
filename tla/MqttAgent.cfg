SPECIFICATION FairSpec
CONSTANTS
  t1 = t1  t2 = t2  NoTask = NoTask
  Tasks = {t1, t2}
  Qos1Tasks = {t1}
  PublishCount = 1
  PoolSize = 2
  MaxSubscriptions = 2
  MaxAttempts = 1
  MaxDemos = 2
  MaxFailures = 1
  TasksCreated = TRUE
CHECK_DEADLOCK FALSE
INVARIANTS CommandsDistinct SubscriptionsOnce
PROPERTIES DemoEnds

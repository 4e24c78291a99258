SPECIFICATION Spec
CONSTANTS
  Networks <- AllNetworks
  Demos <- SmallDemos
  QueueSize = 3
INVARIANTS NoLostWakeup StateCurrent
PROPERTIES CleanupEnds

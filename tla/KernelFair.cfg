SPECIFICATION FairSpec
CONSTANTS
  MainTask = main
  NullTask = null
  Task = {main, null, a, b}
  Queue = {sync}
  NoTask = NoTask
  NoQueue = NoQueue
  MIN_PRIO = 0
  DEFAULT_PRIO = 2
  QUANTUM = 2
  MSPERTICK = 55
  TIME_MOD = 1024
  Prio = {2}
  Msecs = {0, 60, 1023}
  Calls = {"CreateTask", "Ready", "WaitQueue", "SignalQueue", "FlushQueue", "Delay"}
  MaxAtomic = 1
  MaxNest = 1
INVARIANTS TimeExact SignalledSucceeds
PROPERTIES TimeoutFires ReadyRuns

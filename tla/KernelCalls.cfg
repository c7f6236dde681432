SPECIFICATION MCSpec
CONSTANTS
  MainTask = main
  NullTask = null
  Task = {main, null, a, b}
  Queue = {sync}
  NoTask = NoTask
  NoQueue = NoQueue
  MIN_PRIO = 0
  DEFAULT_PRIO = 2
  QUANTUM = 1
  MSPERTICK = 55
  TIME_MOD = 1024
  Prio = {1, 2}
  Msecs = {60, 1023}
  Calls = {"CreateTask", "Ready", "Suspend", "SetPriority", "DeleteTask", "WaitQueue", "SignalQueue", "Atomic", "Send", "Receive"}
  MaxAtomic = 1
  MaxNest = 1
INVARIANTS TypeOK QueueDiscipline QueuesSorted CpuByRight SendersHaveReceiver NoMissedRendezvous NoFalseSuccess
PROPERTY AtomicKeepsCpu
SYMMETRY Created

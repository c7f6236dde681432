SPECIFICATION FiloSpec
CONSTANTS
  NF = 3
  Program = "filo"
  Task = {0, 1, 2}
  Cond = {0, 1, 2}
  mon = mon
  Sem = {mon}
  NoSem = NoSem
  NoTask = NoTask
  priority <- MCPriority
  InitValue <- MCInitValue
  monitorOf <- MCMonitorOf
  UINT_MOD = 4
INVARIANTS ForksExclusive

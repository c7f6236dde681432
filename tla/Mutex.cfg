SPECIFICATION MCSpec
CONSTANTS
  t1 = t1
  t2 = t2
  t3 = t3
  m1 = m1
  m2 = m2
  Task = {t1, t2, t3}
  Sem = {m1, m2}
  NoSem = NoSem
  NoTask = NoTask
  priority <- MCPriority
  InitValue <- MCInitValue
  UINT_MOD = 5
  MaxUse = 2
INVARIANTS MutualExclusion MutexOneToken
PROPERTY IsCountingSemaphore

SPECIFICATION MCSpec
CONSTANTS
  a = a
  b = b
  c = c
  Car = {a, b, c}
  dir <- MCDir
  pass_max = 1
  SENSOR1_POS = 1
  BARRIER_POS = 3
  ONEWAY_START = 4
  ONEWAY_END = 4
  SENSOR2_POS = 5
  ROAD_END = 6
  MaxKeys = 2
  w1 = w1
  w2 = w2
  r1 = r1
  r2 = r2
  Writer = {w1, w2}
  Reader = {r1, r2}
  FirstWriter = w1
  FirstReader = r1
  Message = {1, 2}
  Capacity = 2
  MaxSize = 3
  BUF_SIZE = 3
  nprod = 2
  ncons = 3
  MaxTyped = 2
  Created = {"g", "h"}
  OPS = 3
  NF = 4
  Program = "sfilo"
  Task = {0, 1, 2, 3}
  Cond = {0}
  mon = mon
  Sem = {mon}
  NoSem = NoSem
  NoTask = NoTask
  priority <- MCPriority
  InitValue <- MCInitValue
  monitorOf <- MCMonitorOf
  UINT_MOD = 4
INVARIANT NoEmbrace

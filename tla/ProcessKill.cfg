SPECIFICATION Spec
CONSTANTS
  Shell = {1}
  MaxPid = 4
  Priorities = {2}
  TIMESLOT = 1
  SLEEP = 3
  Features = {"kill", "spawn"}
INVARIANTS OneRunning WaitsForLiveChild KillIsComplete

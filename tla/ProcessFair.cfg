SPECIFICATION FairSpec
CONSTANTS
  Shell = {1, 2}
  MaxPid = 3
  Priorities = {0, 2}
  TIMESLOT = 1
  SLEEP = 2
  Features = {"sleep", "ctrlc"}
INVARIANT OneRunning
PROPERTY NoStarvation

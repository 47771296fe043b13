SPECIFICATION Spec
CONSTANTS
  Runners = {r1, r2}
  Clients = {c1}
  NoRunner = NoRunner
  TTL = 1
  Interval = 1
  MaxTasks = 2
  MaxTime = 4
  MaxFaults = 0
SYMMETRY RunnerSymmetry
PROPERTY ScheduledWhenDue
CHECK_DEADLOCK FALSE

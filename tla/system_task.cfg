SPECIFICATION Spec
CONSTANTS
  Runners = {r1, r2}
  Clients = {c1}
  NoRunner = NoRunner
  TTL = 1
  Interval = 1
  MaxTasks = 2
  MaxTime = 4
  MaxFaults = 1
SYMMETRY RunnerSymmetry
INVARIANTS TypeOK OneActiveRow ExecutedOnce LeaseHonoured
PROPERTY TerminalStable
CHECK_DEADLOCK FALSE

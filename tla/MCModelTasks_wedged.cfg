CONSTANTS
  m1 = m1
  x1 = x1
  x2 = x2
  Targets = {m1}
  NoTarget = NoTarget
  Txns = {x1, x2}
  MaxTasks = 1
  MaxAttempts = 1
  Size = 1
  MaxFaults = 0
SPECIFICATION FairSpec
PROPERTIES
  TaskSettles

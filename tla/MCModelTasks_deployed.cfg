CONSTANTS
  m1 = m1
  x1 = x1
  x2 = x2
  Targets = {m1}
  NoTarget = NoTarget
  Txns = {x1, x2}
  MaxTasks = 2
  MaxAttempts = 1
  Size = 0
  MaxFaults = 0
SPECIFICATION Spec
INVARIANTS
  DeployedIsNotDeleted

CONSTANTS
  m1 = m1
  x1 = x1
  x2 = x2
  Targets = {m1}
  NoTarget = NoTarget
  Txns = {x1}
  MaxTasks = 2
  MaxAttempts = 1
  Size = 1
  MaxFaults = 1
SPECIFICATION FairSpec
INVARIANTS
  TypeOK
  OneTaskLeased
PROPERTIES
  CompletionIsTrue
  IsLeasedWork
  TaskSettles

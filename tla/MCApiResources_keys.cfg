SPECIFICATION Spec
CONSTANTS
  Keys = {k1, k2}
  NoKey = NoKey
  CapabilitySets <- MCCapabilitySets
  Models = {m1}
  MaxCredentials = 2
  MaxDay = 0
  Requests = {x1, x2}
  MaxRequests = 3
SYMMETRY Symmetry
CHECK_DEADLOCK FALSE
INVARIANTS
  KeysDistinct

SPECIFICATION Spec
CONSTANTS
  Keys = {k1, k2}
  NoKey = NoKey
  CapabilitySets <- MCCapabilitySets
  Models = {m1}
  MaxCredentials = 2
  MaxDay = 1
  Requests = {x1, x2}
  MaxRequests = 3
SYMMETRY Symmetry
CHECK_DEADLOCK FALSE
INVARIANTS
  TypeOK
  KeysClashOnlyWhenMixed
  ManualModelStays
  IdleIsNotBlocked
PROPERTIES
  KeysMixOnlyByReentry
  CompletedSyncIsTrue
  HistoryIsKept

SPECIFICATION FairSpec
CONSTANTS
  g1 = g1
  g2 = g2
  g3 = g3
  d1 = d1
  d2 = d2
  Devices = {g1, g2, g3}
  NoDevice = NoDevice
  Slots = 2
  Offset = 2
  IndexLimit = 5
  Dirs = {d1, d2}
  NoDir = NoDir
  Worlds <- MCWorlds
  FirstWorlds <- MCFirstWorlds
  MaxTokens = 1
  Reports = {x1, x2}
  NoReportSlot = NoReportSlot
  MaxEvents = 2
INVARIANTS
  TypeOK
  DiscoveredIsServed
  GpuRowsAreDistinct
PROPERTIES
  RowKeepsDevice
  ReportIsMirrored
  DefaultStays
  ReportingIsOnline
  SilentIsOffline
  WorldIsShown

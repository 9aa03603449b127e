SPECIFICATION Spec
CONSTANTS
  Threads = {t1, t2}
  Clients = {c1, c2}
  Base = 4
  WordBytes = 2
  MinCap = 2
  Numbers = {6}
  Contents <- MCContents
  BufSizes = {3, 4}
  MaxItems = 3
  Writers = {w1, w2}
  Readers = {r1}
  Keys = {"a", "b"}
  Vals = {"1", "2"}
  Seed <- MCSeed
  MaxProps = 2
  Levels = 2
  MaxDepth = 4
  Coords = {0, 1, 2}
  Shifts = {1}
  MaxShift = 1
  Widths = {0, 2}
  MaxChanges = 1
  MaxWire = 4
  Views = {"v1", "v2"}
  Preserving = {"v2"}
  WhenDirty = {"v2"}
  MaxCalls = 3
INVARIANTS
  SerialUseIsSafe
  OnlyReconnectLeaks
  ReadsBack
  WriteOnceMap
  VmPointerKept
  PausedIsReleased
  PoliteViewsDoNotClash
PROPERTIES
  RestoreBringsBack
  CallsReturn
  RequestIsDrawn
CHECK_DEADLOCK FALSE

SPECIFICATION Spec
CONSTANTS
  RingLen = 2
  IndexMod = 4
  FrameCount = 4
  FrameSize = 2
  StartFrame = 2
  Lens = {0, 1}
  Counts = {0, 1, 2, 3, 5}
  Patient = TRUE
INVARIANTS
  TypeOK
  SplitKept
  AvailableReceived
PROPERTIES
  UnreadStable
CHECK_DEADLOCK FALSE

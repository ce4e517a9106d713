SPECIFICATION Spec
CONSTANTS
  RingLen = 2
  IndexMod = 4
  FrameCount = 4
  FrameSize = 2
  StartFrame = 2
  Lens = {1}
  Counts = {1, 2}
  Patient = TRUE
INVARIANTS
  OneOwner
CHECK_DEADLOCK FALSE

SPECIFICATION Spec
CONSTANTS
  FrameCount = 4
  UmemPages = 2
  MaxFree = 3
INVARIANTS
  SizesFit
CHECK_DEADLOCK FALSE

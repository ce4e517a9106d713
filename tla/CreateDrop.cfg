SPECIFICATION Spec
CONSTANTS
  FrameCount = 4
  UmemPages = 2
  MaxFree = 3
INVARIANTS
  TypeOK
  LiveIsBacked
  ReleasedOnce
  NothingLeaks
CHECK_DEADLOCK FALSE

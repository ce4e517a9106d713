SPECIFICATION FairSpec
CONSTANTS
  RingLen = 2
  IndexMod = 4
  FrameCount = 2
  FrameSize = 2
  Lens = {1}
  MaxSeek = 3
  MaxCommit = 2
  NeedWakeup = TRUE
  InterfaceMayGo = TRUE
  StoreBuffer = 0
INVARIANTS
  ReclaimBounded
  NoLostWakeup
PROPERTIES
  CallsReturn
  KickedIsSent
  FramesComeBack

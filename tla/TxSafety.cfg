SPECIFICATION Spec
CONSTANTS
  RingLen = 2
  IndexMod = 4
  FrameCount = 2
  FrameSize = 2
  Lens = {1, 2, 3}
  MaxSeek = 1
  MaxCommit = 5
  NeedWakeup = TRUE
  InterfaceMayGo = FALSE
  StoreBuffer = 2
INVARIANTS
  TypeOK
  FrameOwnership
  LentIsOurs
  KernelViews
PROPERTIES
  DescriptorsStable
  ImplementsFramePool

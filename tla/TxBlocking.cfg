SPECIFICATION Spec
CONSTANTS
  RingLen = 2
  IndexMod = 4
  FrameCount = 2
  FrameSize = 2
  Lens = {1}
  MaxSeek = 1
  MaxCommit = 2
  NeedWakeup = TRUE
  InterfaceMayGo = FALSE
  StoreBuffer = 0
PROPERTIES
  SendBlockingIsProcessed

SPECIFICATION Spec
CONSTANTS
  AddrBits = 2
  DatagramLen = 3
  Macs = {}
  NoAttr = NoAttr
  OtherAddrs <- MCOtherAddrs
  MaxLaunches = 3
  HdrLen = 3
  DataLen = 2
  TxRingLen = 3
CHECK_DEADLOCK FALSE
INVARIANTS
  TypeOK
  PassProgramCovers
  NothingLeft
  HeaderSent
PROPERTIES
  RemovedLast
  SetupEnds
  ServedEnds

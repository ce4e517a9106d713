SPECIFICATION Spec
CONSTANTS
  AddrBits = 2
  DatagramLen = 3
  Macs = {"m1", "m2"}
  NoAttr = NoAttr
  IfIndex = 1
  RouteTables <- MCRouteTables
  NeighTables <- MCNeighTables
  LinkTables <- MCLinkTables
  KernelRefuses = TRUE
INVARIANTS
  TypeOK
  CachesAreSound
  HopIsKernels
  GatewayIsBest

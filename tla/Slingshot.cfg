SPECIFICATION FairSpec
CONSTANTS
  Target = 6
  SegmentMax = 10
  Reassembled = 40
  CountMax = 3
  Overhead = 2
  Workloads <- MCWorkloads
  PongTicks = 1
  DeviceKey = TRUE
INVARIANTS
  TypeOK
  NothingLost
  ClosedAfterAll
  CursorCoversDelivery
  TwiceOnlyWithoutCursor
PROPERTIES
  AckTrimsReceived
  ImplementsDelivery
  EveryLineArrives
  SilenceIsNoticed
  
CHECK_DEADLOCK FALSE

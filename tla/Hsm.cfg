SPECIFICATION HsmSpec
CONSTANTS
  Client = {"a", "b"}
  OpsOf <- Everything
  Id = {1, 2, 3, 4}
  Datum <- Contents
  Offset = {0, 1}
  NvmCap = 3
  InitDir <- FreeOrFull
  MaxCalls = 1
  MaxFaults = 1
  CanStick = TRUE
  KeyId = {i1, i2}
  CacheCap = 2
  MaxKeys = 2
  MaxDepth = 2
  MaxLosses = 1
  CbClient = {"a", "b"}
  Owner = "a"
  Device = {"other"}
  TableSize = 1
  MaxBoxes = 1
INVARIANTS
  ListIsExact
  ReadIsWhole
  LossIsReported
  FrameOwnsSlot
  LeakIsTold
  ShimsFree
  RegistryIsConsistent
PROPERTIES
  CallsEnd
CHECK_DEADLOCK FALSE

SPECIFICATION Spec
CONSTANTS
  Role = {"reader", "writer"}
  PipeCap = 3
  FillMax = 3
  CallsOf <- BothWays
  MaxWrites = 1
  RecLen = 2
  ReadMax = 2
  Tickets <- ServerTickets
  MaxTamper = 1
INVARIANTS
  TruncationDetected
  CloseNotifyOnce
  CloseAfterFlush
  PendingReadWillWake
CHECK_DEADLOCK FALSE

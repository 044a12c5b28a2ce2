SPECIFICATION Spec
CONSTANTS
  Role = {"main"}
  PipeCap = 8
  FillMax = 8
  CallsOf <- OneWayPatient
  MaxWrites = 1
  RecLen = 2
  ReadMax = 1
  Tickets <- NoTickets
  MaxTamper = 0
INVARIANT CloseNotifyIsCleanEof
CHECK_DEADLOCK FALSE

SPECIFICATION FairSpec
CONSTANTS
  Role = {"main"}
  PipeCap = 4
  FillMax = 5
  CallsOf <- OneWay
  MaxWrites = 3
  RecLen = 3
  ReadMax = 1
  Tickets <- NoTickets
  MaxTamper = 0
INVARIANTS
  TypeOK
  Conservation
  NoSpuriousFailure
  PendingWillWake
PROPERTIES
  ImplementsByteStream
  CloseIsNoticed
  OutgoingCallsEnd
  FlushedIsDelivered
CHECK_DEADLOCK FALSE

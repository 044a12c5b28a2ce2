SPECIFICATION FairSpec
CONSTANTS
  Role = {"reader", "writer"}
  PipeCap = 1
  FillMax = 2
  CallsOf <- Split
  MaxWrites = 1
  RecLen = 2
  ReadMax = 2
  Tickets <- NoTickets
  MaxTamper = 0
PROPERTY OutgoingCallsEnd
CHECK_DEADLOCK FALSE

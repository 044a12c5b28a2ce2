SPECIFICATION FairSpec
CONSTANTS
  Role = {"main"}
  PipeCap = 2
  FillMax = 4
  Version = {"1.2", "1.3"}
  Script <- Scripts
  MsgLen = 3
  Judged <- MutualTls
  MayAbandon = TRUE
  MaxData = 1
INVARIANTS
  Conservation
  NoMutualWait
PROPERTIES
  HandshakeEnds
  BothEstablish
CHECK_DEADLOCK FALSE

SPECIFICATION FairSpec
CONSTANTS
  Role = {"main"}
  PipeCap = 4
  FillMax = 4
  Version = {"1.2"}
  Script <- Scripts
  MsgLen = 3
  Judged <- OnlyServerJudges
  MayAbandon = FALSE
  MaxData = 0
PROPERTY AlertReachesPeer
CHECK_DEADLOCK FALSE

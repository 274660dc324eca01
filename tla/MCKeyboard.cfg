SPECIFICATION FairSpec
CONSTANTS
  Letters = {"a"}
  Others = {}
  SlaveLines = {12}
  Masked2 = {9, 10, 11}
  Timer = TRUE
  Naps = {1}
  PanicNap = 1
  MaxKeys = 3
  MaxWire = 2
  MaxDepth = 2
  MaxTicks = 1
INVARIANTS KeysInOrder FirstControllerAcknowledged
PROPERTIES KeyIsSeen SleepEnds
CHECK_DEADLOCK FALSE

SPECIFICATION ConsoleSpec
CONSTANTS
  Letters = {"a"}
  Others = {"enter", "bs", "shift"}
  SlaveLines = {}
  Masked2 = {}
  Timer = FALSE
  Naps = {}
  PanicNap = 0
  MaxKeys = 4
  MaxWire = 1
  MaxDepth = 1
  MaxTicks = 0
  Width = 2
  Height = 2
  SegmentMax = 3
  PathSize = 3
  MaxJobs = 2
  Reads <- MCReads
  Writes <- MCWrites
  Packets <- MCPackets
INVARIANTS LineIsEdited ScreenShowsInput BranchesAgree WritesMayBeCut
CHECK_DEADLOCK FALSE

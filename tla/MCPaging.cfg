CONSTANTS
  Dirs = 3
  Entries = 2
  Group = 2
  TableRegions = {t1, t2}
  KernelTable = kt
  absent = absent
  CountMod = 3
  MaxRange = 3
SYMMETRY RegionSymmetry
SPECIFICATION Spec
INVARIANTS FramesExclusive FramesAccounted TablesCounted RangeNeverRefused
PROPERTY ImplementsVirtualMemory
CHECK_DEADLOCK FALSE

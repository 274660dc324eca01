CONSTANTS
  TotalBlocks = 8
  BlockBytes = 4
  RecordBytes = 1
  Chunk = 3
  Sizes = {0, 3, 5}
  Alignments = {1, 8}
SPECIFICATION Spec
INVARIANTS LiveDisjoint HeapConsistent
CHECK_DEADLOCK FALSE

CONSTANTS
  TotalBlocks = 11
  BlockBytes = 2
  RecordBytes = 1
  Chunk = 2
  Sizes = {1}
  Alignments = {1}
SPECIFICATION Spec
INVARIANT OnlyInvalidPointersPanic
CHECK_DEADLOCK FALSE

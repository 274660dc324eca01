CONSTANTS
  Programs <- MCPrograms
  PageBytes = 4
  TotalPages = 12
  KernelPages = 2
  HeapPages = 2
  StackBase = 9
  StackPages = 2
  BlockWords = 2
  DriverFiles <- MCDriverFiles
SPECIFICATION BootSpec
CHECK_DEADLOCK FALSE
INVARIANTS OnlyLostPagesStay RunningProgramIsMapped DriverPlaced
PROPERTY DriverLosesOnlyAsked

SPECIFICATION LoaderSpec
CONSTANTS
  Volumes <- MCVolumes
  Lba = 1
  ResSects = 3
  SectPerFat = 2
  SectPerClust = 2
  RootClust = 2
  FatItems = 4
  DirEnts = 2
  Units = 2
INVARIANTS KernelIsWhole WholeFileBoots
CHECK_DEADLOCK FALSE

SPECIFICATION Spec
CONSTANTS
  Lba = 1
  ResSects = 3
  SectPerFat = 2
  FatItems = 4
  SectPerClust = 2
  RootClust = 2
  Names <- MCNames
  LfnCnt <- MCLfnCnt
  SfnOf <- MCSfnOf
  DirEnts = 3
  Units = 2
  Handles = {1}
  FilePaths <- MCFilePaths
  DirPaths <- MCDirPaths
  Disks <- MCDisks
  Junk = {4}
  MaxSize = 5
  MaxLen = 2
  MaxCalls = 5
  MaxIO = 30
INVARIANTS VolumeConsistent FullOnlyWhenFull ReadsReturnContent
PROPERTIES ImplementsStore CutKeepsOthers
CHECK_DEADLOCK FALSE

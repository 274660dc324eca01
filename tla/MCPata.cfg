SPECIFICATION PataSpec
CONSTANTS
  Byte = 4
  Nibble = 2
  Spt = 3
  Heads = 2
  Channels = 2
  Setups <- MCSetups
  Lbas <- MCLbas
  MaxCalls = 2
INVARIANTS
  ReadsAddressed
  WritesAddressed
  FindsTheDisks
PROPERTY
  DriverReturns
CHECK_DEADLOCK FALSE

SPECIFICATION Spec
CONSTANTS
  NFds = 5
  Content <- MCContent
  Absent <- MCAbsent
  Rows = 2
  InputSize = 4
  LongNumber = 3
  ProgramMax = 2
  U32 = 4
  Vars <- MCVars
  NumberOf <- MCNumberOf
  Literals <- MCLiterals
  Assignments <- MCAssignments
  Lines <- MCLines
  MaxReads = 3
  MaxLines = 4
  MaxBacks = 1
CHECK_DEADLOCK FALSE
INVARIANTS DescriptorsApart ScreenShowsState ProgramConsistent
PROPERTY NothingAfterQuit

CONSTANTS
  Programs <- MCPrograms
  Values <- Word
  ErrValues = {1}
  Alu <- MCAlu
  NumRegs = 3
  NumSaved = 2
  MaxCallDepth = 2
  MaxDeadlines = 1
  MaxSteps = 6
  TimeLimit = 2
  Durations = {0, 2}
  NumIds = 3
  PoolSize = 3
  BaseWord = 8
  NumSpills = 1
  VramBytes = 1
  ConstPool <- MCConstPool
SPECIFICATION Spec
CHECK_DEADLOCK FALSE
INVARIANTS
  TypeOK
  ComputeBounded
  PanicOnlyOutOfPool
PROPERTIES
  CallsReturn
  StoresIsolated
  Terminates

CONSTANTS
  Names = {"A", "B", "C", "D"}
  Sizes = {0, 2, 3}
  NumClusters = 5
  FatPerSector = 3
  NumEntries = 3
  EntriesPerSector = 2
  MaxAlloc = 2
  MaxOps = 4
  MaxFaults = 1
SPECIFICATION Spec
CHECK_DEADLOCK FALSE
INVARIANTS
  TypeOK
  ChainsSound
  MirrorAgrees
PROPERTIES
  UpdatesAreAtomic
  CallEnds

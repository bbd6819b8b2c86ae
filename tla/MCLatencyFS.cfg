CONSTANTS
  Paths <- NamedPaths
  Contents = {"x", "y", "big"}
  TooLarge = {"big"}
  Short <- ShortNames
  Lower <- LowerNames
  Scripts = {"S.PUL"}
  ExportNames <- ToOwnName
  Defaults <- InitialFiles
  HostFiles <- HostDisks
  NumSlots = 4
  NumEntries = 5
  MaxOps = 5
SPECIFICATION Spec
CHECK_DEADLOCK FALSE
INVARIANTS
  UniqueNames
  RootFilesSurvive

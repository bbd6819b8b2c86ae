SPECIFICATION ToolSpec
CONSTANTS
  WordBits = 6
  ImmMax = 20
  MaxCode = 90
  MaxConsts = 6
  MaxVmSteps = 60
  MaxSpills = 2
  MaxTable = 8
  First16 <- MCFirst16
  RegisterLike = {"$r", "$ret", "$rate", "#f0", "#f1", "#f2", "#f3"}
  HostRegs = 20
  HostDepth = 8
  HostSteps = 200
  HostIds = 3
  HostSlots = 6
  HostSpills = 2
  HostVram = 2
  Replay = FALSE
  Crc <- MCCrc
  RefNative <- MCNative
  Effects <- Visible
  Translate <- Compile
  EstimateMax = 60
  Semantics <- Meaning
  Meant <- AsMeant
  Traced <- Followed
  Programs <- MCPrograms
  Binaries <- MCBinaries
INVARIANTS MeaningKept AcceptedIsLinear LoopsCounted
CHECK_DEADLOCK FALSE

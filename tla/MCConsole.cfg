CONSTANTS
  Chars = {"a", " "}
  Digits = {1, 3, 5}
  MaxLineLen = 3
  HistorySize = 2
  MaxExec = 3
  EditLine <- MCEditLine
  Bytes <- MCBytes
  Typed = {"a"}
  TabWidth = 2
  MaxBuf = 3
  Rows = 2
  PageLines = 2
  FastLines = 2
  Params <- MCParams
  Contents <- MCContents
  Junk <- MCJunk
SPECIFICATION ConsoleSpec
CHECK_DEADLOCK FALSE
INVARIANTS
  ConsoleTypeOK
  ScreenShowsLine
  ScreenShowsBuffer
PROPERTIES
  RecallIsFaithful
  OtherLinesKept

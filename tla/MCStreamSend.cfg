CONSTANTS
  Chunk = 3
  Sizes = {0, 1, 3, 8, 9}
  MaxSize = 8
  Allowance = 2
  SeqSpace = 4
  MaxTime = 6
  MaxFrames = 3
  MaxOthers = 3
SPECIFICATION Spec
CHECK_DEADLOCK FALSE
INVARIANTS
  PrefixOnWire
  AtMostOneLate
  FramesAccounted
PROPERTIES
  CallReturns

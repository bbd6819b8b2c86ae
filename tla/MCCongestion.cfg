CONSTANTS
  Rtts = {0, 1, 3, 8}
  ScriptRates = {10, 60, 511}
  Threshold = 4
  Floor = 20
  Step = 5
SPECIFICATION CcSpec
INVARIANTS
  RateBounded
PROPERTIES
  RateRecovers

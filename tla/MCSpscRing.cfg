CONSTANTS
  CAP = 3
  WORD = 6
  core0 = core0
  core1 = core1
  core2 = core2
  a = a
  b = b
  Items <- MCItems
  Default = a
  Producers = {core1}
  Consumers = {core2}
  Observers = {core0}
SPECIFICATION Spec
INVARIANTS
  TypeOK
  OccupancyBounded
  NoDataRace
PROPERTIES
  LenNeverOver
  FifoRefined

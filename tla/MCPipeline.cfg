CONSTANTS
  CAP = 2
  NumSlots = 3
  MaxFrame = 8
SPECIFICATION Spec
INVARIANTS
  InOrder
  IntactInWindow
  CountersAgree
PROPERTIES
  EveryFrameLeaves

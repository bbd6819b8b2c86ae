CONSTANTS
  CAP = 2
  NumSlots = 3
  MaxFrame = 8
SPECIFICATION Spec
INVARIANT SentFrameIntact

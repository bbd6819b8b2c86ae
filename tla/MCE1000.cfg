CONSTANTS
  NumTx = 2
  NumRx = 3
  Senders = {"core0", "core3"}
  SeqSpace = 3
  MaxPackets = 5
SPECIFICATION Spec
INVARIANTS
  PendingIntact
  WedgedOnlyWhenFull
PROPERTIES
  OnceAndInOrder
  StoredIsReturned

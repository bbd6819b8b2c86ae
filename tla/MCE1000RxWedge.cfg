CONSTANTS
  NumTx = 3
  NumRx = 3
  Senders = {"core3"}
  SeqSpace = 4
  MaxPackets = 5
SPECIFICATION Spec
INVARIANTS
  ReceiverAlive

SPECIFICATION Spec
CONSTANTS
  MaxBlocks = 1
  MaxTransfer = 1
  MaxReopens = 2
  RCV_BUFFERS = 1
  Senders = {s1, s2}
  MaxSends = 1
  MaxPackets = 2
  None = None
INVARIANTS
  SentInOrder
  DataStaysValid
PROPERTIES
  SendReturns
CHECK_DEADLOCK FALSE

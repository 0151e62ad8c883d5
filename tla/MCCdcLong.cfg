SPECIFICATION Spec
CONSTANTS
  MaxBlocks = 2
  MaxTransfer = 2
  MaxReopens = 0
  RCV_BUFFERS = 2
  Senders = {vStepperTask}
  MaxSends = 0
  MaxPackets = 1
  None = None
INVARIANTS
  ReceivedInOrder
CHECK_DEADLOCK FALSE

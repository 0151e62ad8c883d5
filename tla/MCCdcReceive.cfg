SPECIFICATION Spec
CONSTANTS
  MaxBlocks = 4
  MaxTransfer = 1
  MaxReopens = 0
  RCV_BUFFERS = 2
  Senders = {vStepperTask}
  MaxSends = 1
  MaxPackets = 1
  None = None
INVARIANTS
  TypeOK
  ReceivedInOrder
  PoolConserved
  ConfigurationServed
PROPERTIES
  AllReceived
CHECK_DEADLOCK FALSE

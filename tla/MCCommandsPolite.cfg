SPECIFICATION Spec
CONSTANTS
  MaxLines = 5
  MaxUnread = 2
  Pauses = FALSE
INVARIANTS
  TypeOK
  InOrderOnce
  CommandHeld
  OKMeansDone
PROPERTIES
  ImplementsService
CHECK_DEADLOCK FALSE

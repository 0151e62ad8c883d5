SPECIFICATION Spec
CONSTANTS
  MaxLines = 2
  MaxUnread = 2
  Pauses = TRUE
INVARIANTS
  InOrderOnce
CHECK_DEADLOCK FALSE

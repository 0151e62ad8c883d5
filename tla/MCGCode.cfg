\* Every pair of lines, cut into packets anywhere.
SPECIFICATION Spec
CONSTANTS
  Lines <- MCLines
  MaxLines = 2
  MaxPacket = 20
  Places = 4
  Stack <- MCStack
  Garbage <- MCGarbage
INVARIANTS
  TypeOK
  CommandsWereSent
  CoordinatesRead
PROPERTIES
  WholeLineRead
CHECK_DEADLOCK FALSE

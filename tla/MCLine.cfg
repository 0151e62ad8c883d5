\* Three lines between the points of a small table.
SPECIFICATION Spec
CONSTANTS
  Q = 2
  Half = 840
  MaxLines = 3
  Xs = {0, 2, 4, 12}
  Ys = {0, 1, 3, 7}
  Track <- MCTrack
  Rails <- MCRails
  Scale <- MCScale
  Home <- MCHome
  Targets <- MCTargets
INVARIANTS
  TypeOK
  ErrorBound
  OnTheLine
  LineIInv
  DriftBound
  CountedStepsDriven
PROPERTIES
  LineEnds
CHECK_DEADLOCK FALSE

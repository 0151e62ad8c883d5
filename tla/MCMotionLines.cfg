\* Three lines after calibration, one of which may end on the Start switch of x.
SPECIFICATION Spec
CONSTANTS
  Exclusive = TRUE
  EarlyG1 = FALSE
  TrackX = 9
  TrackY = 7
  AreaXmm = 2
  AreaYmm = 3
  Overtravel = 2
  FirstBoot = 4
  LastBoot = 2
  Xs = {0, 1, 8}
  Ys = {0, 1, 2}
  Q = 2
  Half = 840
  MaxLines = 3
  Tasks <- MCTasks
  Track <- MCTrack
  Rails <- MCRails
  Boot <- MCBoot
  Targets <- MCTargets
PROPERTIES
  ImplementsLine
CHECK_DEADLOCK FALSE

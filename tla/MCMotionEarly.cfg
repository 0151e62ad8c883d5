\* A G1 may arrive while vCalibrate runs.
SPECIFICATION Spec
CONSTANTS
  Exclusive = FALSE
  EarlyG1 = TRUE
  TrackX = 5
  TrackY = 3
  AreaXmm = 2
  AreaYmm = 2
  Overtravel = 2
  FirstBoot = 3
  LastBoot = 2
  Xs = {0, 3}
  Ys = {0, 2}
  Q = 1
  Half = 420
  MaxLines = 1
  Tasks <- MCTasks
  Track <- MCTrack
  Rails <- MCRails
  Boot <- MCBoot
  Targets <- MCTargets
PROPERTIES
  CallReturns
CHECK_DEADLOCK FALSE

\* Every pair of power-up positions, also beyond the switches; one line.
SPECIFICATION Spec
CONSTANTS
  Exclusive = TRUE
  EarlyG1 = FALSE
  TrackX = 5
  TrackY = 3
  AreaXmm = 2
  AreaYmm = 2
  Overtravel = 2
  FirstBoot = 1
  LastBoot = 6
  Xs = {0, 3}
  Ys = {0, 2}
  Q = 2
  Half = 420
  MaxLines = 1
  Tasks <- MCTasks
  Track <- MCTrack
  Rails <- MCRails
  Boot <- MCBoot
  Targets <- MCTargets
INVARIANTS
  MotionTypeOK
  CalibrationMeasuresTrack
PROPERTIES
  DriverDiscipline
  CalibrationEnds
CHECK_DEADLOCK FALSE

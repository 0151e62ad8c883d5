\* The announced table of 340 by 300 mm on axes of 1000 and 900 steps.
SPECIFICATION Spec
CONSTANTS
  Exclusive = TRUE
  EarlyG1 = FALSE
  TrackX = 1000
  TrackY = 900
  AreaXmm = 340
  AreaYmm = 300
  Overtravel = 2
  FirstBoot = 3
  LastBoot = 1
  Xs = {0, 340}
  Ys = {0, 300}
  Q = 1
  Half = 420
  MaxLines = 1
  Tasks <- MCTasks
  Track <- MCTrack
  Rails <- MCRails
  Boot <- MCBoot
  Targets <- MCTargets
INVARIANTS
  AnnouncedAreaReached
CHECK_DEADLOCK FALSE

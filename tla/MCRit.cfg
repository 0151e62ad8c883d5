\* Two tasks that keep to one call at a time.
SPECIFICATION RitSpec
CONSTANTS
  vCalibrate = vCalibrate
  vStepperTask = vStepperTask
  Tasks = {vCalibrate, vStepperTask}
  Exclusive = TRUE
  TrackX = 2
  TrackY = 1
  Overtravel = 0
  Track <- MCTrack
  Rails <- MCRails
INVARIANTS
  RitTypeOK
  CallMovesOneStep
  QuietBetweenCalls
  IInv
PROPERTIES
  CallReturns

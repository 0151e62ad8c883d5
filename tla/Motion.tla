------------------------------- MODULE Motion -------------------------------
(***************************************************************************)
(* The two tasks that move the plotter, over the real stepping driver:     *)
(* vCalibrate, which finds the length of each axis, and vStepperTask with  *)
(* triggerMotors, which draws the lines of the G1 commands.  They share    *)
(* the driver, the direction pins and the calibration flags, without locks.*)
(***************************************************************************)
EXTENDS Rit, PlotMath

CONSTANTS
  AreaXmm, AreaYmm,  \* areaXmm and areaYmm
  Boot,              \* positions the carriages may be left in at power-up
  Targets,           \* the coordinates a G1 may name, in units of 1/Q mm
  MaxLines,          \* bound on the number of G1 commands
  EarlyG1            \* TRUE: the host may send a G1 while calibration runs

vCalibrate == "vCalibrate"
vStepperTask == "vStepperTask"

ASSUME MotionAssumption ==
  /\ Tasks = {vCalibrate, vStepperTask}
  /\ AreaXmm \in Nat \ {0} /\ AreaYmm \in Nat \ {0}
  /\ Boot \subseteq Rails
  /\ Targets \subseteq [Axes -> Int]
  /\ MaxLines \in Nat
  /\ EarlyG1 \in BOOLEAN

VARIABLES
  calPc, calAxis,  \* where vCalibrate stands, and for which axis
  taken,           \* xStepsTaken and yStepsTaken
  back,            \* i of the loop that backs off the End switch
  scale,           \* scaledX and scaledY
  boot,            \* history: where the carriages stood at power-up
  lpc,             \* where triggerMotors stands; "idle": waiting for a G1
  p0, p1,          \* x0, y0 and x1, y1
  d, major,        \* dx, dy and xDominating
  error, deltaError,
  exact, wholeAbs, \* as in Line
  hist             \* history of the line, as in Line

calVars == <<calPc, calAxis, taken, back, scale, boot>>
lineVars == <<lpc, p0, p1, d, major, error, deltaError, exact, wholeAbs, hist>>
motionVars == <<ritVars, calVars, lineVars>>

MotionTypeOK ==
  /\ RitTypeOK
  /\ calPc \in {"begin", "seek", "check", "back", "backstep", "done"}
  /\ calAxis \in Axes
  /\ taken \in [Axes -> Nat] /\ back \in Nat
  /\ scale \in [Axes -> Nat]
  /\ boot \in [Axes -> Boot]
  /\ lpc \in {"idle", "major", "accumulate", "minor", "repay"}
  /\ p0 \in [Axes -> Int] /\ p1 \in [Axes -> Int] /\ d \in [Axes -> Int]
  /\ major \in Axes
  /\ error \in Int /\ deltaError \in 0..One
  /\ exact \in BOOLEAN /\ wholeAbs \in BOOLEAN
  /\ hist \in [from : [Axes -> Int], error : Int, count : [Axes -> Nat],
               lines : 0..MaxLines]

NoSteps == [a \in Axes |-> 0]

(* where calibration should leave the carriage *)
Home == [a \in Axes |-> Kept(Track[a])]

MotionInit ==
  /\ RitInit /\ pos \in [Axes -> Boot]
  /\ calPc = "begin" /\ calAxis = "x"
  /\ taken = [a \in Axes |-> 0] /\ back = 0
  /\ scale = [a \in Axes |-> 0]
  /\ boot = pos
  /\ lpc = "idle"
  /\ p0 = [a \in Axes |-> 0] /\ p1 = [a \in Axes |-> 0]
  /\ d = [a \in Axes |-> 0] /\ major = "y"
  /\ error = Half /\ deltaError = 0
  /\ exact = TRUE /\ wholeAbs \in BOOLEAN
  /\ hist = [from |-> Home, error |-> Half, count |-> NoSteps, lines |-> 0]

-----------------------------------------------------------------------------
(* Scheduling: vCalibrate has the higher priority, so vStepperTask runs     *)
(* only while vCalibrate is blocked on the semaphore or gone.              *)

CalibrateBlocked ==
  calPc = "done" \/ (pc[vCalibrate] = "wait" /\ sbRIT = 0)

MayRun(t) == TaskMayRun /\ (t = vStepperTask => CalibrateBlocked)

InCall(t) == MayRun(t) /\ Inside(t) /\ UNCHANGED <<calVars, lineVars>>

-----------------------------------------------------------------------------
(* vCalibrate.                                                             *)

CalGoto(l) == calPc' = l

SetDirections(dirs) ==
  /\ dirPin' = dirs
  /\ UNCHANGED <<swVars, irqVars, motorVars, calibrated>>

CalBegin ==
  /\ calPc = "begin" /\ MayRun(vCalibrate) /\ CalGoto("seek")
  /\ SetDirections([a \in Axes |-> TRUE])
  /\ UNCHANGED <<calAxis, taken, back, scale, boot, lineVars>>

(* xStepsTaken++; RIT_start(2, 0, ...) *)
CalSeek ==
  /\ calPc = "seek" /\ MayRun(vCalibrate) /\ CalGoto("check")
  /\ Call(vCalibrate, calAxis)
  /\ taken' = [taken EXCEPT ![calAxis] = @ + 1]
  /\ UNCHANGED <<calAxis, back, scale, boot, lineVars>>

(* Mutation: the axes alternate although one is calibrated. *)
NextAxisAlternates(cal) ==
  IF \A a \in Axes : cal[a]
    THEN CalGoto("done") /\ UNCHANGED calAxis
    ELSE CalGoto("seek") /\ calAxis' = Other(calAxis)

(* The loop goes on with an axis that is not calibrated, x and y in turn,   *)
(* and ends when there is none.                                            *)
NextAxis(cal) ==
  IF \A a \in Axes : cal[a]
    THEN CalGoto("done") /\ UNCHANGED calAxis
    ELSE CalGoto("seek")
         /\ calAxis' = IF cal[Other(calAxis)] THEN calAxis ELSE Other(calAxis)

CalChecks == calPc = "check" /\ pc[vCalibrate] = "idle" /\ MayRun(vCalibrate)

(* Mutations: the count is not reset; the direction is not changed. *)
CalAtStartCountsOn ==
  /\ CalChecks /\ LimitStart(pos, calAxis)
  /\ SetDirections([dirPin EXCEPT ![calAxis] = FALSE])
  /\ NextAxis(calibrated)
  /\ UNCHANGED <<taken, back, scale, boot, lineVars>>

CalAtStartRunsOn ==
  /\ CalChecks /\ LimitStart(pos, calAxis)
  /\ SetDirections(dirPin)
  /\ taken' = [taken EXCEPT ![calAxis] = 0]
  /\ NextAxis(calibrated)
  /\ UNCHANGED <<back, scale, boot, lineVars>>

(* Start is closed: turn round and count from here *)
CalAtStart ==
  /\ CalChecks /\ LimitStart(pos, calAxis)
  /\ SetDirections([dirPin EXCEPT ![calAxis] = FALSE])
  /\ taken' = [taken EXCEPT ![calAxis] = 0]
  /\ NextAxis(calibrated)
  /\ UNCHANGED <<back, scale, boot, lineVars>>

CalAtEnd ==
  /\ CalChecks /\ ~LimitStart(pos, calAxis) /\ LimitEnd(pos, calAxis)
  /\ back' = 0 /\ CalGoto("back")
  /\ UNCHANGED <<ritVars, calAxis, taken, scale, boot, lineVars>>

CalBetween ==
  /\ CalChecks /\ ~AtLimit(pos, calAxis)
  /\ NextAxis(calibrated)
  /\ UNCHANGED <<ritVars, taken, back, scale, boot, lineVars>>

CalBack == calPc = "back" /\ pc[vCalibrate] = "idle" /\ MayRun(vCalibrate)

CalTurn ==
  /\ CalBack /\ back < Backoff(taken[calAxis]) /\ CalGoto("backstep")
  /\ SetDirections([dirPin EXCEPT ![calAxis] = TRUE])
  /\ UNCHANGED <<calAxis, taken, back, scale, boot, lineVars>>

CalBackStep ==
  /\ calPc = "backstep" /\ MayRun(vCalibrate) /\ CalGoto("back")
  /\ Call(vCalibrate, calAxis)
  /\ back' = back + 1
  /\ UNCHANGED <<calAxis, taken, scale, boot, lineVars>>

(* The y side of the table scales x and the x side scales y. *)
Divisor(a) == IF a = "x" THEN AreaYmm ELSE AreaXmm

CalFinish ==
  /\ CalBack /\ back >= Backoff(taken[calAxis])
  /\ taken' = [taken EXCEPT ![calAxis] = Kept(@)]
  /\ scale' = [scale EXCEPT ![calAxis] = taken'[calAxis] \div Divisor(calAxis)]
  /\ calibrated' = [calibrated EXCEPT ![calAxis] = TRUE]
  /\ NextAxis(calibrated')
  /\ UNCHANGED <<swVars, irqVars, motorVars, dirPin, back, boot, lineVars>>

CalStep ==
  \/ CalBegin \/ CalSeek \/ CalAtStart \/ CalAtEnd \/ CalBetween
  \/ CalTurn \/ CalBackStep \/ CalFinish
  \/ InCall(vCalibrate)

-----------------------------------------------------------------------------
(* vStepperTask and triggerMotors.                                         *)

Distance(c0, c1) == [a \in Axes |-> Abs((c1[a] - c0[a]) * scale[a], wholeAbs)]

G1(c) ==
  LET dist == Distance(p0, c)
  IN  /\ lpc = "idle" /\ MayRun(vStepperTask)
      /\ hist.lines < MaxLines
      /\ EarlyG1 \/ calPc = "done"
      /\ lpc' = "major"
      /\ p1' = c
      /\ d' = dist
      /\ SetDirections([a \in Axes |-> p0[a] < c[a]])
      /\ major' = Dominating(dist)
      /\ deltaError' = DeltaError(dist)
      /\ hist' = [from |-> pos, error |-> error, count |-> NoSteps,
                  lines |-> hist.lines + 1]
      /\ UNCHANGED <<calVars, p0, error, exact, wholeAbs>>

AtLoc(l) == lpc = l /\ pc[vStepperTask] = "idle" /\ MayRun(vStepperTask)

Drive(a) ==
  /\ Call(vStepperTask, a)
  /\ hist' = [hist EXCEPT !.count[a] = @ + 1]
  /\ UNCHANGED <<calVars, p0, p1, d, major, error, deltaError, exact, wholeAbs>>

DriveMajor ==
  AtLoc("major") /\ d[major] > 0 /\ lpc' = "accumulate" /\ Drive(major)

Shorten == d' = [d EXCEPT ![major] = @ - Q]

Accumulate ==
  /\ AtLoc("accumulate")
  /\ error' = error + deltaError
  /\ exact' = (exact /\ Dyadic(Distance(p0, p1)))
  /\ \E crosses \in Crosses(error, deltaError, exact') :
       IF crosses THEN lpc' = "minor" /\ UNCHANGED d
                  ELSE lpc' = "major" /\ Shorten
  /\ UNCHANGED <<ritVars, calVars, p0, p1, major, deltaError, wholeAbs, hist>>

DriveMinor == AtLoc("minor") /\ lpc' = "repay" /\ Drive(Other(major))

(* Mutation: error -= 1.0 is missing. *)
RepayForgotten ==
  /\ AtLoc("repay") /\ lpc' = "major"
  /\ Shorten
  /\ UNCHANGED <<ritVars, calVars, p0, p1, major, error, deltaError, exact,
                 wholeAbs, hist>>

Repay ==
  /\ AtLoc("repay") /\ lpc' = "major"
  /\ error' = error - One
  /\ Shorten
  /\ UNCHANGED <<ritVars, calVars, p0, p1, major, deltaError, exact, wholeAbs,
                 hist>>

Finish ==
  /\ AtLoc("major") /\ d[major] <= 0 /\ lpc' = "idle"
  /\ p0' = p1
  /\ UNCHANGED <<ritVars, calVars, p1, d, major, error, deltaError, exact,
                 wholeAbs, hist>>

DrawStep ==
  \/ DriveMajor \/ Accumulate \/ DriveMinor \/ Repay \/ Finish
  \/ InCall(vStepperTask)

-----------------------------------------------------------------------------
Handler == RIT_IRQHandler /\ UNCHANGED <<calVars, lineVars>>
TimerMatch == Match /\ UNCHANGED <<calVars, lineVars>>

MotionNext ==
  \/ Handler \/ TimerMatch
  \/ CalStep
  \/ \E c \in Targets : G1(c)
  \/ DrawStep

(* Both tasks run whenever nothing of higher priority does; vCalibrate ends  *)
(* and the handler always returns. When the host sends a G1 is its affair.  *)
Spec ==
  /\ MotionInit /\ [][MotionNext]_motionVars
  /\ WF_motionVars(Handler) /\ WF_motionVars(TimerMatch)
  /\ WF_motionVars(CalStep) /\ WF_motionVars(DrawStep)

-----------------------------------------------------------------------------
(* Properties.                                                             *)

(* What calibration counted is where the carriage stands: taken steps away  *)
(* from closing the Start switch, so that coordinate c lies c * scale steps *)
(* from home.  An axis left beyond its End switch at power-up is taken for  *)
(* calibrated at once; then its scale is 0 and it is never moved by a G1.   *)
CalibrationMeasuresTrack ==
  \A a \in Axes :
    calibrated[a] /\ hist.lines = 0 =>
      IF boot[a] <= Track[a]
        THEN pos[a] = Home[a] /\ taken[a] = Home[a]
        ELSE scale[a] = 0

(* Calibration ends, wherever the carriages were left. *)
CalibrationEnds == <>[](calPc = "done")

(* The tasks use the driver as the module Rit assumes of its callers: never *)
(* two calls at a time, directions and flags only changed between calls,    *)
(* no call for an axis the handler ignores.  Every property of Rit follows. *)
DriverDiscipline == RitSpec

(* Over the real driver triggerMotors is the loop of atomic steps of Line,  *)
(* interrupts and all: a step of Line happens at the handler's last toggle. *)
Driven ==
  \/ pc[vStepperTask] = "idle"
  \/ pc[vStepperTask] \in {"wait", "mask"} /\ \A a \in Axes : steps[a] = 0

LinePc ==
  IF Driven THEN lpc
  ELSE IF lpc = "accumulate" THEN "major"
  ELSE IF lpc = "repay" THEN "minor" ELSE lpc

LineHist ==
  IF Driven THEN hist ELSE [hist EXCEPT !.count[req[vStepperTask]] = @ - 1]

L == INSTANCE Line WITH
       Scale <- [a \in Axes |-> Home[a] \div Divisor(a)],
       Home <- Home,
       pc <- LinePc,
       dir <- IF calPc = "done" THEN dirPin ELSE [a \in Axes |-> TRUE],
       pos <- IF calPc = "done" THEN pos ELSE Home,
       hist <- LineHist

ImplementsLine == L!Spec

(* The M10 reply announces a table of 340 by 300 mm, areaXmm by areaYmm: a  *)
(* line inside it does not end on a limit switch.                          *)
AnnouncedAreaReached ==
  calPc = "done" => \A a \in Axes : ~AtLimit(pos, a)

=============================================================================

---------------------------- MODULE MotionProofs ----------------------------
(***************************************************************************)
(* vCalibrate and vStepperTask use the stepping driver as Rit assumes of   *)
(* its callers, provided that no G1 arrives before calibration is over; so *)
(* what is proved of Rit holds for the real tasks.  Their own variables    *)
(* keep their types in any case.                                           *)
(***************************************************************************)
EXTENDS Motion, RitProofs, PlotMathProofs

(* Who may be inside RIT_start, and what vCalibrate has still to do. *)
Handover ==
  /\ RitTypeOK
  /\ calAxis \in Axes /\ major \in Axes
  /\ calPc \in {"begin", "seek", "check", "back", "backstep", "done"}
  /\ lpc \in {"idle", "major", "accumulate", "minor", "repay"}
  /\ calPc = "done" => AllCalibrated /\ pc[vCalibrate] = "idle"
  /\ calPc # "done" => /\ ~calibrated[calAxis]
                       /\ lpc = "idle" /\ pc[vStepperTask] = "idle"
  /\ calPc \in {"begin", "seek", "backstep"} => pc[vCalibrate] = "idle"
  /\ lpc = "idle" => pc[vStepperTask] = "idle"

LEMMA TheTasks ==
  /\ vCalibrate \in Tasks /\ vStepperTask \in Tasks
  /\ vCalibrate # vStepperTask
  /\ \A t \in Tasks : t = vCalibrate \/ t = vStepperTask
  BY MotionAssumption DEF MotionAssumption, vCalibrate, vStepperTask

LEMMA OtherAxis ==
  ASSUME NEW a \in Axes
  PROVE  Other(a) \in Axes /\ Other(a) # a /\ Axes = {a, Other(a)}
  BY DEF Other, Axes

LEMMA HandoverInit == MotionInit => Handover
<1> SUFFICES ASSUME MotionInit PROVE Handover
  OBVIOUS
<1>1. RitTypeOK
  BY TypeInit DEF MotionInit
<1>2. "x" \in Axes /\ "y" \in Axes /\ ~calibrated["x"]
  BY DEF MotionInit, RitInit, Axes
<1>3. pc[vCalibrate] = "idle" /\ pc[vStepperTask] = "idle"
  BY TheTasks DEF MotionInit, RitInit
<1>4. QED
  BY <1>1, <1>2, <1>3 DEF MotionInit, Handover

(* When vCalibrate acts outside RIT_start nobody is in it. *)
LEMMA CalibrateAlone ==
  ASSUME Handover, calPc # "done", pc[vCalibrate] = "idle"
  PROVE  AllIdle /\ Serves(calAxis) /\ calAxis \in Axes
  BY TheTasks DEF Handover, AllIdle, Serves

LEMMA StepperAlone ==
  ASSUME Handover, calPc = "done", pc[vStepperTask] = "idle"
  PROVE  AllIdle /\ \A a \in Axes : Serves(a)
  BY TheTasks DEF Handover, AllIdle, Serves

(* A G1 is only taken after calibration, so the stepper has nothing to do   *)
(* before.                                                                 *)
LEMMA StepperAfterCalibration ==
  ASSUME Handover, AtLoc("major") \/ AtLoc("accumulate") \/ AtLoc("minor")
                     \/ AtLoc("repay")
  PROVE  calPc = "done" /\ pc[vStepperTask] = "idle" /\ TaskMayRun
  BY DEF Handover, AtLoc, MayRun

-----------------------------------------------------------------------------
(* Every step of the tasks is one that Rit allows, or none.                *)

LEMMA DirectionsAllowed ==
  ASSUME NEW t \in Tasks, pc[t] = "idle", AllIdle, TaskMayRun,
         NEW dirs \in [Axes -> BOOLEAN], SetDirections(dirs)
  PROVE  RitNext
<1>1. SetDirection(t, dirs)
  BY DEF SetDirections, SetDirection, Between
<1>2. QED
  BY <1>1 DEF RitNext, TaskStep

LEMMA CallAllowed ==
  ASSUME NEW t \in Tasks, AllIdle, NEW a \in Axes, Serves(a), Call(t, a)
  PROVE  RitNext
<1>1. Begin(t, a)
  BY DEF Begin
<1>2. QED
  BY <1>1 DEF RitNext, TaskStep

LEMMA InCallAllowed ==
  ASSUME NEW t \in Tasks, InCall(t)
  PROVE  RitNext
  BY DEF InCall, RitNext, TaskStep

LEMMA CalAllowed ==
  ASSUME Handover, CalStep
  PROVE  [RitNext]_ritVars
<1> USE TheTasks
<1>1. CASE CalBegin
  <2>1. calPc # "done" /\ pc[vCalibrate] = "idle" /\ TaskMayRun
    BY <1>1 DEF CalBegin, MayRun, Handover
  <2>2. QED
    BY <1>1, <2>1, CalibrateAlone, DirectionsAllowed DEF CalBegin
<1>2. CASE CalSeek
  <2>1. calPc # "done" /\ pc[vCalibrate] = "idle"
    BY <1>2 DEF CalSeek, Handover
  <2>2. QED
    BY <1>2, <2>1, CalibrateAlone, CallAllowed DEF CalSeek
<1>3. CASE CalAtStart
  <2>1. calPc # "done" /\ pc[vCalibrate] = "idle" /\ TaskMayRun
    BY <1>3 DEF CalAtStart, CalChecks, MayRun
  <2>2. [dirPin EXCEPT ![calAxis] = FALSE] \in [Axes -> BOOLEAN]
    BY DEF Handover, RitTypeOK
  <2>3. QED
    BY <1>3, <2>1, <2>2, CalibrateAlone, DirectionsAllowed DEF CalAtStart
<1>4. CASE CalAtEnd \/ CalBetween
  BY <1>4 DEF CalAtEnd, CalBetween
<1>5. CASE CalTurn
  <2>1. calPc # "done" /\ pc[vCalibrate] = "idle" /\ TaskMayRun
    BY <1>5 DEF CalTurn, CalBack, MayRun
  <2>2. [dirPin EXCEPT ![calAxis] = TRUE] \in [Axes -> BOOLEAN]
    BY DEF Handover, RitTypeOK
  <2>3. QED
    BY <1>5, <2>1, <2>2, CalibrateAlone, DirectionsAllowed DEF CalTurn
<1>6. CASE CalBackStep
  <2>1. calPc # "done" /\ pc[vCalibrate] = "idle"
    BY <1>6 DEF CalBackStep, Handover
  <2>2. QED
    BY <1>6, <2>1, CalibrateAlone, CallAllowed DEF CalBackStep
<1>7. CASE CalFinish
  <2>1. calPc # "done" /\ pc[vCalibrate] = "idle" /\ TaskMayRun
    BY <1>7 DEF CalFinish, CalBack, MayRun
  <2>2. AllIdle /\ calAxis \in Axes
    BY <2>1, CalibrateAlone
  <2>3. Calibrate(vCalibrate, calAxis)
    BY <1>7, <2>1, <2>2 DEF CalFinish, Calibrate, Between
  <2>4. QED
    BY <2>2, <2>3 DEF RitNext, TaskStep
<1>8. CASE InCall(vCalibrate)
  BY <1>8, InCallAllowed
<1>9. QED
  BY <1>1, <1>2, <1>3, <1>4, <1>5, <1>6, <1>7, <1>8 DEF CalStep

LEMMA DrawAllowed ==
  ASSUME Handover, DrawStep
  PROVE  [RitNext]_ritVars
<1> USE TheTasks
<1>0. major \in Axes
  BY DEF Handover
<1>1. CASE DriveMajor
  BY <1>0, <1>1, StepperAfterCalibration, StepperAlone, CallAllowed
     DEF DriveMajor, Drive
<1>2. CASE DriveMinor
  BY <1>0, <1>2, StepperAfterCalibration, StepperAlone, CallAllowed, OtherAxis
     DEF DriveMinor, Drive
<1>3. CASE Accumulate
  BY <1>3 DEF Accumulate
<1>4. CASE Repay \/ Finish
  BY <1>4 DEF Repay, Finish
<1>5. CASE InCall(vStepperTask)
  BY <1>5, InCallAllowed
<1>6. QED
  BY <1>1, <1>2, <1>3, <1>4, <1>5 DEF DrawStep

LEMMA StepAllowed ==
  ASSUME ~EarlyG1, Handover, [MotionNext]_motionVars
  PROVE  [RitNext]_ritVars
<1>1. CASE Handler \/ TimerMatch
  BY <1>1 DEF Handler, TimerMatch, RitNext
<1>2. CASE CalStep
  BY <1>2, CalAllowed
<1>3. ASSUME NEW c \in Targets, G1(c) PROVE RitNext
  <2>1. calPc = "done" /\ pc[vStepperTask] = "idle" /\ TaskMayRun
    BY <1>3 DEF G1, MayRun, Handover
  <2>2. SetDirections([a \in Axes |-> p0[a] < c[a]])
    BY <1>3 DEF G1
  <2>3. [a \in Axes |-> p0[a] < c[a]] \in [Axes -> BOOLEAN]
    OBVIOUS
  <2>4. QED
    BY <2>1, <2>2, <2>3, StepperAlone, DirectionsAllowed, TheTasks
<1>4. CASE DrawStep
  BY <1>4, DrawAllowed
<1>5. CASE UNCHANGED motionVars
  BY <1>5 DEF motionVars
<1>6. QED
  BY <1>1, <1>2, <1>3, <1>4, <1>5 DEF MotionNext

-----------------------------------------------------------------------------
(* The hand-over from one task to the other is kept.                       *)

(* The loop of vCalibrate ends exactly when both axes are calibrated. *)
LEMMA NextAxisType ==
  ASSUME calAxis \in Axes, NEW cal \in [Axes -> BOOLEAN], NextAxis(cal)
  PROVE  /\ calAxis' \in Axes
         /\ \/ calPc' = "done" /\ \A a \in Axes : cal[a]
            \/ calPc' = "seek" /\ ~cal[calAxis']
<1>1. CASE \A a \in Axes : cal[a]
  BY <1>1 DEF NextAxis, CalGoto
<1>2. CASE ~\A a \in Axes : cal[a]
  <2>1. calPc' = "seek"
        /\ calAxis' = IF cal[Other(calAxis)] THEN calAxis ELSE Other(calAxis)
    BY <1>2 DEF NextAxis, CalGoto
  <2>2. ~cal[calAxis] \/ ~cal[Other(calAxis)]
    BY <1>2, OtherAxis
  <2>3. QED
    BY <2>1, <2>2, OtherAxis
<1>3. QED
  BY <1>1, <1>2 DEF NextAxis, CalGoto

LEMMA CalHandover ==
  ASSUME Handover, CalStep, RitTypeOK'
  PROVE  Handover'
<1> USE TheTasks
<1>0. calPc # "done" => lpc = "idle" /\ pc[vStepperTask] = "idle"
  BY DEF Handover
<1>1. calPc # "done" /\ UNCHANGED lineVars
  <2>1. calPc = "done" => ~InCall(vCalibrate)
    BY DEF InCall, Inside, SetX, SetY, SetCount, Arm, Unmask, Take, Mask,
       Handover
  <2>2. QED
    BY <2>1 DEF CalStep, CalBegin, CalSeek, CalChecks, CalAtStart, CalAtEnd,
       CalBetween, CalBack, CalTurn, CalBackStep, CalFinish, InCall
<1>2. UNCHANGED <<lpc, major>> /\ lpc = "idle" /\ major \in Axes
  BY <1>0, <1>1 DEF lineVars, Handover
<1>3. pc'[vStepperTask] = pc[vStepperTask]
  BY DEF CalStep, CalBegin, CalSeek, CalChecks, CalAtStart, CalAtEnd, CalBetween,
     CalBack, CalTurn, CalBackStep, CalFinish, InCall, SetDirections, Call, Goto,
     Inside, SetX, SetY, SetCount, Arm, Unmask, Take, Mask, swVars, ritVars,
     Handover, RitTypeOK
<1>4. calAxis \in Axes /\ ~calibrated[calAxis] /\ RitTypeOK
  BY <1>1 DEF Handover
(* the axis and the flags stay, and so does vCalibrate's place in the loop   *)
(* unless it moves on with no call of its own under way                    *)
<1>5. \/ /\ UNCHANGED <<calAxis, calibrated>>
         /\ calPc' \in {"begin", "seek", "check", "back", "backstep"}
         /\ calPc' \in {"begin", "seek", "backstep"} => pc'[vCalibrate] = "idle"
      \/ /\ NextAxis(calibrated') /\ pc'[vCalibrate] = "idle"
  <2>1. CASE CalBegin
    BY <2>1, <1>4 DEF CalBegin, CalGoto, SetDirections, swVars, Handover
  <2>2. CASE CalSeek
    BY <2>2, <1>4 DEF CalSeek, CalGoto, Call
  <2>3. CASE CalAtStart
    BY <2>3 DEF CalAtStart, CalChecks, SetDirections, swVars, NextAxis, CalGoto
  <2>4. CASE CalAtEnd
    BY <2>4 DEF CalAtEnd, CalGoto, ritVars
  <2>5. CASE CalBetween
    BY <2>5 DEF CalBetween, CalChecks, ritVars, swVars, NextAxis, CalGoto
  <2>6. CASE CalTurn
    BY <2>6 DEF CalTurn, CalBack, CalGoto, SetDirections, swVars
  <2>7. CASE CalBackStep
    BY <2>7 DEF CalBackStep, CalGoto, Call
  <2>8. CASE CalFinish
    BY <2>8 DEF CalFinish, CalBack, swVars
  <2>9. CASE InCall(vCalibrate)
    <3>1. UNCHANGED <<calPc, calAxis, calibrated>> /\ pc[vCalibrate] # "idle"
      BY <2>9 DEF InCall, calVars, Inside, SetX, SetY, SetCount, Arm, Unmask,
         Take, Mask
    <3>2. calPc \in {"check", "back"}
      BY <1>1, <3>1 DEF Handover
    <3>3. QED
      BY <3>1, <3>2
  <2>10. QED
    BY <2>1, <2>2, <2>3, <2>4, <2>5, <2>6, <2>7, <2>8, <2>9 DEF CalStep
<1>6. calibrated' \in [Axes -> BOOLEAN]
  BY DEF RitTypeOK
<1>7. CASE /\ UNCHANGED <<calAxis, calibrated>>
           /\ calPc' \in {"begin", "seek", "check", "back", "backstep"}
           /\ calPc' \in {"begin", "seek", "backstep"}
                => pc'[vCalibrate] = "idle"
  BY <1>0, <1>1, <1>2, <1>3, <1>4, <1>7 DEF Handover
<1>8. CASE NextAxis(calibrated') /\ pc'[vCalibrate] = "idle"
  <2>1. calAxis' \in Axes
        /\ \/ calPc' = "done" /\ \A a \in Axes : calibrated'[a]
           \/ calPc' = "seek" /\ ~calibrated'[calAxis']
    BY <1>4, <1>6, <1>8, NextAxisType
  <2>2. QED
    BY <1>0, <1>1, <1>2, <1>3, <1>8, <2>1 DEF Handover, AllCalibrated
<1>9. QED
  BY <1>5, <1>7, <1>8

(* What a step of a call leaves alone. *)
LEMMA InsideFrame ==
  ASSUME RitTypeOK, NEW t \in Tasks, Inside(t)
  PROVE  /\ calibrated' = calibrated /\ pc[t] # "idle"
         /\ \A u \in Tasks : u # t => pc'[u] = pc[u]
  BY DEF Inside, SetX, SetY, SetCount, Arm, Unmask, Take, Mask, Goto, RitTypeOK

LEMMA DrawHandover ==
  ASSUME Handover, DrawStep, RitTypeOK'
  PROVE  Handover'
<1> USE TheTasks
<1>1. /\ UNCHANGED calVars /\ calibrated' = calibrated
      /\ pc'[vCalibrate] = pc[vCalibrate] /\ major' = major
      /\ lpc' \in {"idle", "major", "accumulate", "minor", "repay"}
      /\ lpc' = "idle" => pc'[vStepperTask] = "idle"
      /\ calPc = "done"
  <2>1. CASE DriveMajor
    BY <2>1, StepperAfterCalibration DEF DriveMajor, Drive, Call, Goto, Handover,
       RitTypeOK
  <2>2. CASE DriveMinor
    BY <2>2, StepperAfterCalibration DEF DriveMinor, Drive, Call, Goto, Handover,
       RitTypeOK
  <2>3. CASE Accumulate
    <3>1. UNCHANGED <<calVars, ritVars, major>> /\ lpc' \in {"minor", "major"}
      BY <2>3 DEF Accumulate
    <3>2. calPc = "done"
      BY <2>3, StepperAfterCalibration DEF Accumulate
    <3>3. QED
      BY <3>1, <3>2 DEF ritVars, swVars
  <2>4. CASE Repay \/ Finish
    <3>1. UNCHANGED <<calVars, ritVars, major>> /\ lpc' \in {"idle", "major"}
      BY <2>4 DEF Repay, Finish
    <3>2. calPc = "done" /\ pc[vStepperTask] = "idle"
      BY <2>4, StepperAfterCalibration DEF Repay, Finish
    <3>3. QED
      BY <3>1, <3>2 DEF ritVars, swVars
  <2>5. CASE InCall(vStepperTask)
    <3>1. Inside(vStepperTask) /\ UNCHANGED <<calVars, lineVars>>
      BY <2>5 DEF InCall
    <3>2. pc[vStepperTask] # "idle"
      BY <3>1, InsideFrame DEF Handover
    <3>3. calPc = "done" /\ lpc # "idle"
      BY <3>2 DEF Handover
    <3>4. QED
      BY <3>1, <3>3, InsideFrame DEF lineVars, Handover
  <2>6. QED
    BY <2>1, <2>2, <2>3, <2>4, <2>5 DEF DrawStep
<1>2. QED
  BY <1>1 DEF Handover, calVars, AllCalibrated

LEMMA HandoverStep ==
  ASSUME ~EarlyG1, Handover, [MotionNext]_motionVars
  PROVE  Handover'
<1>1. RitTypeOK'
  BY StepAllowed, TypeStep DEF Handover
<1>2. CASE Handler \/ TimerMatch
  <2>1. UNCHANGED <<calVars, lineVars, pc, calibrated>>
    BY <1>2 DEF Handler, TimerMatch, RIT_IRQHandler, Match, swVars
  <2>2. QED
    BY <1>1, <2>1 DEF Handover, calVars, lineVars, AllCalibrated
<1>3. CASE CalStep
  BY <1>1, <1>3, CalHandover
<1>4. ASSUME NEW c \in Targets, G1(c) PROVE Handover'
  <2>1. calPc = "done" /\ UNCHANGED <<calVars, pc, calibrated>>
        /\ lpc' = "major" /\ major' \in Axes
    BY <1>4 DEF G1, SetDirections, swVars, Dominating, Axes
  <2>2. QED
    BY <1>1, <2>1 DEF Handover, calVars, AllCalibrated
<1>5. CASE DrawStep
  BY <1>1, <1>5, DrawHandover
<1>6. CASE UNCHANGED motionVars
  BY <1>1, <1>6 DEF motionVars, ritVars, swVars, calVars, lineVars, Handover,
     AllCalibrated
<1>7. QED
  BY <1>2, <1>3, <1>4, <1>5, <1>6 DEF MotionNext

-----------------------------------------------------------------------------
LEMMA HandoverHolds == ASSUME ~EarlyG1 PROVE Spec => []Handover
  BY HandoverInit, HandoverStep, PTL DEF Spec

(* The tasks drive the stepping driver only in the ways Rit describes: calls *)
(* that do not overlap, for axes the handler serves, directions and flags  *)
(* changed between calls.                                                  *)
THEOREM MotionImplementsRit == ASSUME ~EarlyG1 PROVE Spec => RitSafe
<1>1. MotionInit => RitInit
  BY DEF MotionInit
<1>2. Handover /\ [MotionNext]_motionVars => [RitNext]_ritVars
  BY StepAllowed
<1>3. QED
  BY <1>1, <1>2, HandoverHolds, PTL DEF Spec, RitSafe

(* Hence every RIT_start of vCalibrate and of triggerMotors returns exactly  *)
(* when its one step is made,                                              *)
THEOREM MotionCallMovesOneStep ==
  ASSUME ~EarlyG1, Exclusive PROVE Spec => []CallMovesOneStep
  BY MotionImplementsRit, RitCallMovesOneStep, PTL

(* and leaves nothing behind for the next.                                 *)
THEOREM MotionQuietBetweenCalls ==
  ASSUME ~EarlyG1, Exclusive PROVE Spec => []QuietBetweenCalls
  BY MotionImplementsRit, RitQuietBetweenCalls, PTL
-----------------------------------------------------------------------------
(* Types.                                                                  *)

CalPcs == {"begin", "seek", "check", "back", "backstep", "done"}
LinePcs == {"idle", "major", "accumulate", "minor", "repay"}

CalTypes ==
  /\ calPc \in CalPcs /\ calAxis \in Axes
  /\ taken \in [Axes -> Nat] /\ back \in Nat /\ scale \in [Axes -> Nat]
  /\ boot \in [Axes -> Boot]

Hist == [from : [Axes -> Int], error : Int, count : [Axes -> Nat],
         lines : 0..MaxLines]

LineTypes ==
  /\ lpc \in LinePcs
  /\ p0 \in [Axes -> Int] /\ p1 \in [Axes -> Int] /\ d \in [Axes -> Int]
  /\ major \in Axes
  /\ error \in Int /\ deltaError \in 0..One
  /\ exact \in BOOLEAN /\ wholeAbs \in BOOLEAN
  /\ hist \in Hist

Types == RitTypeOK /\ CalTypes /\ LineTypes

LEMMA TypesAreMotionTypeOK == Types <=> MotionTypeOK
  BY DEF Types, CalTypes, LineTypes, CalPcs, LinePcs, Hist, MotionTypeOK

LEMMA HomeType == Home \in [Axes -> Nat]
<1>1. ASSUME NEW a \in Axes PROVE Kept(Track[a]) \in Nat
  <2>1. Track[a] \in Nat
    BY CarriageAssumption DEF CarriageAssumption
  <2>2. QED
    BY <2>1, BackoffKept
<1>2. QED
  BY <1>1 DEF Home

LEMMA TypesInit == MotionInit => Types
<1> SUFFICES ASSUME MotionInit PROVE Types
  OBVIOUS
<1>1. RitTypeOK
  BY TypeInit DEF MotionInit
<1>2. CalTypes
  BY DEF MotionInit, CalTypes, CalPcs, Axes
<1>3. hist \in Hist
  BY HomeType, OneIsPositive, MotionAssumption DEF MotionInit, Hist, NoSteps,
     MotionAssumption
<1>4. lpc \in LinePcs /\ major \in Axes /\ error \in Int /\ deltaError \in 0..One
  BY OneIsPositive DEF MotionInit, LinePcs, Axes
<1>5. p0 \in [Axes -> Int] /\ p1 \in [Axes -> Int] /\ d \in [Axes -> Int]
      /\ exact \in BOOLEAN /\ wholeAbs \in BOOLEAN
  BY DEF MotionInit
<1>6. QED
  BY <1>1, <1>2, <1>3, <1>4, <1>5 DEF Types, LineTypes

(* The steps of the driver keep its types, whoever calls it. *)
LEMMA CallType ==
  ASSUME RitTypeOK, NEW t \in Tasks, NEW a \in Axes, Call(t, a)
  PROVE  RitTypeOK'
  BY DEF RitTypeOK, Call, Goto, Locations, motorVars

LEMMA DirectionsType ==
  ASSUME RitTypeOK, NEW dirs \in [Axes -> BOOLEAN], SetDirections(dirs)
  PROVE  RitTypeOK'
  BY DEF RitTypeOK, SetDirections, swVars, irqVars, motorVars

LEMMA UntouchedType ==
  ASSUME RitTypeOK, UNCHANGED ritVars
  PROVE  RitTypeOK'
  BY TypeStep

LEMMA InsideType ==
  ASSUME RitTypeOK, NEW t \in Tasks, Inside(t)
  PROVE  RitTypeOK'
  BY TypeStep DEF RitNext, TaskStep

LEMMA FinishCalType ==
  ASSUME RitTypeOK, CalTypes, CalFinish
  PROVE  /\ RitTypeOK'
         /\ taken' \in [Axes -> Nat] /\ scale' \in [Axes -> Nat]
         /\ calibrated' \in [Axes -> BOOLEAN]
<1>1. RitTypeOK'
  BY DEF RitTypeOK, CalFinish, swVars, irqVars, motorVars
<1>2. taken[calAxis] \in Nat /\ calAxis \in Axes
  BY DEF CalTypes
<1>3. Kept(taken[calAxis]) \in Nat
  BY <1>2, BackoffKept
<1>4. taken' \in [Axes -> Nat] /\ taken'[calAxis] \in Nat
  BY <1>2, <1>3 DEF CalFinish, CalTypes
<1>5. Divisor(calAxis) \in Nat /\ Divisor(calAxis) > 0
  BY MotionAssumption DEF Divisor, MotionAssumption
<1>6. taken'[calAxis] \div Divisor(calAxis) \in Nat
  BY <1>4, <1>5
<1>7. scale' \in [Axes -> Nat]
  BY <1>2, <1>6 DEF CalFinish, CalTypes
<1>8. QED
  BY <1>1, <1>4, <1>7 DEF RitTypeOK

LEMMA NextAxisPc ==
  ASSUME calAxis \in Axes, NEW cal, NextAxis(cal)
  PROVE  calAxis' \in Axes /\ calPc' \in CalPcs
  BY DEF NextAxis, CalGoto, CalPcs, Other, Axes

LEMMA CalTypesStep ==
  ASSUME Types, CalStep
  PROVE  Types'
<1> USE TheTasks
<1>0. RitTypeOK /\ CalTypes /\ calAxis \in Axes
  BY DEF Types, CalTypes
<1>1. UNCHANGED lineVars
  BY DEF CalStep, CalBegin, CalSeek, CalAtStart, CalAtEnd, CalBetween, CalTurn,
     CalBackStep, CalFinish, InCall
<1>2. LineTypes'
  BY <1>1 DEF Types, LineTypes, lineVars
<1>3. RitTypeOK' /\ CalTypes'
  <2>1. CASE CalBegin
    BY <2>1, <1>0, DirectionsType DEF CalBegin, CalGoto, CalTypes, CalPcs
  <2>2. CASE CalSeek
    <3>1. taken' \in [Axes -> Nat]
      BY <2>2, <1>0 DEF CalSeek, CalTypes
    <3>2. QED
      BY <2>2, <3>1, <1>0, CallType DEF CalSeek, CalGoto, CalTypes, CalPcs
  <2>3. CASE CalAtStart
    <3>1. RitTypeOK'
      <4>1. [dirPin EXCEPT ![calAxis] = FALSE] \in [Axes -> BOOLEAN]
        BY <1>0 DEF RitTypeOK
      <4>2. QED
        BY <2>3, <4>1, <1>0, DirectionsType DEF CalAtStart
    <3>2. taken' \in [Axes -> Nat]
      BY <2>3, <1>0 DEF CalAtStart, CalTypes
    <3>3. calAxis' \in Axes /\ calPc' \in CalPcs
      BY <2>3, <1>0, NextAxisPc DEF CalAtStart
    <3>4. QED
      BY <2>3, <3>1, <3>2, <3>3, <1>0 DEF CalAtStart, CalTypes
  <2>4. CASE CalAtEnd
    BY <2>4, <1>0, UntouchedType DEF CalAtEnd, CalGoto, CalTypes, CalPcs
  <2>5. CASE CalBetween
    <3>1. calAxis' \in Axes /\ calPc' \in CalPcs
      BY <2>5, <1>0, NextAxisPc DEF CalBetween
    <3>2. QED
      BY <2>5, <3>1, <1>0, UntouchedType DEF CalBetween, CalTypes
  <2>6. CASE CalTurn
    <3>1. [dirPin EXCEPT ![calAxis] = TRUE] \in [Axes -> BOOLEAN]
      BY <1>0 DEF RitTypeOK
    <3>2. QED
      BY <2>6, <3>1, <1>0, DirectionsType DEF CalTurn, CalGoto, CalTypes, CalPcs
  <2>7. CASE CalBackStep
    <3>1. back' \in Nat
      BY <2>7, <1>0 DEF CalBackStep, CalTypes
    <3>2. QED
      BY <2>7, <3>1, <1>0, CallType DEF CalBackStep, CalGoto, CalTypes, CalPcs
  <2>8. CASE CalFinish
    <3>1. calAxis' \in Axes /\ calPc' \in CalPcs
      BY <2>8, <1>0, NextAxisPc DEF CalFinish
    <3>2. QED
      BY <2>8, <3>1, <1>0, FinishCalType DEF CalFinish, CalTypes
  <2>9. CASE InCall(vCalibrate)
    BY <2>9, <1>0, InsideType DEF InCall, CalTypes, calVars
  <2>10. QED
    BY <2>1, <2>2, <2>3, <2>4, <2>5, <2>6, <2>7, <2>8, <2>9 DEF CalStep
<1>4. QED
  BY <1>2, <1>3 DEF Types

LEMMA G1Types ==
  ASSUME Types, NEW c \in Targets, G1(c)
  PROVE  Types'
<1> DEFINE dist == Distance(p0, c)
<1>1. RitTypeOK /\ CalTypes /\ LineTypes
  BY DEF Types
<1>2. c \in [Axes -> Int]
  BY MotionAssumption DEF MotionAssumption
<1>3. dist \in [Axes -> Nat]
  <2>1. ASSUME NEW a \in Axes
        PROVE  Abs((c[a] - p0[a]) * scale[a], wholeAbs) \in Nat
    <3>1. (c[a] - p0[a]) * scale[a] \in Int
      BY <1>1, <1>2 DEF LineTypes, CalTypes
    <3>2. QED
      BY <1>1, <3>1, AbsType DEF LineTypes
  <2>2. QED
    BY <2>1 DEF Distance
<1>4. RitTypeOK'
  <2>1. [a \in Axes |-> p0[a] < c[a]] \in [Axes -> BOOLEAN]
    OBVIOUS
  <2>2. QED
    BY <1>1, <2>1, DirectionsType DEF G1
<1>5. CalTypes'
  BY <1>1 DEF G1, CalTypes, calVars
<1>6. hist' \in Hist
  BY <1>1, MotionAssumption DEF G1, LineTypes, Hist, NoSteps, RitTypeOK,
     MotionAssumption
<1>7. deltaError' \in 0..One /\ major' \in Axes /\ d' \in [Axes -> Int]
  BY <1>3, DeltaErrorType, DominatingType DEF G1
<1>8. LineTypes'
  BY <1>1, <1>2, <1>6, <1>7 DEF G1, LineTypes, LinePcs
<1>9. QED
  BY <1>4, <1>5, <1>8 DEF Types

LEMMA DrawTypes ==
  ASSUME Types, DrawStep
  PROVE  Types'
<1> USE TheTasks
<1>0. RitTypeOK /\ CalTypes /\ LineTypes /\ major \in Axes
      /\ Other(major) \in Axes
  BY OtherAxis DEF Types, LineTypes
<1>1. UNCHANGED calVars
  BY DEF DrawStep, DriveMajor, Drive, Accumulate, DriveMinor, Repay, Finish,
     InCall
<1>2. CalTypes'
  BY <1>0, <1>1 DEF CalTypes, calVars
<1>3. ASSUME NEW a \in Axes, Drive(a), lpc' \in LinePcs
      PROVE  RitTypeOK' /\ LineTypes'
  <2>1. RitTypeOK'
    BY <1>0, <1>3, CallType DEF Drive
  <2>2. hist' \in Hist
    BY <1>0, <1>3 DEF Drive, LineTypes, Hist
  <2>3. QED
    BY <1>0, <1>3, <2>1, <2>2 DEF Drive, LineTypes
<1>4. Shorten => d' \in [Axes -> Int]
  BY <1>0, UnitsAssumption DEF Shorten, LineTypes, UnitsAssumption
<1>5. RitTypeOK' /\ LineTypes'
  <2>1. CASE DriveMajor
    BY <2>1, <1>0, <1>3 DEF DriveMajor, LinePcs
  <2>2. CASE DriveMinor
    BY <2>2, <1>0, <1>3 DEF DriveMinor, LinePcs
  <2>3. CASE Accumulate
    <3>1. error' \in Int /\ exact' \in BOOLEAN
      BY <2>3, <1>0, OneIsPositive DEF Accumulate, LineTypes
    <3>2. lpc' \in LinePcs /\ d' \in [Axes -> Int]
      BY <2>3, <1>0, <1>4 DEF Accumulate, LineTypes, LinePcs
    <3>3. QED
      BY <2>3, <1>0, <3>1, <3>2, UntouchedType DEF Accumulate, LineTypes
  <2>4. CASE Repay
    <3>1. error' \in Int
      BY <2>4, <1>0, OneIsPositive DEF Repay, LineTypes
    <3>2. QED
      BY <2>4, <1>0, <1>4, <3>1, UntouchedType DEF Repay, LineTypes, LinePcs
  <2>5. CASE Finish
    BY <2>5, <1>0, UntouchedType DEF Finish, LineTypes, LinePcs
  <2>6. CASE InCall(vStepperTask)
    BY <2>6, <1>0, InsideType DEF InCall, LineTypes, lineVars
  <2>7. QED
    BY <2>1, <2>2, <2>3, <2>4, <2>5, <2>6 DEF DrawStep
<1>6. QED
  BY <1>2, <1>5 DEF Types

LEMMA TypesStep ==
  ASSUME Types, [MotionNext]_motionVars
  PROVE  Types'
<1>1. CASE Handler \/ TimerMatch \/ UNCHANGED motionVars
  <2>1. RitTypeOK' /\ UNCHANGED <<calVars, lineVars>>
    BY <1>1, TypeStep DEF Handler, TimerMatch, RitNext, motionVars, Types
  <2>2. QED
    BY <2>1 DEF Types, CalTypes, LineTypes, calVars, lineVars
<1>2. QED
  BY <1>1, CalTypesStep, G1Types, DrawTypes DEF MotionNext

LEMMA TypesAlways == Spec => []Types
  BY TypesInit, TypesStep, PTL DEF Spec

(* The variables of vCalibrate and of triggerMotors, and those of the driver *)
(* under them, keep their types, G1 during calibration included.           *)
THEOREM MotionTypeCorrect == Spec => []MotionTypeOK
  BY TypesAlways, TypesAreMotionTypeOK, PTL

=============================================================================

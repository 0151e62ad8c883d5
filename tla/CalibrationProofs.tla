------------------------- MODULE CalibrationProofs -------------------------
(***************************************************************************)
(* What vCalibrate finds out is true: the steps it counts are where the    *)
(* carriage is, for every track, frame and position at power-up.           *)
(***************************************************************************)
EXTENDS MotionProofs

(* Where the carriage is once the call under way has made its step: the     *)
(* count of vCalibrate is ahead of pos by that.                            *)
Place(a) ==
  IF pc[vCalibrate] = "idle" THEN pos[a]
  ELSE AfterCall(from[vCalibrate], req[vCalibrate])[a]

Within(a) == boot[a] <= Track[a]

(* an axis whose turn will come: towards Start, or counting from there *)
Waiting(a) ==
  IF dirPin[a]
    THEN IF Within(a) THEN Place(a) <= Track[a]
                      ELSE Place(a) > Track[a] /\ taken[a] = 0
    ELSE /\ Within(a) /\ Place(a) < Track[a]
         /\ taken[a] = IF Place(a) > 0 THEN Place(a) ELSE 0

(* the axis that was just stepped *)
Stepped(a) ==
  IF dirPin[a]
    THEN IF Within(a) THEN Place(a) < Track[a]
                      ELSE Place(a) >= Track[a] /\ taken[a] = 1
    ELSE /\ Within(a) /\ Place(a) <= Track[a]
         /\ Place(a) > 0 => taken[a] = Place(a)

(* the axis that backs off its End switch *)
Backing(a) ==
  /\ IF Within(a)
       THEN /\ taken[a] = Track[a] /\ Place(a) = Track[a] - back
            /\ back <= Backoff(Track[a])
            /\ calPc = "backstep" => back < Backoff(Track[a])
       ELSE taken[a] = 1
  /\ calPc = "backstep" => dirPin[a]

Measured(a) ==
  IF Within(a) THEN Place(a) = Home[a] /\ taken[a] = Home[a]
               ELSE scale[a] = 0

Phase(a) ==
  IF calibrated[a] THEN Measured(a)
  ELSE IF calPc = "begin" THEN Place(a) = boot[a] /\ taken[a] = 0
  ELSE IF calAxis # a \/ calPc = "seek" THEN Waiting(a)
  ELSE IF calPc = "check" THEN Stepped(a)
  ELSE Backing(a)

CalInv ==
  /\ lpc # "idle" => hist.lines # 0
  /\ hist.lines = 0 => \A a \in Axes : Phase(a)

(* Where a call of vCalibrate takes the carriage. *)
LEMMA PlaceType ==
  ASSUME RitTypeOK, NEW a \in Axes
  PROVE  Place(a) \in Int /\ pos[a] \in Int /\ Track[a] \in Nat /\ Track[a] > 0
<1>1. pos \in [Axes -> Int] /\ from[vCalibrate] \in [Axes -> Int]
      /\ req[vCalibrate] \in Axes
  BY TheTasks DEF RitTypeOK
<1>2. AfterCall(from[vCalibrate], req[vCalibrate]) \in [Axes -> Int]
  BY <1>1, AdvanceType DEF AfterCall
<1>3. QED
  BY <1>1, <1>2, CarriageAssumption DEF Place, CarriageAssumption

LEMMA CallPlace ==
  ASSUME Handover, calPc # "done", Call(vCalibrate, calAxis), NEW b \in Axes
  PROVE  /\ b # calAxis => Place(b)' = Place(b)
         /\ b = calAxis =>
              \/ Place(b)' = IF dirPin[b] THEN Place(b) - 1 ELSE Place(b) + 1
              \/ /\ Place(b)' = Place(b)
                 /\ IF dirPin[b] THEN ~(0 < Place(b) /\ Place(b) <= Track[b])
                                 ELSE ~(0 <= Place(b) + 1 /\ Place(b) < Track[b])
<1>1. /\ pc[vCalibrate] = "idle" /\ pc'[vCalibrate] = "setX"
      /\ req'[vCalibrate] = calAxis /\ from'[vCalibrate] = pos
      /\ UNCHANGED <<pos, dirPin, calibrated>>
  BY TheTasks DEF Call, Goto, motorVars, Handover, RitTypeOK
<1>2. calAxis \in Axes /\ RitTypeOK /\ ~AllCalibrated
  BY DEF Handover, AllCalibrated
<1> DEFINE q == IF dirPin[calAxis] THEN pos[calAxis] - 1 ELSE pos[calAxis] + 1
<1>3. Place(b) = pos[b]
  BY <1>1 DEF Place
<1>4. Place(b)' = Advance(pos, dirPin, calAxis)[b]
  BY <1>1, <1>2 DEF Place, AfterCall, AllCalibrated
<1>5. Advance(pos, dirPin, calAxis) =
        IF q \in Rails THEN [pos EXCEPT ![calAxis] = q] ELSE pos
  BY DEF Advance
<1>6. pos \in [Axes -> Int] /\ Track[b] \in Nat /\ 0..Track[b] \subseteq Rails
  BY <1>2, CarriageAssumption DEF RitTypeOK, CarriageAssumption
<1>7. CASE b # calAxis
  BY <1>2, <1>3, <1>4, <1>5, <1>6, <1>7
<1>8. CASE b = calAxis /\ q \in Rails
  BY <1>2, <1>3, <1>4, <1>5, <1>6, <1>8
<1>9. CASE b = calAxis /\ q \notin Rails
  <2>1. q \notin 0..Track[b] /\ pos[b] \in Int
    BY <1>6, <1>9
  <2>2. Place(b)' = Place(b)
    BY <1>3, <1>4, <1>5, <1>9
  <2>3. QED
    BY <1>3, <1>6, <1>9, <2>1, <2>2
<1>10. QED
  BY <1>7, <1>8, <1>9

(* Within a call the handler moves the carriage to its place. *)
LEMMA PlaceKept ==
  ASSUME Handover, IInv, lpc = "idle", NEW b \in Axes,
         Handler \/ TimerMatch \/ InCall(vCalibrate) \/ UNCHANGED motionVars
  PROVE  /\ Place(b)' = Place(b)
         /\ UNCHANGED <<calVars, lineVars, calibrated, dirPin>>
<1>1. UNCHANGED <<calVars, lineVars, calibrated, dirPin>>
  BY DEF Handler, TimerMatch, RIT_IRQHandler, Match, InCall, Inside, SetX, SetY,
     SetCount, Arm, Unmask, Take, Mask, motionVars, ritVars
<1>2. CASE Handler
  <2>1. UNCHANGED <<pc, req, from, calibrated, dirPin>> /\ irqPending
    BY <1>2 DEF Handler, RIT_IRQHandler, swVars
  <2>2. pc[vCalibrate] # "idle"
    <3>1. pc[vStepperTask] = "idle"
      BY DEF Handover
    <3>2. ~AllIdle
      BY <2>1 DEF IInv, QuietBetweenCalls
    <3>3. QED
      BY <3>1, <3>2, TheTasks DEF AllIdle
  <2>3. AfterCall(from[vCalibrate], req[vCalibrate])'
          = AfterCall(from[vCalibrate], req[vCalibrate])
    BY <2>1 DEF AfterCall, AllCalibrated
  <2>4. QED
    BY <1>1, <2>1, <2>2, <2>3 DEF Place
<1>3. CASE TimerMatch \/ UNCHANGED motionVars
  <2>1. UNCHANGED <<pc, req, from, calibrated, dirPin, pos>>
    BY <1>3 DEF TimerMatch, Match, swVars, motorVars, motionVars, ritVars
  <2>2. QED
    BY <1>1, <2>1 DEF Place, AfterCall, AllCalibrated
<1>4. CASE InCall(vCalibrate)
  <2>1. Inside(vCalibrate) /\ pc[vCalibrate] # "idle"
        /\ UNCHANGED <<req, from, pos>>
    BY <1>4, InsideFrame, TheTasks DEF InCall, Inside, SetX, SetY, SetCount, Arm,
       Unmask, Take, Mask, motorVars, Handover
  <2>2. AfterCall(from[vCalibrate], req[vCalibrate])'
          = AfterCall(from[vCalibrate], req[vCalibrate])
    BY <1>1, <2>1 DEF AfterCall, AllCalibrated
  <2>3. CASE Mask(vCalibrate)
    <3>1. pos = AfterCall(from[vCalibrate], req[vCalibrate])
      BY <2>3, TheTasks DEF Mask, IInv, Stage, Complete
    <3>2. QED
      BY <1>1, <2>1, <2>2, <3>1 DEF Place
  <2>4. CASE ~Mask(vCalibrate)
    <3>1. pc'[vCalibrate] # "idle"
      BY <2>1, <2>4, TheTasks DEF Inside, SetX, SetY, SetCount, Arm, Unmask, Take,
         Goto, Handover, RitTypeOK
    <3>2. QED
      BY <1>1, <2>1, <2>2, <3>1 DEF Place
  <2>5. QED
    BY <2>3, <2>4
<1>5. QED
  BY <1>2, <1>3, <1>4

LEMMA PlaceFree ==
  ASSUME pc[vCalibrate] = "idle", UNCHANGED <<pc, pos>>, NEW b \in Axes
  PROVE  Place(b)' = Place(b) /\ Place(b) = pos[b]
  BY DEF Place

(* What matters of an axis stays. *)
Same(b) ==
  /\ Place(b)' = Place(b)
  /\ boot' = boot /\ taken'[b] = taken[b] /\ scale'[b] = scale[b]
  /\ dirPin'[b] = dirPin[b] /\ calibrated'[b] = calibrated[b]

LEMMA SameWaits ==
  ASSUME NEW b \in Axes, Same(b)
  PROVE  (Waiting(b)' <=> Waiting(b)) /\ (Measured(b)' <=> Measured(b))
  BY DEF Same, Waiting, Measured, Within

LEMMA SamePhase ==
  ASSUME NEW b \in Axes, Phase(b), Same(b), UNCHANGED <<calPc, calAxis, back>>
  PROVE  Phase(b)'
<1>1. (Waiting(b)' <=> Waiting(b)) /\ (Measured(b)' <=> Measured(b))
  BY SameWaits
<1>2. (Stepped(b)' <=> Stepped(b)) /\ (Backing(b)' <=> Backing(b))
  BY DEF Same, Stepped, Backing, Within
<1>3. QED
  BY <1>1, <1>2 DEF Phase, Same

(* The axis whose turn it is not. *)
LEMMA OtherPhase ==
  ASSUME NEW b \in Axes, Phase(b), Same(b), b # calAxis, calAxis' = calAxis,
         calPc # "begin", calPc' # "begin"
  PROVE  Phase(b)'
  BY SameWaits DEF Phase, Same

LEMMA NextPhase ==
  ASSUME NEW b \in Axes, NextAxis(calibrated'),
         IF calibrated'[b] THEN Measured(b)' ELSE Waiting(b)'
  PROVE  Phase(b)'
<1>1. calPc' = "seek" \/ (calPc' = "done" /\ calibrated'[b])
  BY DEF NextAxis, CalGoto
<1>2. QED
  BY <1>1 DEF Phase

LEMMA OtherNextPhase ==
  ASSUME NEW b \in Axes, Phase(b), Same(b), b # calAxis, calPc # "begin",
         NextAxis(calibrated')
  PROVE  Phase(b)'
  BY SameWaits, NextPhase DEF Phase, Same
-----------------------------------------------------------------------------
(* The steps of vCalibrate, each for the axis whose turn it is.             *)

Phases == \A b \in Axes : Phase(b)

LEMMA BeginPhases ==
  ASSUME Types, Handover, Phases, CalBegin
  PROVE  Phases'
<1> SUFFICES ASSUME NEW b \in Axes PROVE Phase(b)'
  BY DEF Phases
<1>1. /\ calPc = "begin" /\ calPc' = "seek" /\ pc[vCalibrate] = "idle"
      /\ dirPin'[b] = TRUE
      /\ UNCHANGED <<pc, pos, calAxis, taken, scale, boot, calibrated>>
  BY DEF CalBegin, CalGoto, SetDirections, swVars, motorVars, Handover
<1>2. Place(b)' = Place(b)
  BY <1>1, PlaceFree
<1>3. Phase(b) /\ Place(b) \in Int /\ Track[b] \in Int
  BY PlaceType DEF Phases, Types
<1>4. CASE calibrated[b]
  BY <1>1, <1>2, <1>3, <1>4 DEF Phase, Measured, Within
<1>5. CASE ~calibrated[b]
  <2>1. Place(b) = boot[b] /\ taken[b] = 0
    BY <1>1, <1>3, <1>5 DEF Phase
  <2>2. Waiting(b)'
    BY <1>1, <1>2, <1>3, <2>1 DEF Waiting, Within
  <2>3. QED
    BY <1>1, <1>5, <2>2 DEF Phase
<1>6. QED
  BY <1>4, <1>5

LEMMA SeekPhases ==
  ASSUME Types, Handover, Phases, CalSeek
  PROVE  Phases'
<1> SUFFICES ASSUME NEW b \in Axes PROVE Phase(b)'
  BY DEF Phases
<1>1. /\ calPc = "seek" /\ calPc' = "check" /\ Call(vCalibrate, calAxis)
      /\ taken' = [taken EXCEPT ![calAxis] = taken[calAxis] + 1]
      /\ UNCHANGED <<calAxis, back, scale, boot, dirPin, calibrated>>
  BY DEF CalSeek, CalGoto, Call
<1>2. calAxis \in Axes /\ ~calibrated[calAxis] /\ taken \in [Axes -> Nat]
  BY <1>1 DEF Handover, Types, CalTypes
<1>3. CASE b # calAxis
  <2>1. Same(b)
    BY <1>1, <1>2, <1>3, CallPlace DEF Same
  <2>2. QED
    BY <1>1, <1>3, <2>1, OtherPhase DEF Phases
<1>4. CASE b = calAxis
  <2>1. Waiting(b) /\ taken'[b] = taken[b] + 1 /\ taken[b] \in Nat
    BY <1>1, <1>2, <1>4 DEF Phases, Phase
  <2>2. /\ Place(b) \in Int /\ Track[b] \in Nat /\ Track[b] > 0
        /\ \/ Place(b)' = IF dirPin[b] THEN Place(b) - 1 ELSE Place(b) + 1
           \/ /\ Place(b)' = Place(b)
              /\ IF dirPin[b] THEN ~(0 < Place(b) /\ Place(b) <= Track[b])
                              ELSE ~(0 <= Place(b) + 1 /\ Place(b) < Track[b])
    BY <1>1, <1>4, CallPlace, PlaceType DEF Types
  <2>3. Stepped(b)'
    <3>1. dirPin'[b] = dirPin[b] /\ boot' = boot
      BY <1>1
    <3>2. CASE dirPin[b] /\ Within(b)
      BY <2>1, <2>2, <3>1, <3>2 DEF Waiting, Stepped, Within
    <3>3. CASE dirPin[b] /\ ~Within(b)
      BY <2>1, <2>2, <3>1, <3>3 DEF Waiting, Stepped, Within
    <3>4. CASE ~dirPin[b]
      BY <2>1, <2>2, <3>1, <3>4 DEF Waiting, Stepped, Within
    <3>5. QED
      BY <3>2, <3>3, <3>4
  <2>4. QED
    BY <1>1, <1>2, <1>4, <2>3 DEF Phase
<1>5. QED
  BY <1>3, <1>4

LEMMA CheckFacts ==
  ASSUME Types, Handover, Phases, CalChecks
  PROVE  /\ pc[vCalibrate] = "idle" /\ calPc = "check"
         /\ calAxis \in Axes /\ ~calibrated[calAxis] /\ Stepped(calAxis)
         /\ \A b \in Axes : Place(b) = pos[b] /\ pos[b] \in Int
                            /\ Track[b] \in Nat /\ Track[b] > 0
  BY PlaceType DEF CalChecks, Handover, Phases, Phase, Types, Place

LEMMA AtStartPhases ==
  ASSUME Types, Handover, Phases, CalAtStart
  PROVE  Phases'
<1> SUFFICES ASSUME NEW b \in Axes PROVE Phase(b)'
  BY DEF Phases
<1>1. /\ pc[vCalibrate] = "idle" /\ calPc = "check"
      /\ calAxis \in Axes /\ ~calibrated[calAxis] /\ Stepped(calAxis)
      /\ Place(b) = pos[b] /\ pos[b] \in Int /\ Track[b] \in Nat /\ Track[b] > 0
  BY CheckFacts DEF CalAtStart
<1>2. /\ pos[calAxis] <= 0
      /\ dirPin' = [dirPin EXCEPT ![calAxis] = FALSE]
      /\ taken' = [taken EXCEPT ![calAxis] = 0]
      /\ NextAxis(calibrated')
      /\ UNCHANGED <<pc, pos, calibrated, back, scale, boot>>
  BY DEF CalAtStart, LimitStart, SetDirections, swVars, motorVars
<1>3. dirPin \in [Axes -> BOOLEAN] /\ taken \in [Axes -> Nat]
  BY DEF Types, RitTypeOK, CalTypes
<1>4. Place(b)' = Place(b)
  BY <1>1, <1>2, PlaceFree
<1>5. CASE b # calAxis
  <2>1. Same(b)
    BY <1>2, <1>3, <1>4, <1>5 DEF Same
  <2>2. QED
    BY <1>1, <1>2, <1>5, <2>1, OtherNextPhase DEF Phases
<1>6. CASE b = calAxis
  <2>1. Within(b) /\ Place(b) <= 0
    BY <1>1, <1>2, <1>6 DEF Stepped
  <2>2. dirPin'[b] = FALSE /\ taken'[b] = 0 /\ boot' = boot
    BY <1>1, <1>2, <1>3, <1>6
  <2>3. Waiting(b)'
    BY <1>1, <1>4, <2>1, <2>2 DEF Waiting, Within
  <2>4. ~calibrated'[b]
    BY <1>1, <1>2, <1>6
  <2>5. QED
    BY <1>2, <2>3, <2>4, NextPhase
<1>7. QED
  BY <1>5, <1>6

LEMMA AtEndPhases ==
  ASSUME Types, Handover, Phases, CalAtEnd
  PROVE  Phases'
<1> SUFFICES ASSUME NEW b \in Axes PROVE Phase(b)'
  BY DEF Phases
<1>1. /\ pc[vCalibrate] = "idle" /\ calPc = "check"
      /\ calAxis \in Axes /\ ~calibrated[calAxis] /\ Stepped(calAxis)
      /\ Place(b) = pos[b] /\ pos[b] \in Int /\ Track[b] \in Nat /\ Track[b] > 0
  BY CheckFacts DEF CalAtEnd
<1>2. /\ pos[calAxis] >= Track[calAxis]
      /\ back' = 0 /\ calPc' = "back"
      /\ UNCHANGED <<pc, pos, dirPin, calibrated, calAxis, taken, scale, boot>>
  BY DEF CalAtEnd, LimitEnd, CalGoto, ritVars, swVars, motorVars
<1>3. Place(b)' = Place(b)
  BY <1>1, <1>2, PlaceFree
<1>4. CASE b # calAxis
  <2>1. Same(b)
    BY <1>2, <1>3 DEF Same
  <2>2. QED
    BY <1>1, <1>2, <1>4, <2>1, OtherPhase DEF Phases
<1>5. CASE b = calAxis
  <2>1. IF Within(b) THEN Place(b) = Track[b] /\ taken[b] = Track[b]
                     ELSE taken[b] = 1
    BY <1>1, <1>2, <1>5 DEF Stepped, Within
  <2>2. Backoff(Track[b]) \in Nat
    BY <1>1, BackoffKept
  <2>3. Backing(b)'
    BY <1>1, <1>2, <1>3, <2>1, <2>2 DEF Backing, Within
  <2>4. QED
    BY <1>1, <1>2, <1>5, <2>3 DEF Phase
<1>6. QED
  BY <1>4, <1>5

LEMMA BetweenPhases ==
  ASSUME Types, Handover, Phases, CalBetween
  PROVE  Phases'
<1> SUFFICES ASSUME NEW b \in Axes PROVE Phase(b)'
  BY DEF Phases
<1>1. /\ pc[vCalibrate] = "idle" /\ calPc = "check"
      /\ calAxis \in Axes /\ ~calibrated[calAxis] /\ Stepped(calAxis)
      /\ Place(b) = pos[b] /\ pos[b] \in Int /\ Track[b] \in Nat /\ Track[b] > 0
  BY CheckFacts DEF CalBetween
<1>2. /\ ~(pos[calAxis] <= 0) /\ ~(pos[calAxis] >= Track[calAxis])
      /\ NextAxis(calibrated')
      /\ UNCHANGED <<pc, pos, dirPin, calibrated, taken, back, scale, boot>>
  BY DEF CalBetween, AtLimit, LimitStart, LimitEnd, ritVars, swVars, motorVars
<1>3. Place(b)' = Place(b)
  BY <1>1, <1>2, PlaceFree
<1>4. Same(b)
  BY <1>2, <1>3 DEF Same
<1>5. CASE b # calAxis
  BY <1>1, <1>2, <1>4, <1>5, OtherNextPhase DEF Phases
<1>6. CASE b = calAxis
  <2>1. Waiting(b)
    BY <1>1, <1>2, <1>6 DEF Stepped, Waiting, Within
  <2>2. Waiting(b)' /\ ~calibrated'[b]
    BY <1>1, <1>2, <1>4, <1>6, <2>1, SameWaits
  <2>3. QED
    BY <1>2, <2>2, NextPhase
<1>7. QED
  BY <1>5, <1>6

LEMMA TurnPhases ==
  ASSUME Types, Handover, Phases, CalTurn
  PROVE  Phases'
<1> SUFFICES ASSUME NEW b \in Axes PROVE Phase(b)'
  BY DEF Phases
<1>1. /\ pc[vCalibrate] = "idle" /\ calPc = "back" /\ calPc' = "backstep"
      /\ back < Backoff(taken[calAxis])
      /\ dirPin' = [dirPin EXCEPT ![calAxis] = TRUE]
      /\ UNCHANGED <<pc, pos, calibrated, calAxis, taken, back, scale, boot>>
  BY DEF CalTurn, CalBack, CalGoto, SetDirections, swVars, motorVars
<1>2. calAxis \in Axes /\ ~calibrated[calAxis]
      /\ dirPin \in [Axes -> BOOLEAN]
  BY <1>1 DEF Handover, Types, RitTypeOK
<1>3. Place(b)' = Place(b)
  BY <1>1, PlaceFree
<1>4. CASE b # calAxis
  <2>1. Same(b)
    BY <1>1, <1>2, <1>3, <1>4 DEF Same
  <2>2. QED
    BY <1>1, <1>4, <2>1, OtherPhase DEF Phases
<1>5. CASE b = calAxis
  <2>1. Backing(b)
    BY <1>1, <1>2, <1>5 DEF Phases, Phase
  <2>2. dirPin'[b]
    BY <1>1, <1>2, <1>5
  <2>3. Backing(b)'
    BY <1>1, <1>3, <1>5, <2>1, <2>2 DEF Backing, Within
  <2>4. QED
    BY <1>1, <1>2, <1>5, <2>3 DEF Phase
<1>6. QED
  BY <1>4, <1>5

LEMMA BackStepPhases ==
  ASSUME Types, Handover, Phases, CalBackStep
  PROVE  Phases'
<1> SUFFICES ASSUME NEW b \in Axes PROVE Phase(b)'
  BY DEF Phases
<1>1. /\ calPc = "backstep" /\ calPc' = "back" /\ Call(vCalibrate, calAxis)
      /\ back' = back + 1
      /\ UNCHANGED <<calAxis, taken, scale, boot, dirPin, calibrated>>
  BY DEF CalBackStep, CalGoto, Call
<1>2. calAxis \in Axes /\ ~calibrated[calAxis]
  BY <1>1 DEF Handover
<1>3. CASE b # calAxis
  <2>1. Same(b)
    BY <1>1, <1>2, <1>3, CallPlace DEF Same
  <2>2. QED
    BY <1>1, <1>3, <2>1, OtherPhase DEF Phases
<1>4. CASE b = calAxis
  <2>1. Backing(b) /\ dirPin[b]
    BY <1>1, <1>2, <1>4 DEF Phases, Phase, Backing
  <2>2. CASE ~Within(b)
    BY <1>1, <1>2, <1>4, <2>1, <2>2 DEF Backing, Within, Phase
  <2>3. CASE Within(b)
    <3>1. /\ taken[b] = Track[b] /\ Place(b) = Track[b] - back
          /\ back < Backoff(Track[b]) /\ back \in Nat
          /\ Track[b] \in Nat /\ Track[b] > 0
      BY <1>1, <2>1, <2>3, PlaceType DEF Backing, Types, CalTypes
    <3>2. Backoff(Track[b]) \in Nat /\ Backoff(Track[b]) <= Track[b]
      BY <3>1, BackoffKept
    <3>3. 0 < Place(b) /\ Place(b) <= Track[b]
      BY <3>1, <3>2
    <3>4. Place(b)' = Place(b) - 1
      BY <1>1, <1>4, <2>1, <3>3, CallPlace
    <3>5. /\ Place(b)' = Track[b] - back' /\ back' <= Backoff(Track[b])
      BY <1>1, <3>1, <3>2, <3>4
    <3>6. Backing(b)'
      BY <1>1, <2>3, <3>1, <3>5 DEF Backing, Within
    <3>7. QED
      BY <1>1, <1>2, <1>4, <3>6 DEF Phase
  <2>4. QED
    BY <2>2, <2>3
<1>5. QED
  BY <1>3, <1>4

LEMMA FinishPhases ==
  ASSUME Types, Handover, Phases, CalFinish
  PROVE  Phases'
<1> SUFFICES ASSUME NEW b \in Axes PROVE Phase(b)'
  BY DEF Phases
<1>1. /\ pc[vCalibrate] = "idle" /\ calPc = "back"
      /\ back >= Backoff(taken[calAxis])
      /\ taken' = [taken EXCEPT ![calAxis] = Kept(taken[calAxis])]
      /\ scale' = [scale EXCEPT ![calAxis]
                     = taken'[calAxis] \div Divisor(calAxis)]
      /\ calibrated' = [calibrated EXCEPT ![calAxis] = TRUE]
      /\ NextAxis(calibrated')
      /\ UNCHANGED <<pc, pos, dirPin, back, boot>>
  BY DEF CalFinish, CalBack, swVars, motorVars
<1>2. calAxis \in Axes /\ ~calibrated[calAxis]
      /\ taken \in [Axes -> Nat] /\ scale \in [Axes -> Nat] /\ back \in Nat
      /\ calibrated \in [Axes -> BOOLEAN]
  BY <1>1 DEF Handover, Types, CalTypes, RitTypeOK
<1>3. Place(b)' = Place(b)
  BY <1>1, PlaceFree
<1>4. CASE b # calAxis
  <2>1. Same(b)
    BY <1>1, <1>2, <1>3, <1>4 DEF Same
  <2>2. QED
    BY <1>1, <1>4, <2>1, OtherNextPhase DEF Phases
<1>5. CASE b = calAxis
  <2>1. Backing(b)
    BY <1>1, <1>2, <1>5 DEF Phases, Phase
  <2>2. taken'[b] = Kept(taken[b]) /\ calibrated'[b]
        /\ scale'[b] = taken'[b] \div Divisor(b)
    BY <1>1, <1>2, <1>5
  <2>3. CASE Within(b)
    <3>1. /\ taken[b] = Track[b] /\ Place(b) = Track[b] - back
          /\ back <= Backoff(Track[b]) /\ Track[b] \in Nat
      BY <2>1, <2>3, PlaceType DEF Backing, Types
    <3>2. Backoff(Track[b]) \in Nat
          /\ Track[b] - Backoff(Track[b]) = Kept(Track[b])
      BY <3>1, BackoffKept
    <3>3. back = Backoff(Track[b])
      BY <1>1, <1>2, <1>5, <3>1, <3>2
    <3>4. Place(b)' = Home[b] /\ taken'[b] = Home[b]
      BY <1>3, <2>2, <3>1, <3>2, <3>3 DEF Home
    <3>5. Measured(b)'
      BY <1>1, <2>3, <3>4 DEF Measured, Within
    <3>6. QED
      BY <1>1, <2>2, <3>5, NextPhase
  <2>4. CASE ~Within(b)
    <3>1. taken'[b] = 0
      BY <2>1, <2>2, <2>4, OneStepKept DEF Backing
    <3>2. Divisor(b) \in Nat /\ Divisor(b) > 0
      BY MotionAssumption DEF Divisor, MotionAssumption
    <3>3. scale'[b] = 0
      BY <2>2, <3>1, <3>2
    <3>4. Measured(b)'
      BY <1>1, <2>4, <3>3 DEF Measured, Within
    <3>5. QED
      BY <1>1, <2>2, <3>4, NextPhase
  <2>5. QED
    BY <2>3, <2>4
<1>6. QED
  BY <1>4, <1>5

-----------------------------------------------------------------------------
LEMMA CalInvInit == MotionInit => CalInv
<1> SUFFICES ASSUME MotionInit PROVE CalInv
  OBVIOUS
<1>1. lpc = "idle"
  BY DEF MotionInit
<1>2. ASSUME NEW a \in Axes PROVE Phase(a)
  <2>1. /\ pc[vCalibrate] = "idle" /\ boot = pos /\ taken[a] = 0
        /\ calPc = "begin" /\ ~calibrated[a]
    BY TheTasks DEF MotionInit, RitInit
  <2>2. QED
    BY <2>1 DEF Phase, Place
<1>3. QED
  BY <1>1, <1>2 DEF CalInv

LEMMA CalInvStep ==
  ASSUME Types, Handover, IInv, CalInv, [MotionNext]_motionVars
  PROVE  CalInv'
<1>1. ASSUME UNCHANGED <<lpc, hist>>, hist.lines = 0 /\ lpc = "idle" => Phases'
      PROVE  CalInv'
  BY <1>1 DEF CalInv, Phases
<1>2. CASE Handler \/ TimerMatch \/ InCall(vCalibrate) \/ UNCHANGED motionVars
  <2>1. UNCHANGED <<calVars, lineVars>>
    BY <1>2 DEF Handler, TimerMatch, InCall, motionVars
  <2>2. ASSUME hist.lines = 0, lpc = "idle", NEW b \in Axes PROVE Phase(b)'
    <3>1. Same(b)
      BY <1>2, <2>1, <2>2, PlaceKept DEF Same, calVars
    <3>2. QED
      BY <2>1, <2>2, <3>1, SamePhase DEF CalInv, calVars
  <2>3. QED
    BY <1>1, <2>1, <2>2 DEF lineVars, Phases
<1>3. CASE \/ CalBegin \/ CalSeek \/ CalAtStart \/ CalAtEnd \/ CalBetween
           \/ CalTurn \/ CalBackStep \/ CalFinish
  <2>1. UNCHANGED lineVars
    BY <1>3 DEF CalBegin, CalSeek, CalAtStart, CalAtEnd, CalBetween, CalTurn,
       CalBackStep, CalFinish
  <2>2. hist.lines = 0 => Phases
    BY DEF CalInv, Phases
  <2>3. hist.lines = 0 => Phases'
    BY <1>3, <2>2, BeginPhases, SeekPhases, AtStartPhases, AtEndPhases,
       BetweenPhases, TurnPhases, BackStepPhases, FinishPhases
  <2>4. QED
    BY <1>1, <2>1, <2>3 DEF lineVars
<1>4. ASSUME NEW c \in Targets, G1(c) PROVE CalInv'
  <2>1. hist.lines \in Nat /\ hist'.lines = hist.lines + 1
    BY <1>4, MotionAssumption DEF G1, Types, LineTypes, Hist, MotionAssumption
  <2>2. QED
    BY <2>1 DEF CalInv
(* a line is being drawn, so that one was begun *)
<1>5. CASE DrawStep
  <2>1. lpc # "idle" /\ hist'.lines = hist.lines
    <3>1. CASE InCall(vStepperTask)
      <4>1. pc[vStepperTask] # "idle"
        BY <3>1, InsideFrame, TheTasks DEF InCall, Handover
      <4>2. QED
        BY <3>1, <4>1 DEF Handover, InCall, lineVars
    <3>2. CASE DriveMajor \/ DriveMinor
      BY <3>2 DEF DriveMajor, DriveMinor, Drive, AtLoc, Types, LineTypes, Hist
    <3>3. CASE Accumulate \/ Repay \/ Finish
      BY <3>3 DEF Accumulate, Repay, Finish, AtLoc
    <3>4. QED
      BY <1>5, <3>1, <3>2, <3>3 DEF DrawStep
  <2>2. QED
    BY <2>1 DEF CalInv
<1>6. QED
  BY <1>2, <1>3, <1>4, <1>5 DEF MotionNext, CalStep

LEMMA MotionInvariants ==
  ASSUME ~EarlyG1, Exclusive
  PROVE  Spec => [](Types /\ Handover /\ IInv /\ CalInv)
<1>1. Spec => [](Types /\ Handover /\ IInv)
  BY TypesAlways, HandoverHolds, MotionImplementsRit, RitInvariant, PTL
<1>2. MotionInit => CalInv
  BY CalInvInit
<1>3. Types /\ Handover /\ IInv /\ CalInv /\ [MotionNext]_motionVars => CalInv'
  BY CalInvStep
<1>4. QED
  BY <1>1, <1>2, <1>3, PTL DEF Spec

(* A call of vCalibrate for one axis leaves a calibrated one where it is.    *)
LEMMA CalibratedStays ==
  ASSUME Handover, IInv, NEW a \in Axes, calibrated[a]
  PROVE  Place(a) = pos[a]
<1> DEFINE b == req[vCalibrate]
           f == from[vCalibrate]
<1>1. CASE pc[vCalibrate] = "idle"
  BY <1>1 DEF Place
<1>2. CASE pc[vCalibrate] # "idle"
  <2>1. Stage(vCalibrate) /\ RitTypeOK /\ pc[vCalibrate] \in Locations
    BY TheTasks DEF IInv, RitTypeOK
  <2>2. ~AllCalibrated
    BY <1>2 DEF Handover, AllCalibrated
  <2>3. b # a
    BY <1>2, <2>1, <2>2 DEF Stage, Serves
  <2>4. AfterCall(f, b) = Advance(f, dirPin, b)
    BY <2>2 DEF AfterCall
  <2>5. f \in [Axes -> Int] /\ b \in Axes
    BY <2>1, TheTasks DEF RitTypeOK
  <2>6. Advance(f, dirPin, b)[a] = f[a]
    BY <2>3, <2>5 DEF Advance
  <2>7. pos = f \/ pos = AfterCall(f, b)
    BY <1>2, <2>1 DEF Stage, Preparing, Untouched, Halfway, Complete, Locations
  <2>8. QED
    BY <1>2, <2>4, <2>6, <2>7 DEF Place
<1>3. QED
  BY <1>1, <1>2

(* After calibration the carriage is where the step counts say, 98 % of the  *)
(* way from Start to End, and an axis that was left beyond its End switch    *)
(* has a scale of 0.                                                       *)
THEOREM MotionCalibrationMeasuresTrack ==
  ASSUME ~EarlyG1, Exclusive PROVE Spec => []CalibrationMeasuresTrack
<1>1. Handover /\ IInv /\ CalInv => CalibrationMeasuresTrack
  <2> SUFFICES ASSUME Handover, IInv, CalInv, NEW a \in Axes, calibrated[a],
                      hist.lines = 0
               PROVE  IF boot[a] <= Track[a]
                        THEN pos[a] = Home[a] /\ taken[a] = Home[a]
                        ELSE scale[a] = 0
    BY DEF CalibrationMeasuresTrack
  <2>1. Measured(a)
    BY DEF CalInv, Phase
  <2>2. Place(a) = pos[a]
    BY CalibratedStays
  <2>3. QED
    BY <2>1, <2>2 DEF Measured, Within
<1>2. QED
  BY <1>1, MotionInvariants, PTL

-----------------------------------------------------------------------------
(* What calibration leaves for triggerMotors: the scale of each axis, both   *)
(* direction pins towards Start, and no line drawn.                        *)
Ready ==
  /\ calPc # "done" => hist.lines = 0
  /\ \A a \in Axes : calibrated[a] =>
       /\ Within(a) => scale[a] = Home[a] \div Divisor(a)
       /\ hist.lines = 0 => dirPin[a]
  /\ calPc = "backstep" \/ (calPc = "back" /\ back > 0) => dirPin[calAxis]

(* the RIT_start that triggerMotors is in *)
Driving ==
  pc[vStepperTask] # "idle" =>
    \/ lpc = "accumulate" /\ req[vStepperTask] = major /\ d[major] > 0
    \/ lpc = "repay" /\ req[vStepperTask] = Other(major)

LEMMA ReadyInit == MotionInit => Ready /\ Driving
<1> SUFFICES ASSUME MotionInit PROVE Ready /\ Driving
  OBVIOUS
<1>1. pc[vStepperTask] = "idle" /\ \A a \in Axes : ~calibrated[a]
  BY TheTasks DEF MotionInit, RitInit
<1>2. QED
  BY <1>1 DEF MotionInit, Ready, Driving

(* An axis that backs off has counted at least one step. *)
LEMMA BacksOff ==
  ASSUME Types, Handover, CalInv, hist.lines = 0, CalFinish
  PROVE  back > 0
<1>1. Backing(calAxis) /\ calAxis \in Axes /\ calPc = "back"
      /\ back >= Backoff(taken[calAxis])
  BY DEF CalInv, Phase, CalFinish, CalBack, Handover
<1>2. Track[calAxis] \in Nat /\ Track[calAxis] > 0 /\ back \in Nat
  BY <1>1, PlaceType DEF Types, CalTypes
<1>3. taken[calAxis] \in Nat /\ taken[calAxis] > 0
  BY <1>1, <1>2 DEF Backing
<1>4. Backoff(taken[calAxis]) > 0
  BY <1>3 DEF Backoff
<1>5. QED
  BY <1>1, <1>2, <1>3, <1>4, BackoffKept

LEMMA ReadyCal ==
  ASSUME Types, Handover, IInv, CalInv, CalInv', Ready, CalStep
  PROVE  Ready'
<1>1. UNCHANGED <<hist, lpc, boot>> /\ calAxis \in Axes /\ back \in Nat
      /\ dirPin \in [Axes -> BOOLEAN] /\ calibrated \in [Axes -> BOOLEAN]
      /\ scale \in [Axes -> Nat] /\ taken \in [Axes -> Nat]
  BY DEF CalStep, CalBegin, CalSeek, CalAtStart, CalAtEnd, CalBetween, CalTurn,
     CalBackStep, CalFinish, InCall, lineVars, calVars, Types, RitTypeOK, CalTypes
<1>2. calPc # "done" /\ ~calibrated[calAxis] /\ hist.lines = 0
  <2>1. calPc # "done"
    BY TheTasks, InsideFrame DEF CalStep, CalBegin, CalSeek, CalChecks,
       CalAtStart, CalAtEnd, CalBetween, CalBack, CalTurn, CalBackStep,
       CalFinish, InCall, Handover
  <2>2. QED
    BY <2>1 DEF Handover, Ready
(* everything but the end of an axis leaves the calibrated ones alone *)
<1>3. ASSUME calibrated' = calibrated, scale' = scale,
             \A a \in Axes : a # calAxis \/ calPc = "begin"
                               => dirPin'[a] = dirPin[a] \/ dirPin'[a],
             calPc' = "backstep" \/ (calPc' = "back" /\ back' > 0)
               => dirPin'[calAxis']
      PROVE  Ready'
  <2>1. ASSUME NEW a \in Axes, calibrated[a]
        PROVE  /\ Within(a)' => scale'[a] = Home[a] \div Divisor(a)
               /\ dirPin'[a]
    BY <1>1, <1>2, <1>3, <2>1 DEF Ready, Within
  <2>2. QED
    BY <1>1, <1>2, <1>3, <2>1 DEF Ready
<1>4. CASE CalBegin
  BY <1>1, <1>3, <1>4 DEF CalBegin, CalGoto, SetDirections
<1>5. CASE CalSeek
  BY <1>1, <1>3, <1>5 DEF CalSeek, CalGoto, Call
<1>6. CASE CalAtStart
  <2>1. calPc' \in {"done", "seek"} /\ calPc = "check"
    BY <1>6 DEF CalAtStart, CalChecks, NextAxis, CalGoto
  <2>2. dirPin' = [dirPin EXCEPT ![calAxis] = FALSE]
        /\ UNCHANGED <<calibrated, scale>>
    BY <1>6 DEF CalAtStart, SetDirections
  <2>3. QED
    BY <1>1, <1>3, <2>1, <2>2
<1>7. CASE CalAtEnd
  BY <1>1, <1>3, <1>7 DEF CalAtEnd, CalGoto, ritVars
<1>8. CASE CalBetween
  BY <1>1, <1>3, <1>8 DEF CalBetween, CalChecks, NextAxis, CalGoto, ritVars
<1>9. CASE CalTurn
  <2>1. dirPin' = [dirPin EXCEPT ![calAxis] = TRUE] /\ calPc = "back"
        /\ calPc' = "backstep" /\ UNCHANGED <<calibrated, scale, calAxis>>
    BY <1>9 DEF CalTurn, CalBack, CalGoto, SetDirections
  <2>2. QED
    BY <1>1, <1>3, <2>1
<1>10. CASE CalBackStep
  BY <1>1, <1>3, <1>10 DEF CalBackStep, CalGoto, Call, Ready
<1>11. CASE CalFinish
  <2>1. /\ taken' = [taken EXCEPT ![calAxis] = Kept(taken[calAxis])]
        /\ scale' = [scale EXCEPT ![calAxis]
                       = taken'[calAxis] \div Divisor(calAxis)]
        /\ calibrated' = [calibrated EXCEPT ![calAxis] = TRUE]
        /\ dirPin' = dirPin /\ calPc = "back" /\ calPc' \in {"done", "seek"}
    BY <1>11 DEF CalFinish, CalBack, NextAxis, CalGoto
  <2>2. dirPin[calAxis]
    BY <1>2, <1>11, <2>1, BacksOff DEF Ready
  <2>3. ASSUME NEW a \in Axes, calibrated'[a]
        PROVE  /\ Within(a)' => scale'[a] = Home[a] \div Divisor(a)
               /\ dirPin'[a]
    <3>1. CASE a # calAxis
      BY <1>1, <1>2, <2>1, <2>3, <3>1 DEF Ready, Within
    <3>2. CASE a = calAxis
      <4>1. Within(a)' => taken'[a] = Home[a]
        BY <1>1, <1>2, <2>3 DEF CalInv, Phase, Measured, Home
      <4>2. QED
        BY <1>1, <2>1, <2>2, <3>2, <4>1
    <3>3. QED
      BY <3>1, <3>2
  <2>4. QED
    BY <1>1, <1>2, <2>1, <2>3 DEF Ready
<1>12. CASE InCall(vCalibrate)
  BY <1>1, <1>3, <1>12 DEF InCall, Inside, SetX, SetY, SetCount, Arm, Unmask,
     Take, Mask, calVars, Ready
<1>13. QED
  BY <1>4, <1>5, <1>6, <1>7, <1>8, <1>9, <1>10, <1>11, <1>12 DEF CalStep

(* Once calibration is over nothing but the stepper task acts. *)
LEMMA CalibrateGone ==
  ASSUME Handover, calPc = "done"
  PROVE  ~CalStep
  BY TheTasks, InsideFrame DEF CalStep, CalBegin, CalSeek, CalChecks, CalAtStart,
     CalAtEnd, CalBetween, CalBack, CalTurn, CalBackStep, CalFinish, InCall,
     Handover

LEMMA CalibrateFrame ==
  ASSUME Handover, CalStep
  PROVE  /\ UNCHANGED lineVars /\ calPc # "done"
         /\ lpc = "idle" /\ pc[vStepperTask] = "idle"
  BY CalibrateGone DEF CalStep, CalBegin, CalSeek, CalAtStart, CalAtEnd,
     CalBetween, CalTurn, CalBackStep, CalFinish, InCall, Handover

(* A step of triggerMotors comes after calibration. *)
LEMMA DrawFrame ==
  ASSUME Handover, DrawStep
  PROVE  calPc = "done" /\ UNCHANGED <<calVars, calibrated, dirPin>>
<1>1. CASE DriveMajor \/ Accumulate \/ DriveMinor \/ Repay \/ Finish
  <2>1. calPc = "done"
    BY <1>1, StepperAfterCalibration DEF DriveMajor, Accumulate, DriveMinor,
       Repay, Finish
  <2>2. UNCHANGED <<calVars, calibrated, dirPin>>
    BY <1>1 DEF DriveMajor, Drive, Call, Accumulate, DriveMinor, Repay, Finish,
       ritVars
  <2>3. QED
    BY <2>1, <2>2
<1>2. CASE InCall(vStepperTask)
  <2>1. pc[vStepperTask] # "idle" /\ UNCHANGED <<calVars, calibrated, dirPin>>
    BY <1>2, TheTasks, InsideFrame DEF InCall, Inside, SetX, SetY, SetCount, Arm,
       Unmask, Take, Mask, Handover
  <2>2. QED
    BY <2>1 DEF Handover
<1>3. QED
  BY <1>1, <1>2 DEF DrawStep

LEMMA ReadyStep ==
  ASSUME Types, Handover, IInv, CalInv, CalInv', Ready,
         ~EarlyG1, [MotionNext]_motionVars
  PROVE  Ready'
<1>1. CASE Handler \/ TimerMatch \/ UNCHANGED motionVars
  <2>1. UNCHANGED <<calVars, lineVars, calibrated, dirPin>>
    BY <1>1 DEF Handler, TimerMatch, RIT_IRQHandler, Match, motionVars, ritVars
  <2>2. QED
    BY <2>1 DEF Ready, Within, calVars, lineVars
<1>2. CASE CalStep
  BY <1>2, ReadyCal
<1>3. ASSUME NEW c \in Targets, G1(c) PROVE Ready'
  <2>1. calPc = "done" /\ UNCHANGED <<calVars, calibrated>>
        /\ hist'.lines = hist.lines + 1 /\ hist.lines \in Nat
    BY <1>3, MotionAssumption DEF G1, SetDirections, Types, LineTypes, Hist,
       MotionAssumption
  <2>2. QED
    BY <2>1 DEF Ready, Within, calVars
<1>4. CASE DrawStep
  <2>1. calPc = "done" /\ UNCHANGED <<calVars, calibrated, dirPin>>
    BY <1>4, DrawFrame
  <2>2. hist'.lines = hist.lines
    BY <1>4 DEF DrawStep, DriveMajor, DriveMinor, Drive, Accumulate, Repay,
       Finish, InCall, lineVars, Types, LineTypes, Hist
  <2>3. QED
    BY <2>1, <2>2 DEF Ready, Within, calVars
<1>5. QED
  BY <1>1, <1>2, <1>3, <1>4 DEF MotionNext

LEMMA DrivingStep ==
  ASSUME Types, Handover, Driving, ~EarlyG1, [MotionNext]_motionVars
  PROVE  Driving'
<1>1. CASE Handler \/ TimerMatch \/ UNCHANGED motionVars
  <2>1. UNCHANGED <<pc, req, lineVars>>
    BY <1>1 DEF Handler, TimerMatch, RIT_IRQHandler, Match, motionVars, ritVars,
       swVars
  <2>2. QED
    BY <2>1 DEF Driving, lineVars
<1>2. CASE CalStep
  <2>1. Handover' /\ lpc' = "idle"
    BY <1>2, HandoverStep, CalibrateFrame DEF MotionNext, lineVars
  <2>2. QED
    BY <2>1 DEF Driving, Handover
<1>3. ASSUME NEW c \in Targets, G1(c) PROVE Driving'
  BY <1>3 DEF G1, SetDirections, swVars, Driving, Handover
<1>4. CASE DriveMajor
  BY <1>4, TheTasks DEF DriveMajor, Drive, Call, Driving, Handover, RitTypeOK
<1>5. CASE DriveMinor
  BY <1>5, TheTasks DEF DriveMinor, Drive, Call, Driving, Handover, RitTypeOK
<1>6. CASE Accumulate \/ Repay \/ Finish
  BY <1>6 DEF Accumulate, Repay, Finish, AtLoc, ritVars, swVars, Driving
<1>7. CASE InCall(vStepperTask)
  <2>1. pc[vStepperTask] # "idle" /\ UNCHANGED <<req, lineVars>>
    BY <1>7, TheTasks, InsideFrame DEF InCall, Inside, SetX, SetY, SetCount, Arm,
       Unmask, Take, Mask, Handover
  <2>2. QED
    BY <2>1 DEF Driving, lineVars
<1>8. QED
  BY <1>1, <1>2, <1>3, <1>4, <1>5, <1>6, <1>7 DEF MotionNext, DrawStep

Drawing == Types /\ Handover /\ IInv /\ CalInv /\ Ready /\ Driving

LEMMA DrawingHolds == ASSUME ~EarlyG1, Exclusive PROVE Spec => []Drawing
<1>1. Spec => [](Types /\ Handover /\ IInv /\ CalInv)
  BY MotionInvariants
<1>2. MotionInit => Ready /\ Driving
  BY ReadyInit
<1>3. /\ Types /\ Handover /\ IInv /\ CalInv
      /\ (Types /\ Handover /\ IInv /\ CalInv)'
      /\ Ready /\ Driving /\ [MotionNext]_motionVars
      => (Ready /\ Driving)'
  BY ReadyStep, DrivingStep
<1>4. QED
  BY <1>1, <1>2, <1>3, PTL DEF Spec, Drawing

-----------------------------------------------------------------------------
(* triggerMotors over the real driver implements Line.                     *)

(* The direction pins and the carriage as Line sees them. *)
LineDir == IF calPc = "done" THEN dirPin ELSE [a \in Axes |-> TRUE]
LinePos == IF calPc = "done" THEN pos ELSE Home

(* The arithmetic of Line is that of Motion. *)
LEMMA SameArithmetic ==
  /\ L!Axes = Axes /\ L!One = One
  /\ \A a : L!Other(a) = Other(a)
  /\ \A dist : L!Dominating(dist) = Dominating(dist)
  /\ \A dist : L!DeltaError(dist) = DeltaError(dist)
  /\ \A dist : L!Dyadic(dist) = Dyadic(dist)
  /\ \A e, delta, ex : L!Crosses(e, delta, ex) = Crosses(e, delta, ex)
  /\ \A p, a : L!AtLimit(p, a) = AtLimit(p, a)
  /\ \A p, dir, a : L!Advance(p, dir, a) = Advance(p, dir, a)
<1>1. L!Axes = Axes /\ L!One = One /\ \A a : L!Other(a) = Other(a)
  BY DEF L!Axes, Axes, L!One, One, L!Other, Other
<1>2. \A dist : L!Dominating(dist) = Dominating(dist)
  BY DEF L!Dominating, Dominating
<1>3. \A dist : L!DeltaError(dist) = DeltaError(dist)
  BY <1>1, <1>2 DEF L!DeltaError, DeltaError
<1>4. \A dist : L!Dyadic(dist) = Dyadic(dist)
  BY <1>1, <1>2 DEF L!Dyadic, Dyadic
<1>5. \A e, delta, ex : L!Crosses(e, delta, ex) = Crosses(e, delta, ex)
  BY <1>1 DEF L!Crosses, Crosses
<1>6. \A p, a : L!AtLimit(p, a) = AtLimit(p, a)
  BY DEF L!AtLimit, AtLimit, L!LimitStart, LimitStart, L!LimitEnd, LimitEnd
<1>7. \A p, dir, a : L!Advance(p, dir, a) = Advance(p, dir, a)
  BY DEF L!Advance, Advance
<1>8. QED
  BY <1>1, <1>2, <1>3, <1>4, <1>5, <1>6, <1>7

LEMMA SameDistance ==
  ASSUME scale = [a \in Axes |-> Home[a] \div Divisor(a)], NEW c0, NEW c1
  PROVE  L!Distance(c0, c1, wholeAbs) = Distance(c0, c1)
<1>1. \A v : L!Abs(v, wholeAbs) = Abs(v, wholeAbs)
  BY DEF L!Abs, Abs, L!Magnitude, Magnitude
<1>2. QED
  BY <1>1, SameArithmetic DEF L!Distance, Distance

LEMMA Stutters ==
  ASSUME UNCHANGED <<p0, p1, d, major, error, deltaError, exact, wholeAbs>>,
         UNCHANGED <<LinePc, LineDir, LinePos, LineHist>>
  PROVE  UNCHANGED L!vars
  BY DEF L!vars, LineDir, LinePos

(* Where the carriage is within a call of the stepper task. *)
MidCall ==
  /\ calPc = "done" /\ AllCalibrated
  /\ req[vStepperTask] \in Axes
  /\ ~Driven => pos = from[vStepperTask]
  /\ Driven => pos = AfterCall(from[vStepperTask], req[vStepperTask])
  /\ pc[vStepperTask] = "mask" => Driven
  /\ pc[vStepperTask] = "unmask" => steps[req[vStepperTask]] = 2

LEMMA StepperView == Drawing /\ pc[vStepperTask] # "idle" => MidCall
<1> SUFFICES ASSUME Drawing, pc[vStepperTask] # "idle" PROVE MidCall
  OBVIOUS
<1> DEFINE t == vStepperTask
<1>1. Stage(t) /\ pc[t] \in Locations /\ req[t] \in Axes
  BY TheTasks DEF Drawing, IInv, RitTypeOK
<1>2. calPc = "done" /\ AllCalibrated
  BY DEF Drawing, Handover
<1>3. Axes = {req[t], Other(req[t])}
  BY <1>1, OtherAxis
<1>4. CASE pc[t] \in {"setX", "setY", "arm", "unmask"}
  BY <1>1, <1>2, <1>4 DEF Stage, Preparing, Driven, Loaded, Count, MidCall
<1>5. CASE pc[t] \in {"wait", "mask"}
  <2>1. steps[Other(req[t])] = 0
    BY <1>1, <1>5 DEF Stage
  <2>2. Driven <=> steps[req[t]] = 0
    BY <1>3, <1>5, <2>1 DEF Driven
  <2>3. QED
    BY <1>1, <1>2, <1>5, <2>2 DEF Stage, Untouched, Halfway, Complete, MidCall
<1>6. QED
  BY <1>1, <1>2, <1>4, <1>5 DEF Locations, MidCall

LEMMA StepperViewNext == (Drawing /\ pc[vStepperTask] # "idle" => MidCall)'
  BY StepperView, PTL

(* Counting a step and taking it off again. *)
Counted(h, a) == [h EXCEPT !.count[a] = @ + 1]
Uncounted(h, a) == [h EXCEPT !.count[a] = @ - 1]

LEMMA CountedBack ==
  ASSUME NEW h \in Hist, NEW a \in Axes
  PROVE  Uncounted(Counted(h, a), a) = h
<1> DEFINE k == Counted(h, a)
<1>1. h.count \in [Axes -> Nat] /\ h.count[a] \in Nat
  BY DEF Hist
<1>2. k = [h EXCEPT !.count[a] = @ + 1]
  BY DEF Counted
<1>3. k.count = [h.count EXCEPT ![a] = @ + 1]
  BY <1>2 DEF Hist
<1>4. [k.count EXCEPT ![a] = @ - 1] = h.count
  BY <1>1, <1>3
<1>5. [k EXCEPT !.count[a] = @ - 1] = h
  BY <1>2, <1>4 DEF Hist
<1>6. QED
  BY <1>5 DEF Uncounted

LEMMA CountedAgain ==
  ASSUME NEW h \in Hist, NEW a \in Axes
  PROVE  Counted(Uncounted(h, a), a) = h
<1> DEFINE k == Uncounted(h, a)
<1>1. h.count \in [Axes -> Nat] /\ h.count[a] \in Nat
  BY DEF Hist
<1>2. k = [h EXCEPT !.count[a] = @ - 1]
  BY DEF Uncounted
<1>3. k.count = [h.count EXCEPT ![a] = @ - 1]
  BY <1>2 DEF Hist
<1>4. [k.count EXCEPT ![a] = @ + 1] = h.count
  BY <1>1, <1>3
<1>5. [k EXCEPT !.count[a] = @ + 1] = h
  BY <1>2, <1>4 DEF Hist
<1>6. QED
  BY <1>5 DEF Counted

(* The initial state. *)
LEMMA LineInit == MotionInit => L!Init
<1> SUFFICES ASSUME MotionInit PROVE L!Init
  OBVIOUS
<1>1. pc[vStepperTask] = "idle" /\ calPc = "begin"
  BY TheTasks DEF MotionInit, RitInit
<1>2. LinePc = "idle" /\ LineHist = hist
  BY <1>1 DEF LinePc, LineHist, Driven, MotionInit
<1>3. L!NoSteps = NoSteps /\ L!Axes = Axes
  BY DEF L!NoSteps, NoSteps, L!Axes, Axes
<1>4. QED
  BY <1>1, <1>2, <1>3 DEF MotionInit, L!Init

(* The interrupts: Line makes its step at the toggle that ends a call. *)
LEMMA HandlerDraws ==
  ASSUME Drawing, Drawing', Handler, calPc = "done", ~Driven, Driven'
  PROVE  L!Next
<1> DEFINE t == vStepperTask
           b == req[t]
<1>1. UNCHANGED <<calVars, lineVars, pc, req, from, calibrated, dirPin>>
  BY DEF Handler, RIT_IRQHandler, swVars
<1>2. pc[t] # "idle" /\ pc'[t] # "idle"
  BY <1>1 DEF Driven
<1>3. pos = from[t] /\ b \in Axes /\ AllCalibrated
  BY <1>2, StepperView DEF MidCall
<1>4. pos' = IF AtLimit(pos, b) THEN pos ELSE Advance(pos, dirPin, b)
  <2>1. pos' = AfterCall(from[t], b)'
    BY <1>1, <1>2, StepperViewNext DEF MidCall
  <2>2. QED
    BY <1>1, <1>3, <2>1 DEF AfterCall, AllCalibrated
<1>5. LineHist' = hist /\ LineHist = Uncounted(hist, b) /\ LinePc' = lpc
  BY <1>1 DEF LineHist, LinePc, lineVars, Uncounted
<1>6. hist = Counted(LineHist, b)
  <2>1. hist \in Hist
    BY DEF Drawing, Types, LineTypes
  <2>2. QED
    BY <1>3, <1>5, <2>1, CountedAgain
<1>7. L!Step(b)
  BY <1>1, <1>4, <1>5, <1>6, SameArithmetic DEF L!Step, calVars, Counted
<1>8. UNCHANGED <<p0, p1, d, major, error, deltaError, exact, wholeAbs, LineDir>>
  BY <1>1 DEF lineVars, calVars, LineDir
<1>9. CASE lpc = "accumulate" /\ b = major /\ d[major] > 0
  <2>1. LinePc = "major" /\ LinePc' = "accumulate"
    BY <1>5, <1>9 DEF LinePc
  <2>2. L!DriveMajor
    BY <1>7, <1>8, <1>9, <2>1 DEF L!DriveMajor, LineDir
  <2>3. QED
    BY <2>2 DEF L!Next, L!Draw
<1>10. CASE lpc = "repay" /\ b = Other(major)
  <2>1. LinePc = "minor" /\ LinePc' = "repay"
    BY <1>5, <1>10 DEF LinePc
  <2>2. L!DriveMinor
    BY <1>7, <1>8, <1>10, <2>1, SameArithmetic DEF L!DriveMinor, LineDir
  <2>3. QED
    BY <2>2 DEF L!Next, L!Draw
<1>11. QED
  BY <1>2, <1>9, <1>10 DEF Drawing, Driving

LEMMA HandlerDrawsOrStutters ==
  ASSUME Drawing, Drawing', Handler \/ TimerMatch \/ UNCHANGED motionVars
  PROVE  L!Next \/ UNCHANGED L!vars
<1> DEFINE t == vStepperTask
<1>1. UNCHANGED <<calVars, lineVars, pc, req, from, calibrated, dirPin>>
  BY DEF Handler, TimerMatch, RIT_IRQHandler, Match, swVars, motionVars, ritVars
<1>2. UNCHANGED <<p0, p1, d, major, error, deltaError, exact, wholeAbs, LineDir>>
  BY <1>1 DEF lineVars, calVars, LineDir
(* A carriage that has made its step is not moved again. *)
<1>3. Driven => Driven'
  <2>1. ASSUME \A a \in Axes : steps[a] = 0 PROVE steps' = steps
    <3>1. CASE Handler
      <4>1. "x" \in Axes /\ "y" \in Axes
        BY DEF Axes
      <4>2. Serve(Motors, "x") = Motors
        BY <2>1, <4>1 DEF Serve, Motors
      <4>3. Serve(Motors, "y") = Motors
        BY <2>1, <4>1 DEF Serve, Motors
      <4>4. QED
        BY <3>1, <4>2, <4>3 DEF Handler, RIT_IRQHandler, Served, Motors
    <3>2. CASE TimerMatch \/ UNCHANGED motionVars
      BY <3>2 DEF TimerMatch, Match, motorVars, motionVars, ritVars
    <3>3. QED
      BY <3>1, <3>2
  <2>2. QED
    BY <1>1, <2>1 DEF Driven
<1>4. CASE ~Driven /\ Driven' /\ Handler
  <2>1. pc[t] # "idle"
    BY <1>4 DEF Driven
  <2>2. QED
    BY <1>4, <2>1, HandlerDraws, StepperView DEF MidCall
<1>5. CASE (~Driven /\ Driven') /\ ~Handler
  <2>1. UNCHANGED <<pc, steps>>
    BY <1>5 DEF TimerMatch, Match, swVars, motorVars, motionVars, ritVars
  <2>2. QED
    BY <1>5, <2>1 DEF Driven
<1>6. CASE Driven' <=> Driven
  <2>1. UNCHANGED <<LinePc, LineHist>>
    BY <1>1, <1>6 DEF LinePc, LineHist, lineVars
  <2>2. LinePos' = LinePos
    <3>1. CASE calPc # "done"
      BY <1>1, <3>1 DEF LinePos, calVars
    <3>2. CASE pc[t] # "idle"
      <4>1. AfterCall(from[t], req[t])' = AfterCall(from[t], req[t])
        BY <1>1 DEF AfterCall, AllCalibrated
      <4>2. pos' = pos
        BY <1>1, <1>6, <3>2, <4>1, StepperView, StepperViewNext DEF MidCall
      <4>3. QED
        BY <1>1, <4>2 DEF LinePos, calVars
    <3>3. CASE calPc = "done" /\ pc[t] = "idle"
      <4>1. AllIdle
        BY <3>3, StepperAlone DEF Drawing
      <4>2. ~Handler
        BY <4>1 DEF Drawing, IInv, QuietBetweenCalls, Handler, RIT_IRQHandler
      <4>3. pos' = pos
        BY <4>2 DEF TimerMatch, Match, motorVars, motionVars, ritVars
      <4>4. QED
        BY <1>1, <4>3 DEF LinePos, calVars
    <3>4. QED
      BY <3>1, <3>2, <3>3
  <2>3. QED
    BY <1>2, <2>1, <2>2, Stutters
<1>7. QED
  BY <1>3, <1>4, <1>5, <1>6

(* No carriage is left beyond its End switch at power-up, so that none is    *)
(* taken for calibrated at once.                                           *)
BootWithin == \A a \in Axes : \A p \in Boot : p <= Track[a]

LEMMA DrawnScale ==
  ASSUME BootWithin, Drawing, calPc = "done"
  PROVE  scale = [a \in Axes |-> Home[a] \div Divisor(a)]
<1>1. ASSUME NEW a \in Axes PROVE scale[a] = Home[a] \div Divisor(a)
  <2>1. calibrated[a] /\ Within(a)
    BY DEF Drawing, Handover, AllCalibrated, Types, CalTypes, BootWithin, Within
  <2>2. QED
    BY <2>1 DEF Drawing, Ready
<1>2. scale \in [Axes -> Nat]
  BY DEF Drawing, Types, CalTypes
<1>3. QED
  BY <1>1, <1>2

(* Calibration is over when Line begins. *)
LEMMA CalStutters ==
  ASSUME BootWithin, Drawing, Drawing', CalStep
  PROVE  UNCHANGED L!vars
<1>1. /\ UNCHANGED lineVars /\ calPc # "done"
      /\ lpc = "idle" /\ pc[vStepperTask] = "idle"
  BY CalibrateFrame DEF Drawing
<1>2. pc'[vStepperTask] = "idle"
  BY <1>1 DEF Drawing, Handover, lineVars
<1>3. UNCHANGED <<p0, p1, d, major, error, deltaError, exact, wholeAbs>>
      /\ UNCHANGED <<LinePc, LineHist>>
  BY <1>1, <1>2 DEF lineVars, LinePc, LineHist, Driven
<1>4. UNCHANGED <<LineDir, LinePos>>
  <2>1. CASE calPc' # "done"
    BY <1>1, <2>1 DEF LineDir, LinePos, Home
  <2>2. CASE calPc' = "done"
    <3>1. AllCalibrated' /\ pc'[vCalibrate] = "idle"
      BY <2>2 DEF Drawing, Handover
    <3>2. hist'.lines = 0
      BY <1>1 DEF Drawing, Ready, lineVars
    <3>3. ASSUME NEW a \in Axes PROVE dirPin'[a] = TRUE /\ pos'[a] = Home[a]
      <4>1. calibrated'[a]
        BY <3>1 DEF AllCalibrated
      <4>2. dirPin'[a] /\ dirPin'[a] \in BOOLEAN
        BY <3>2, <4>1 DEF Drawing, Ready, Types, RitTypeOK
      <4>3. Measured(a)'
        BY <3>2, <4>1 DEF Drawing, CalInv, Phase
      <4>4. Within(a)'
        <5>1. boot' \in [Axes -> Boot]
          BY DEF Drawing, Types, CalTypes
        <5>2. boot'[a] <= Track[a]
          BY <5>1 DEF BootWithin
        <5>3. QED
          BY <5>2 DEF Within
      <4>5. Place(a)' = Home[a]
        BY <4>3, <4>4 DEF Measured, Home
      <4>6. Place(a)' = pos'[a]
        BY <3>1 DEF Place
      <4>7. QED
        BY <4>2, <4>5, <4>6
    <3>4. dirPin' = [a \in Axes |-> TRUE]
      BY <3>3 DEF Drawing, Types, RitTypeOK
    <3>5. pos' = Home
      <4>1. pos' \in [Axes -> Int] /\ Home \in [Axes -> Nat]
        BY HomeType DEF Drawing, Types, RitTypeOK
      <4>2. \A a \in Axes : pos'[a] = Home[a]
        BY <3>3
      <4>3. QED
        BY <4>1, <4>2
    <3>6. Home' = Home
      BY DEF Home
    <3>7. QED
      BY <1>1, <2>2, <3>4, <3>5, <3>6 DEF LineDir, LinePos
  <2>3. QED
    BY <2>1, <2>2
<1>5. QED
  BY <1>3, <1>4, Stutters

(* A G1 is taken between two lines. *)
LEMMA G1Moves ==
  ASSUME ~EarlyG1, BootWithin, Drawing, Drawing', NEW c \in Targets, G1(c)
  PROVE  L!Next
<1>1. calPc = "done" /\ calPc' = "done" /\ lpc = "idle" /\ lpc' = "major"
      /\ pc[vStepperTask] = "idle" /\ pc' = pc /\ pos' = pos
  BY DEF G1, SetDirections, swVars, motorVars, calVars, Drawing, Handover
<1>2. LinePc = "idle" /\ LinePc' = "major" /\ LineHist = hist /\ LineHist' = hist'
  BY <1>1 DEF LinePc, LineHist, Driven
<1>3. scale = [a \in Axes |-> Home[a] \div Divisor(a)]
  BY <1>1, DrawnScale
<1>4. L!Distance(p0, c, wholeAbs) = Distance(p0, c)
  BY <1>3, SameDistance
<1>5. L!NoSteps = NoSteps
  BY SameArithmetic DEF L!NoSteps, NoSteps
<1>6. /\ p1' = c
      /\ d' = Distance(p0, c)
      /\ dirPin' = [a \in Axes |-> p0[a] < c[a]]
      /\ major' = Dominating(Distance(p0, c))
      /\ deltaError' = DeltaError(Distance(p0, c))
      /\ hist.lines < MaxLines
      /\ hist' = [from |-> pos, error |-> error, count |-> NoSteps,
                  lines |-> hist.lines + 1]
      /\ UNCHANGED <<p0, error, exact, wholeAbs>>
  BY DEF G1, SetDirections
<1>7. L!MoveTo(c)
  BY <1>1, <1>2, <1>4, <1>5, <1>6, SameArithmetic DEF L!MoveTo
<1>8. QED
  BY <1>7 DEF L!Next

(* The calls of triggerMotors begin before the step is made. *)
LEMMA DriveStutters ==
  ASSUME Drawing, Drawing', DriveMajor \/ DriveMinor
  PROVE  UNCHANGED L!vars
<1> DEFINE t == vStepperTask
           b == req'[t]
<1>1. /\ pc[t] = "idle" /\ pc'[t] = "setX" /\ b \in Axes
      /\ UNCHANGED <<calVars, pos, dirPin>>
      /\ hist' = Counted(hist, b)
      /\ UNCHANGED <<p0, p1, d, major, error, deltaError, exact, wholeAbs>>
      /\ \/ lpc = "major" /\ lpc' = "accumulate"
         \/ lpc = "minor" /\ lpc' = "repay"
  BY TheTasks, OtherAxis DEF DriveMajor, DriveMinor, AtLoc, Drive, Call, Goto,
     motorVars, Counted, Drawing, Types, LineTypes, RitTypeOK
<1>2. Driven /\ ~Driven'
  BY <1>1 DEF Driven
<1>3. LinePc' = LinePc
  BY <1>1, <1>2 DEF LinePc
<1>4. LineHist' = LineHist
  <2>1. LineHist' = Uncounted(hist', b)
    BY <1>2 DEF LineHist, Uncounted
  <2>2. hist \in Hist
    BY DEF Drawing, Types, LineTypes
  <2>3. QED
    BY <1>1, <1>2, <2>1, <2>2, CountedBack DEF LineHist
<1>5. UNCHANGED <<LineDir, LinePos>>
  BY <1>1 DEF LineDir, LinePos, calVars, Home
<1>6. QED
  BY <1>1, <1>3, <1>4, <1>5, Stutters

(* The steps within a call make no step of Line. *)
LEMMA CallStutters ==
  ASSUME Drawing, Drawing', InCall(vStepperTask)
  PROVE  UNCHANGED L!vars
<1> DEFINE t == vStepperTask
<1>1. pc[t] # "idle" /\ UNCHANGED <<calVars, lineVars, req, pos, dirPin>>
  BY TheTasks, InsideFrame DEF InCall, Inside, SetX, SetY, SetCount, Arm, Unmask,
     Take, Mask, motorVars, Drawing, Types
<1>2. MidCall /\ t \in Tasks /\ pc \in [Tasks -> Locations]
  BY <1>1, StepperView, TheTasks DEF Drawing, Types, RitTypeOK
<1>3. Driven' <=> Driven
  <2>1. CASE SetX(t) \/ SetY(t) \/ Arm(t)
    BY <1>2, <2>1 DEF SetX, SetY, SetCount, Arm, Goto, Driven
  <2>2. CASE Unmask(t)
    BY <1>2, <2>2 DEF Unmask, Goto, Driven, motorVars, MidCall
  <2>3. CASE Take(t)
    BY <1>2, <2>3 DEF Take, Goto, Driven, motorVars
  <2>4. CASE Mask(t)
    BY <1>2, <2>4 DEF Mask, Goto, Driven, motorVars, MidCall
  <2>5. QED
    BY <2>1, <2>2, <2>3, <2>4 DEF InCall, Inside
<1>4. UNCHANGED <<LinePc, LineHist, LineDir, LinePos>>
  BY <1>1, <1>3 DEF LinePc, LineHist, LineDir, LinePos, calVars, lineVars, Home
<1>5. QED
  BY <1>1, <1>4, Stutters DEF lineVars

(* The arithmetic of the loop. *)
LEMMA LoopSteps ==
  ASSUME BootWithin, Drawing, Drawing', Accumulate \/ Repay \/ Finish
  PROVE  L!Next
<1>1. /\ calPc = "done" /\ pc[vStepperTask] = "idle"
      /\ UNCHANGED <<ritVars, calVars, hist>>
  BY StepperAfterCalibration DEF Drawing, Accumulate, Repay, Finish
<1>2. /\ LinePc = lpc /\ LinePc' = lpc' /\ LineHist = hist /\ LineHist' = hist'
      /\ UNCHANGED <<LineDir, LinePos>>
  BY <1>1 DEF LinePc, LineHist, LineDir, LinePos, Driven, ritVars, swVars,
     motorVars, calVars, Home
<1>3. CASE Accumulate
  <2>1. L!Distance(p0, p1, wholeAbs) = Distance(p0, p1)
    BY <1>1, DrawnScale, SameDistance
  <2>2. L!Shorten <=> Shorten
    BY DEF L!Shorten, Shorten
  <2>3. L!Accumulate
    BY <1>1, <1>2, <1>3, <2>1, <2>2, SameArithmetic DEF Accumulate, AtLoc,
       L!Accumulate, LineDir, LinePos
  <2>4. QED
    BY <2>3 DEF L!Next, L!Draw
<1>4. CASE Repay
  <2>1. L!Repay
    BY <1>1, <1>2, <1>4, SameArithmetic DEF Repay, AtLoc, Shorten, L!Shorten,
       L!Repay, LineDir, LinePos
  <2>2. QED
    BY <2>1 DEF L!Next, L!Draw
<1>5. CASE Finish
  <2>1. L!Finish
    BY <1>1, <1>2, <1>5 DEF Finish, AtLoc, L!Finish, LineDir, LinePos
  <2>2. QED
    BY <2>1 DEF L!Next, L!Draw
<1>6. QED
  BY <1>3, <1>4, <1>5

LEMMA LineStep ==
  ASSUME ~EarlyG1, BootWithin, Drawing, Drawing', [MotionNext]_motionVars
  PROVE  [L!Next]_(L!vars)
<1>1. CASE Handler \/ TimerMatch \/ UNCHANGED motionVars
  BY <1>1, HandlerDrawsOrStutters
<1>2. CASE CalStep
  BY <1>2, CalStutters
<1>3. ASSUME NEW c \in Targets, G1(c) PROVE L!Next
  BY <1>3, G1Moves
<1>4. CASE DrawStep
  BY <1>4, DriveStutters, CallStutters, LoopSteps DEF DrawStep
<1>5. QED
  BY <1>1, <1>2, <1>3, <1>4 DEF MotionNext

(* triggerMotors over the real driver, with every interrupt of every call,   *)
(* draws what Line draws with one atomic step per call.  What LineProofs     *)
(* shows uses the initial states and the steps of Line and never its         *)
(* fairness, so that it is about the two tasks, the handler and the timer.  *)
THEOREM MotionImplementsLine ==
  ASSUME ~EarlyG1, Exclusive, BootWithin
  PROVE  Spec => L!Init /\ [][L!Next]_(L!vars)
<1>1. MotionInit => L!Init
  BY LineInit
<1>2. Drawing /\ Drawing' /\ [MotionNext]_motionVars => [L!Next]_(L!vars)
  BY LineStep
<1>3. QED
  BY <1>1, <1>2, DrawingHolds, PTL DEF Spec

=============================================================================

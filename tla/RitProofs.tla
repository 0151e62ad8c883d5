----------------------------- MODULE RitProofs -----------------------------
(***************************************************************************)
(* Proofs about the stepping driver, for every set of tasks, every track   *)
(* and every frame.  IInv is inductive when calls do not overlap; the      *)
(* properties of Rit follow from it.                                       *)
(***************************************************************************)
EXTENDS RitInv, TLAPS

-----------------------------------------------------------------------------
(* The handler.                                                            *)

LEMMA AdvanceType ==
  ASSUME NEW p \in [Axes -> Int], NEW dir, NEW a \in Axes
  PROVE  Advance(p, dir, a) \in [Axes -> Int]
  BY DEF Advance, Axes

(* With one counter at zero the handler serves just the other axis. *)
LEMMA ServedOneAxis ==
  ASSUME RitTypeOK, NEW a \in Axes, steps[Other(a)] = 0
  PROVE  Served = Serve(Motors, a)
<1>1. CASE a = "x"
  <2>1. steps["y"] = 0
    BY <1>1 DEF Other
  <2>2. Serve(Motors, "x").steps["y"] = 0
    BY <2>1 DEF Serve, Motors, RitTypeOK, Axes
  <2>3. QED
    BY <1>1, <2>2 DEF Served, Serve
<1>2. CASE a = "y"
  <2>1. steps["x"] = 0
    BY <1>2 DEF Other, Axes
  <2>2. Serve(Motors, "x") = Motors
    BY <2>1 DEF Serve, Motors
  <2>3. QED
    BY <1>2, <2>2 DEF Served
<1>3. QED
  BY <1>1, <1>2 DEF Axes

(* What serving one axis does to its counter, the phase, its pin and the    *)
(* carriage.                                                               *)
LEMMA ServeIdle ==
  ASSUME RitTypeOK, NEW a \in Axes, steps[a] = 0
  PROVE  Serve(Motors, a) = Motors
  BY DEF Serve, Motors

LEMMA ServeHeld ==
  ASSUME RitTypeOK, NEW a \in Axes, steps[a] # 0, AllCalibrated, AtLimit(pos, a)
  PROVE  Serve(Motors, a) = [Motors EXCEPT !.steps[a] = 0]
<1>1. Serves(a)
  BY DEF Serves
<1>2. QED
  BY <1>1 DEF Serve, Motors

LEMMA ServeToggle ==
  ASSUME RitTypeOK, NEW a \in Axes, steps[a] # 0, Serves(a),
         ~(AllCalibrated /\ AtLimit(pos, a))
  PROVE  Serve(Motors, a) =
           [steps |-> [steps EXCEPT ![a] = steps[a] - 1],
            turn |-> ~stepTurn,
            pin |-> [stepPin EXCEPT ![a] = ~stepTurn],
            pos |-> IF ~stepTurn /\ ~stepPin[a] THEN Advance(pos, dirPin, a)
                                                ELSE pos]
  BY DEF Serve, Motors

-----------------------------------------------------------------------------
(* Type correctness, whatever the callers do.                              *)

LEMMA ServeType ==
  ASSUME RitTypeOK, NEW a \in Axes,
         NEW m \in [steps : [Axes -> 0..2], turn : BOOLEAN,
                    pin : [Axes -> BOOLEAN], pos : [Axes -> Int]]
  PROVE  Serve(m, a) \in [steps : [Axes -> 0..2], turn : BOOLEAN,
                          pin : [Axes -> BOOLEAN], pos : [Axes -> Int]]
<1>1. Advance(m.pos, dirPin, a) \in [Axes -> Int]
  BY AdvanceType
<1>2. m.steps[a] # 0 => m.steps[a] - 1 \in 0..2
  OBVIOUS
<1>3. QED
  BY <1>1, <1>2 DEF Serve

LEMMA ServedType ==
  ASSUME RitTypeOK
  PROVE  /\ Served.steps \in [Axes -> 0..2]
         /\ Served.turn \in BOOLEAN
         /\ Served.pin \in [Axes -> BOOLEAN]
         /\ Served.pos \in [Axes -> Int]
<1>1. Motors \in [steps : [Axes -> 0..2], turn : BOOLEAN,
                  pin : [Axes -> BOOLEAN], pos : [Axes -> Int]]
  BY DEF Motors, RitTypeOK
<1>2. "x" \in Axes /\ "y" \in Axes
  BY DEF Axes
<1>3. QED
  BY <1>1, <1>2, ServeType DEF Served

LEMMA TypeStep == RitTypeOK /\ [RitNext]_ritVars => RitTypeOK'
<1> SUFFICES ASSUME RitTypeOK, [RitNext]_ritVars PROVE RitTypeOK'
  OBVIOUS
<1> USE DEF RitTypeOK, swVars, irqVars, motorVars
<1>1. CASE RIT_IRQHandler
  <2> USE <1>1 DEF RIT_IRQHandler
  <2>1. /\ steps' \in [Axes -> 0..2] /\ stepTurn' \in BOOLEAN
        /\ stepPin' \in [Axes -> BOOLEAN] /\ pos' \in [Axes -> Int]
    BY ServedType
  <2>2. irqPending' \in BOOLEAN
    OBVIOUS
  <2>3. ritOn' \in BOOLEAN
    OBVIOUS
  <2>4. sbRIT' \in 0..1
    OBVIOUS
  <2>5. QED
    BY <2>1, <2>2, <2>3, <2>4
<1>2. CASE Match
  BY <1>2 DEF Match
<1>3. ASSUME NEW t \in Tasks, TaskStep(t) PROVE RitTypeOK'
  <2>1. ASSUME NEW a \in Axes, Begin(t, a) PROVE RitTypeOK'
    BY <2>1 DEF Begin, Call, Goto, Locations
  <2>2. CASE SetX(t)
    BY <2>2 DEF SetX, SetCount, Count, Goto, Locations, Axes
  <2>3. CASE SetY(t)
    BY <2>3 DEF SetY, SetCount, Count, Goto, Locations, Axes
  <2>4. CASE Arm(t)
    BY <2>4 DEF Arm, Goto, Locations
  <2>5. CASE Unmask(t)
    BY <2>5 DEF Unmask, Goto, Locations
  <2>6. CASE Take(t)
    BY <2>6 DEF Take, Goto, Locations
  <2>7. CASE Mask(t)
    BY <2>7 DEF Mask, Goto, Locations
  <2>8. ASSUME NEW dirs \in [Axes -> BOOLEAN], SetDirection(t, dirs)
        PROVE RitTypeOK'
    BY <2>8 DEF SetDirection
  <2>9. ASSUME NEW a \in Axes, Calibrate(t, a) PROVE RitTypeOK'
    BY <2>9 DEF Calibrate
  <2>10. QED
    BY <1>3, <2>1, <2>2, <2>3, <2>4, <2>5, <2>6, <2>7, <2>8, <2>9
       DEF TaskStep, Inside
<1>4. CASE UNCHANGED ritVars
  BY <1>4 DEF ritVars
<1>5. QED
  BY <1>1, <1>2, <1>3, <1>4 DEF RitNext

LEMMA TypeInit == RitInit => RitTypeOK
<1> SUFFICES ASSUME RitInit PROVE RitTypeOK
  OBVIOUS
<1>1. pos \in [Axes -> Int]
  BY CarriageAssumption DEF RitInit
<1>2. "x" \in Axes /\ "idle" \in Locations
  BY DEF Axes, Locations
<1>3. pc \in [Tasks -> Locations] /\ req \in [Tasks -> Axes]
      /\ from \in [Tasks -> [Axes -> Int]]
  BY <1>1, <1>2 DEF RitInit
<1>4. steps \in [Axes -> 0..2] /\ sbRIT \in 0..1
  BY DEF RitInit
<1>5. calibrated \in [Axes -> BOOLEAN] /\ stepPin \in [Axes -> BOOLEAN]
      /\ dirPin \in [Axes -> BOOLEAN]
  BY DEF RitInit
<1>6. stepTurn \in BOOLEAN /\ ritOn \in BOOLEAN /\ irqPending \in BOOLEAN
      /\ nvicOn \in BOOLEAN
  BY DEF RitInit
<1>7. QED
  BY <1>1, <1>3, <1>4, <1>5, <1>6 DEF RitTypeOK

(* Every variable of RIT_start and RIT_IRQHandler keeps its type, even with *)
(* overlapping calls; the unsigned step counters never wrap below zero.    *)
THEOREM RitTypeCorrect == RitSafe => []RitTypeOK
  BY TypeInit, TypeStep, PTL DEF RitSafe

-----------------------------------------------------------------------------
(* The inductive invariant, for exclusive calls.                           *)

(* A running timer or an unmasked interrupt belongs to a call. *)
LEMMA ActiveTask ==
  ASSUME IInv, nvicOn \/ ritOn
  PROVE  \E t \in Tasks : pc[t] # "idle"
  BY DEF IInv, QuietBetweenCalls, AllIdle

(* An interrupt that is taken finds one task, waiting. *)
LEMMA HandlerFindsWaiter ==
  ASSUME IInv, irqPending, nvicOn
  PROVE  \E t \in Tasks : pc[t] = "wait"
<1>1. PICK t \in Tasks : pc[t] # "idle"
  BY ActiveTask
<1>2. Stage(t)
  BY DEF IInv
<1>3. pc[t] \in Locations
  BY DEF IInv, RitTypeOK
<1>4. pc[t] = "wait"
  BY <1>1, <1>2, <1>3 DEF Stage, Preparing, Locations
<1>5. QED
  BY <1>4

LEMMA HandlerStep ==
  ASSUME IInv, RIT_IRQHandler, RitTypeOK'
  PROVE  IInv'
<1> USE DEF swVars, irqVars, motorVars
<1>1. irqPending /\ nvicOn /\ nvicOn' = nvicOn
  BY DEF RIT_IRQHandler
<1>2. UNCHANGED <<pc, req, from, calibrated, dirPin>>
  BY DEF RIT_IRQHandler
<1>3. PICK t \in Tasks : pc[t] = "wait"
  BY <1>1, HandlerFindsWaiter
<1>4. \A u \in Tasks : u # t => pc[u] = "idle"
  BY <1>3 DEF IInv, OneCall
<1>5. Stage(t) /\ RitTypeOK
  BY DEF IInv
<1> DEFINE a == req[t]
<1>6. a \in Axes /\ Serves(a) /\ steps[Other(a)] = 0
  BY <1>3, <1>5 DEF Stage, RitTypeOK
<1>7. Other(a) \in Axes /\ Other(a) # a /\ Axes = {a, Other(a)}
  BY <1>6 DEF Axes, Other
<1>8. /\ steps' = Serve(Motors, a).steps /\ stepTurn' = Serve(Motors, a).turn
      /\ stepPin' = Serve(Motors, a).pin /\ pos' = Serve(Motors, a).pos
  BY <1>5, <1>6, ServedOneAxis DEF RIT_IRQHandler
<1>9. /\ (\A b \in Axes : steps'[b] = 0) => ritOn' = FALSE /\ sbRIT' = 1
      /\ ~(\A b \in Axes : steps'[b] = 0) => ritOn' = ritOn /\ sbRIT' = sbRIT
  BY DEF RIT_IRQHandler
<1>10. Stage(t)'
  <2>1. CASE steps[a] = 0
    <3>1. Serve(Motors, a) = Motors
      BY <2>1, <1>5, <1>6, ServeIdle
    <3>2. UNCHANGED <<steps, stepTurn, stepPin, pos>>
      BY <3>1, <1>8 DEF Motors
    <3>3. Complete(t) /\ sbRIT = 1
      BY <2>1, <1>3, <1>5 DEF Stage, Untouched, Halfway
    <3>4. \A b \in Axes : steps'[b] = 0
      BY <3>2, <2>1, <1>6, <1>7
    <3>5. (Complete(t) /\ sbRIT = 1)'
      BY <3>2, <3>3, <3>4, <1>9, <1>2 DEF Complete, AfterCall, AllCalibrated
    <3>6. QED
      BY <3>2, <3>5, <1>1, <1>2, <1>3, <1>6 DEF Stage, Serves, AllCalibrated
  <2>2. CASE steps[a] # 0 /\ AllCalibrated /\ AtLimit(pos, a)
    <3>1. Serve(Motors, a) = [Motors EXCEPT !.steps[a] = 0]
      BY <2>2, <1>5, <1>6, ServeHeld
    <3>2. /\ steps' = [steps EXCEPT ![a] = 0]
          /\ UNCHANGED <<stepTurn, stepPin, pos>>
      BY <3>1, <1>8 DEF Motors
    <3>3. Untouched(t)
      BY <2>2, <1>3, <1>5 DEF Stage, Halfway, Complete, Held
    <3>4. \A b \in Axes : steps'[b] = 0
      BY <3>2, <1>5, <1>6, <1>7 DEF RitTypeOK
    <3>5. (Complete(t) /\ sbRIT = 1)'
      BY <2>2, <3>2, <3>3, <3>4, <1>9, <1>2, <1>6
         DEF Complete, Untouched, AfterCall, AllCalibrated
    <3>6. steps'[Other(a)] = 0
      BY <3>4, <1>7
    <3>7. QED
      BY <3>5, <3>6, <1>1, <1>2, <1>3, <1>6 DEF Stage, Serves, AllCalibrated
  <2>3. CASE steps[a] # 0 /\ ~(AllCalibrated /\ AtLimit(pos, a))
    <3>1. Serve(Motors, a) =
            [steps |-> [steps EXCEPT ![a] = steps[a] - 1],
             turn |-> ~stepTurn,
             pin |-> [stepPin EXCEPT ![a] = ~stepTurn],
             pos |-> IF ~stepTurn /\ ~stepPin[a] THEN Advance(pos, dirPin, a)
                                                 ELSE pos]
      BY <2>3, <1>5, <1>6, ServeToggle
    <3>2. /\ steps' = [steps EXCEPT ![a] = steps[a] - 1]
          /\ stepTurn' = ~stepTurn
          /\ stepPin' = [stepPin EXCEPT ![a] = ~stepTurn]
          /\ pos' = IF ~stepTurn /\ ~stepPin[a] THEN Advance(pos, dirPin, a)
                                                ELSE pos
      BY <3>1, <1>8
    <3>3. steps'[a] = steps[a] - 1 /\ steps'[Other(a)] = 0
      BY <3>2, <1>5, <1>6, <1>7 DEF RitTypeOK
    <3>4. CASE Untouched(t)
      <4>1. steps'[a] = 1
        BY <3>3, <3>4 DEF Untouched
      <4>2. ritOn' = ritOn /\ sbRIT' = sbRIT
        BY <4>1, <1>6, <1>9
      <4>3. stepTurn' = FALSE /\ stepPin'[a] = FALSE /\ pos' = pos
        BY <3>2, <3>4, <1>5, <1>6 DEF Untouched, RitTypeOK
      <4>4. Halfway(t)'
        BY <4>1, <4>2, <4>3, <3>4, <2>3, <1>2
           DEF Halfway, Untouched, Held, AllCalibrated
      <4>5. QED
        BY <4>4, <3>3, <1>1, <1>2, <1>3, <1>6 DEF Stage, Serves, AllCalibrated
    <3>5. CASE Halfway(t)
      <4>1. \A b \in Axes : steps'[b] = 0
        BY <3>3, <3>5, <1>7 DEF Halfway
      <4>2. stepTurn' = TRUE /\ pos' = Advance(from[t], dirPin, a)
        BY <3>2, <3>5 DEF Halfway
      <4>3. AfterCall(from[t], a) = Advance(from[t], dirPin, a)
        BY <3>5 DEF Halfway, AfterCall, Held
      <4>4. (Complete(t) /\ sbRIT = 1)'
        BY <4>1, <4>2, <4>3, <1>2, <1>6, <1>9
           DEF Complete, AfterCall, AllCalibrated
      <4>5. QED
        BY <4>4, <3>3, <1>1, <1>2, <1>3, <1>6 DEF Stage, Serves, AllCalibrated
    <3>6. QED
      BY <3>4, <3>5, <2>3, <1>3, <1>5 DEF Stage, Complete
  <2>4. QED
    BY <2>1, <2>2, <2>3
<1>11. \A u \in Tasks : Stage(u)'
  BY <1>2, <1>4, <1>10 DEF Stage
<1>12. OneCall' /\ ~AllIdle'
  BY <1>2, <1>3 DEF IInv, OneCall, AllIdle
<1>13. QED
  BY <1>11, <1>12 DEF IInv, QuietBetweenCalls

LEMMA MatchStep ==
  ASSUME IInv, Match, RitTypeOK'
  PROVE  IInv'
<1> USE DEF swVars, irqVars, motorVars
<1>1. ritOn /\ UNCHANGED <<pc, req, from, ritOn, nvicOn, sbRIT, steps, stepTurn,
                           stepPin, pos, calibrated, dirPin>>
  BY DEF Match
<1>2. PICK t \in Tasks : pc[t] # "idle"
  BY <1>1, ActiveTask
<1>3. OneCall' /\ ~AllIdle'
  BY <1>1, <1>2 DEF IInv, OneCall, AllIdle
<1>4. ASSUME NEW u \in Tasks PROVE Stage(u)'
  <2>1. Stage(u) /\ pc[u] \in Locations
    BY DEF IInv, RitTypeOK
  <2>2. pc[u] = "mask" => FALSE
    BY <2>1, <1>1 DEF Stage, Complete
  <2>3. QED
    BY <2>1, <2>2, <1>1 DEF Stage, Preparing, Loaded, Count, Untouched, Halfway,
       Complete, Held, Serves, AllCalibrated, AfterCall
<1>5. QED
  BY <1>3, <1>4 DEF IInv, QuietBetweenCalls

-----------------------------------------------------------------------------
(* The steps of RIT_start.                                                 *)

(* A task outside "idle" is the only one, so a step of it that stays inside *)
(* the call leaves the other conjuncts alone.                              *)
LEMMA InsideStep ==
  ASSUME IInv, NEW t \in Tasks, Inside(t), RitTypeOK'
  PROVE  IInv'
<1> USE DEF swVars, irqVars, motorVars
<1>1. pc[t] # "idle" /\ pc' = [pc EXCEPT ![t] = pc'[t]]
      /\ UNCHANGED <<req, from, irqPending, stepTurn, stepPin, pos, calibrated,
                     dirPin>>
  BY DEF Inside, SetX, SetY, SetCount, Arm, Unmask, Take, Mask, Goto, IInv,
     RitTypeOK
<1>2. \A u \in Tasks : u # t => pc[u] = "idle" /\ pc'[u] = "idle"
  BY <1>1 DEF IInv, OneCall, RitTypeOK
<1>3. OneCall'
  BY <1>2 DEF OneCall
<1>4. Stage(t) /\ RitTypeOK
  BY DEF IInv
<1>5. "x" \in Axes /\ "y" \in Axes /\ Other("x") = "y" /\ Other("y") = "x"
      /\ req[t] \in {"x", "y"} /\ Axes = {"x", "y"}
  BY <1>4 DEF Axes, Other, RitTypeOK
<1>6. Stage(t)'
  <2>1. CASE SetX(t)
    BY <2>1, <1>1, <1>4, <1>5 DEF SetX, SetCount, Goto, Stage, Preparing, Count,
       Serves, AllCalibrated, RitTypeOK
  <2>2. CASE SetY(t)
    BY <2>2, <1>1, <1>4, <1>5 DEF SetY, SetCount, Goto, Stage, Preparing, Count,
       Loaded, Serves, AllCalibrated, RitTypeOK
  <2>3. CASE Arm(t)
    BY <2>3, <1>1, <1>4, <1>5 DEF Arm, Goto, Stage, Preparing, Count, Loaded,
       Serves, AllCalibrated, RitTypeOK
  <2>4. CASE Unmask(t)
    BY <2>4, <1>1, <1>4, <1>5 DEF Unmask, Goto, Stage, Preparing, Count, Loaded,
       Untouched, Serves, AllCalibrated, RitTypeOK
  <2>5. CASE Take(t)
    <3>1. pc[t] = "wait" /\ sbRIT = 1 /\ nvicOn /\ ~irqPending
      BY <2>5, <1>4 DEF Take, TaskMayRun, Stage
    <3>2. Complete(t)
      BY <3>1, <1>4 DEF Stage, Untouched, Halfway
    <3>3. Complete(t)'
      BY <2>5, <3>2, <1>1 DEF Take, Complete, AfterCall, AllCalibrated
    <3>4. QED
      BY <2>5, <3>1, <3>3, <1>1, <1>4 DEF Take, Goto, Stage, Serves,
         AllCalibrated, RitTypeOK
  <2>6. CASE Mask(t)
    BY <2>6, <1>1, <1>4 DEF Mask, Goto, Stage, RitTypeOK
  <2>7. QED
    BY <2>1, <2>2, <2>3, <2>4, <2>5, <2>6 DEF Inside
<1>7. \A u \in Tasks : Stage(u)'
  BY <1>2, <1>6 DEF Stage
<1>8. QuietBetweenCalls'
  <2>1. CASE Mask(t)
    <3>1. Complete(t) /\ sbRIT = 0 /\ ~irqPending /\ steps[Other(req[t])] = 0
      BY <2>1, <1>4 DEF Mask, Stage
    <3>2. \A a \in Axes : steps[a] = 0
      BY <3>1, <1>5 DEF Complete
    <3>3. QED
      BY <2>1, <3>1, <3>2 DEF Mask, Complete, QuietBetweenCalls
  <2>2. CASE ~Mask(t)
    <3>1. pc'[t] # "idle"
      BY <2>2, <1>1 DEF Inside, SetX, SetY, SetCount, Arm, Unmask, Take, Goto,
         IInv, RitTypeOK
    <3>2. QED
      BY <3>1 DEF QuietBetweenCalls, AllIdle
  <2>3. QED
    BY <2>1, <2>2
<1>9. QED
  BY <1>3, <1>7, <1>8 DEF IInv

LEMMA BeginStep ==
  ASSUME IInv, Exclusive, NEW t \in Tasks, NEW a \in Axes, Begin(t, a), RitTypeOK'
  PROVE  IInv'
<1> USE DEF swVars, irqVars, motorVars
<1>1. AllIdle /\ Serves(a)
  BY DEF Begin
<1>2. /\ pc' = [pc EXCEPT ![t] = "setX"]
      /\ req' = [req EXCEPT ![t] = a] /\ from' = [from EXCEPT ![t] = pos]
      /\ ritOn' = FALSE
      /\ UNCHANGED <<irqPending, nvicOn, sbRIT, motorVars, calibrated, dirPin>>
  BY DEF Begin, Call, Goto
<1>3. \A u \in Tasks : u # t => pc'[u] = "idle"
  BY <1>1, <1>2 DEF AllIdle, IInv, RitTypeOK
<1>4. pc'[t] = "setX" /\ req'[t] = a /\ from'[t] = pos
  BY <1>2 DEF IInv, RitTypeOK
<1>5. OneCall' /\ QuietBetweenCalls'
  BY <1>3, <1>4 DEF OneCall, QuietBetweenCalls, AllIdle
<1>6. Stage(t)'
  BY <1>1, <1>2, <1>4 DEF IInv, QuietBetweenCalls, Stage, Preparing, Serves,
     AllCalibrated
<1>7. \A u \in Tasks : Stage(u)'
  BY <1>3, <1>6 DEF Stage
<1>8. QED
  BY <1>5, <1>7 DEF IInv

LEMMA BetweenStep ==
  ASSUME IInv, Exclusive, NEW t \in Tasks, RitTypeOK',
         \/ \E dirs \in [Axes -> BOOLEAN] : SetDirection(t, dirs)
         \/ \E a \in Axes : Calibrate(t, a)
  PROVE  IInv'
<1> USE DEF swVars, irqVars, motorVars
<1>1. AllIdle
      /\ UNCHANGED <<pc, steps, ritOn, irqPending, nvicOn, sbRIT, stepTurn>>
  BY DEF SetDirection, Calibrate, Between
<1>2. AllIdle' /\ OneCall' /\ QuietBetweenCalls'
  BY <1>1 DEF AllIdle, OneCall, IInv, QuietBetweenCalls
<1>3. \A u \in Tasks : Stage(u)'
  BY <1>2 DEF AllIdle, Stage
<1>4. QED
  BY <1>2, <1>3 DEF IInv

LEMMA StutterStep ==
  ASSUME IInv, UNCHANGED ritVars
  PROVE  IInv'
<1>1. UNCHANGED <<pc, req, from, ritOn, irqPending, nvicOn, sbRIT, steps,
                  stepTurn, stepPin, pos, calibrated, dirPin>>
  BY DEF ritVars, swVars, irqVars, motorVars
<1>2. OneCall' /\ QuietBetweenCalls' /\ RitTypeOK'
  BY <1>1 DEF IInv, OneCall, QuietBetweenCalls, AllIdle, RitTypeOK
<1>3. \A t \in Tasks : Stage(t)'
  BY <1>1 DEF IInv, Stage, Preparing, Loaded, Count, Untouched, Halfway,
     Complete, Held, Serves, AllCalibrated, AfterCall
<1>4. QED
  BY <1>2, <1>3 DEF IInv

LEMMA InvStep ==
  ASSUME Exclusive, IInv, [RitNext]_ritVars
  PROVE  IInv'
<1>1. RitTypeOK'
  BY TypeStep DEF IInv
<1>2. CASE RIT_IRQHandler
  BY <1>1, <1>2, HandlerStep
<1>3. CASE Match
  BY <1>1, <1>3, MatchStep
<1>4. ASSUME NEW t \in Tasks, TaskStep(t) PROVE IInv'
  BY <1>1, <1>4, BeginStep, InsideStep, BetweenStep DEF TaskStep
<1>5. CASE UNCHANGED ritVars
  BY <1>5, StutterStep
<1>6. QED
  BY <1>2, <1>3, <1>4, <1>5 DEF RitNext

LEMMA InvInit == RitInit => IInv
<1> SUFFICES ASSUME RitInit PROVE IInv
  OBVIOUS
<1>1. RitTypeOK
  BY TypeInit
<1>2. AllIdle
  BY DEF RitInit, AllIdle
<1>3. OneCall /\ \A t \in Tasks : Stage(t)
  BY <1>2 DEF AllIdle, OneCall, Stage
<1>4. QuietBetweenCalls
  BY DEF RitInit, QuietBetweenCalls
<1>5. QED
  BY <1>1, <1>3, <1>4 DEF IInv

(* The invariant of the driver under exclusive calls.                      *)
THEOREM RitInvariant == ASSUME Exclusive PROVE RitSafe => []IInv
  BY InvInit, InvStep, PTL DEF RitSafe

(* RIT_start returns exactly when its motor has made its one step.          *)
THEOREM RitCallMovesOneStep ==
  ASSUME Exclusive PROVE RitSafe => []CallMovesOneStep
<1>1. IInv => CallMovesOneStep
  BY DEF IInv, Stage, Complete, CallMovesOneStep
<1>2. QED
  BY <1>1, RitInvariant, PTL

(* Between calls nothing of a call is left behind.                         *)
THEOREM RitQuietBetweenCalls ==
  ASSUME Exclusive PROVE RitSafe => []QuietBetweenCalls
<1>1. IInv => QuietBetweenCalls
  BY DEF IInv
<1>2. QED
  BY <1>1, RitInvariant, PTL

=============================================================================

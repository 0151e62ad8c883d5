----------------------------- MODULE LineProofs -----------------------------
(***************************************************************************)
(* Proofs about the line loop, for every table, scale, set of targets and  *)
(* number of lines.                                                        *)
(***************************************************************************)
EXTENDS LineInv, PlotMathProofs

-----------------------------------------------------------------------------
(* Distances and positions.                                                *)

LEMMA DistanceType ==
  ASSUME NEW c0 \in [Axes -> Int], NEW c1 \in [Axes -> Int],
         NEW whole \in BOOLEAN
  PROVE  Distance(c0, c1, whole) \in [Axes -> Nat]
<1>1. ASSUME NEW a \in Axes
      PROVE  Abs((c1[a] - c0[a]) * Scale[a], whole) \in Nat
  <2>1. (c1[a] - c0[a]) * Scale[a] \in Int
    BY LineAssumption DEF LineAssumption
  <2>2. QED
    BY <2>1, AbsType
<1>2. QED
  BY <1>1 DEF Distance

LEMMA AdvanceType ==
  ASSUME NEW p \in [Axes -> Int], NEW dirs, NEW a \in Axes
  PROVE  Advance(p, dirs, a) \in [Axes -> Int]
  BY DEF Advance, Axes

-----------------------------------------------------------------------------
(* Types.                                                                  *)

LEMMA TypeInit == Init => TypeOK
<1> SUFFICES ASSUME Init PROVE TypeOK
  OBVIOUS
<1> USE DEF Init
<1>1. pc \in Locations /\ major \in Axes /\ exact \in BOOLEAN
      /\ wholeAbs \in BOOLEAN
  BY DEF Locations, Axes
<1>2. p0 \in [Axes -> Int] /\ p1 \in [Axes -> Int] /\ d \in [Axes -> Int]
  OBVIOUS
<1>3. dir \in [Axes -> BOOLEAN]
  OBVIOUS
<1>4. error \in Int /\ deltaError \in 0..One
  BY OneIsPositive
<1>5. pos \in [Axes -> Int]
  BY LineAssumption DEF LineAssumption
<1>6. hist \in [from : [Axes -> Int], error : Int, count : [Axes -> Nat],
                lines : 0..MaxLines]
  BY LineAssumption, OneIsPositive DEF LineAssumption, NoSteps
<1>7. QED
  BY <1>1, <1>2, <1>3, <1>4, <1>5, <1>6 DEF TypeOK

Hist == [from : [Axes -> Int], error : Int, count : [Axes -> Nat],
         lines : 0..MaxLines]

LEMMA StepType ==
  ASSUME TypeOK, NEW a \in Axes, Step(a)
  PROVE  pos' \in [Axes -> Int] /\ hist' \in Hist
<1>1. pos' \in [Axes -> Int]
  BY AdvanceType DEF Step, TypeOK
<1>2. hist' \in Hist
  BY DEF Step, TypeOK, Hist
<1>3. QED
  BY <1>1, <1>2

LEMMA TypeStep == TypeOK /\ [Next]_vars => TypeOK'
<1> SUFFICES ASSUME TypeOK, [Next]_vars PROVE TypeOK'
  OBVIOUS
<1> USE DEF TypeOK
<1>1. ASSUME NEW c \in Targets, MoveTo(c) PROVE TypeOK'
  <2> DEFINE dist == Distance(p0, c, wholeAbs)
  <2>1. c \in [Axes -> Int]
    BY LineAssumption DEF LineAssumption
  <2>2. dist \in [Axes -> Nat]
    BY <2>1, DistanceType
  <2>3. d' \in [Axes -> Int] /\ p1' \in [Axes -> Int]
    BY <1>1, <2>1, <2>2 DEF MoveTo
  <2>4. deltaError' \in 0..One /\ major' \in Axes
    BY <1>1, <2>2, DeltaErrorType, DominatingType DEF MoveTo
  <2>5. dir' \in [Axes -> BOOLEAN]
    BY <1>1 DEF MoveTo
  <2>6. hist' \in Hist
    BY <1>1, LineAssumption DEF MoveTo, NoSteps, Hist, LineAssumption
  <2>7. pc' \in Locations
        /\ UNCHANGED <<p0, error, exact, wholeAbs, pos>>
    BY <1>1 DEF MoveTo, Locations
  <2>8. QED
    BY <2>3, <2>4, <2>5, <2>6, <2>7 DEF Hist
<1>2. CASE DriveMajor
  <2>1. pos' \in [Axes -> Int] /\ hist' \in Hist
    BY <1>2, StepType DEF DriveMajor
  <2>2. QED
    BY <1>2, <2>1 DEF DriveMajor, Locations, Hist
<1>3. CASE Accumulate
  <2>1. error' \in Int /\ exact' \in BOOLEAN
    BY <1>3, OneIsPositive DEF Accumulate
  <2>2. d' \in [Axes -> Int] /\ pc' \in Locations
    BY <1>3, UnitsAssumption DEF Accumulate, Shorten, Locations, UnitsAssumption
  <2>3. QED
    BY <1>3, <2>1, <2>2 DEF Accumulate
<1>4. CASE DriveMinor
  <2>1. pos' \in [Axes -> Int] /\ hist' \in Hist
    BY <1>4, StepType, OtherType DEF DriveMinor
  <2>2. QED
    BY <1>4, <2>1 DEF DriveMinor, Locations, Hist
<1>5. CASE Repay
  BY <1>5, OneIsPositive, UnitsAssumption
     DEF Repay, Shorten, Locations, UnitsAssumption
<1>6. CASE Finish
  BY <1>6 DEF Finish, Locations
<1>7. CASE UNCHANGED vars
  BY <1>7 DEF vars
<1>8. QED
  BY <1>1, <1>2, <1>3, <1>4, <1>5, <1>6, <1>7 DEF Next, Draw

(* The variables of triggerMotors keep their types; deltaError in           *)
(* particular is a share between 0.0 and 1.0.                              *)
THEOREM LineTypeCorrect == Spec => []TypeOK
  BY TypeInit, TypeStep, PTL DEF Spec

-----------------------------------------------------------------------------
(* The account of the error term.                                          *)

(* One more step of the major axis adds deltaError to what is owed. *)
LEMMA OneMoreShare ==
  ASSUME NEW n \in Nat, NEW k \in Nat
  PROVE  (n + 1) * k = n * k + k
  OBVIOUS

LEMMA NoneOwed ==
  ASSUME NEW j \in Nat, NEW k \in Nat
  PROVE  0 * j - 0 * k = 0
  OBVIOUS

LEMMA OwedType ==
  ASSUME TypeOK
  PROVE  /\ Owed \in Int /\ deltaError \in Nat /\ error \in Int
         /\ hist.error \in Int
         /\ hist.count[major] * deltaError \in Nat
         /\ hist.count[Other(major)] * One \in Nat
<1>1. hist.count[major] \in Nat /\ hist.count[Other(major)] \in Nat
  BY OtherType DEF TypeOK
<1>2. deltaError \in Nat /\ error \in Int /\ hist.error \in Int
  BY OneIsPositive DEF TypeOK
<1>3. QED
  BY <1>1, <1>2, OneIsPositive DEF Owed

(* The outcome of the comparison, from the sum before it. *)
LEMMA CrossesBound ==
  ASSUME NEW e \in Int, NEW k \in Nat, NEW e0 \in BOOLEAN,
         NEW b \in Crosses(e, k, e0)
  PROVE  /\ b => e + k >= Half
         /\ ~b => e + k <= Half
  BY OneIsPositive DEF Crosses

LEMMA StepCount ==
  ASSUME TypeOK, NEW a \in Axes, Step(a)
  PROVE  /\ hist'.count[a] = hist.count[a] + 1
         /\ hist'.count[Other(a)] = hist.count[Other(a)]
         /\ hist'.error = hist.error /\ hist'.from = hist.from
  BY OtherType DEF Step, TypeOK

LEMMA LineInvStep == LineIInv /\ [Next]_vars => LineIInv'
<1> SUFFICES ASSUME LineIInv, [Next]_vars PROVE LineIInv'
  OBVIOUS
<1>0. TypeOK /\ TypeOK'
  BY TypeStep DEF LineIInv
<1>00. /\ Owed \in Int /\ deltaError \in Nat /\ error \in Int
       /\ hist.error \in Int /\ Half \in Nat /\ One = 2 * Half
       /\ deltaError <= One
  BY <1>0, OwedType, OneIsPositive DEF TypeOK
<1>1. ASSUME NEW c \in Targets, MoveTo(c) PROVE LineIInv'
  <2>1. hist'.error = error /\ error' = error /\ pc = "idle" /\ pc' = "major"
        /\ hist'.count = NoSteps
    BY <1>1 DEF MoveTo
  <2>2. major' \in Axes /\ Other(major') \in Axes /\ deltaError' \in Nat
    BY <1>0, OneIsPositive, OtherType DEF TypeOK
  <2>3. Owed' = 0
    <3>1. hist'.count[major'] = 0 /\ hist'.count[Other(major')] = 0
      BY <2>1, <2>2 DEF NoSteps
    <3>2. Owed' = 0 * deltaError' - 0 * One
      BY <3>1 DEF Owed
    <3>3. QED
      BY <3>2, <2>2, OneIsPositive, NoneOwed
  <2>4. Small(error) /\ error - hist'.error = 0
    BY <1>00, <2>1 DEF LineIInv
  <2>5. QED
    BY <1>0, <2>1, <2>3, <2>4 DEF LineIInv, Account, Small
<1>2. CASE DriveMajor
  <2>1. pc = "major" /\ pc' = "accumulate" /\ error' = error
        /\ deltaError' = deltaError /\ major' = major /\ Step(major)
    BY <1>2 DEF DriveMajor
  <2>2. /\ hist'.count[major] = hist.count[major] + 1
        /\ hist'.count[Other(major)] = hist.count[Other(major)]
        /\ hist'.error = hist.error
    BY <1>0, <2>1, StepCount DEF TypeOK
  <2>3. hist.count[major] \in Nat
    BY <1>0 DEF TypeOK
  <2>4. Owed' = Owed + deltaError
    BY <1>0, <1>00, <2>1, <2>2, <2>3, OneMoreShare, OwedType DEF Owed
  <2>5. QED
    BY <1>0, <1>00, <2>1, <2>2, <2>4 DEF LineIInv, Account, Small
<1>3. CASE Accumulate
  <2>1. pc = "accumulate" /\ error' = error + deltaError
        /\ UNCHANGED <<hist, deltaError, major>>
    BY <1>3 DEF Accumulate
  <2>2. Owed' = Owed
    BY <2>1 DEF Owed
  <2>3. error - hist.error = Owed - deltaError /\ Small(error)
    BY <2>1 DEF LineIInv, Account
  <2>4. error' - hist'.error = Owed'
    BY <1>00, <2>1, <2>2, <2>3
  <2>5. exact' \in BOOLEAN
    BY <1>0 DEF TypeOK
  <2>6. PICK b \in Crosses(error, deltaError, exact') :
          IF b THEN pc' = "minor" /\ UNCHANGED d ELSE pc' = "major" /\ Shorten
    BY <1>3 DEF Accumulate
  <2>7. (b => error' >= Half) /\ (~b => error' <= Half) /\ b \in BOOLEAN
    <3>1. b \in BOOLEAN
      BY <2>6 DEF Crosses
    <3>2. QED
      BY <1>00, <2>1, <2>5, <2>6, <3>1, CrossesBound
  <2>8. CASE b
    <3>1. pc' = "minor" /\ Half <= error' /\ error' <= Half + One
      BY <1>00, <2>1, <2>3, <2>6, <2>7, <2>8 DEF Small
    <3>2. QED
      BY <1>0, <2>1, <2>4, <3>1 DEF LineIInv, Account, Small
  <2>9. CASE ~b
    <3>1. pc' = "major" /\ Small(error)'
      BY <1>00, <2>1, <2>3, <2>6, <2>7, <2>9 DEF Small
    <3>2. QED
      BY <1>0, <2>1, <2>4, <3>1 DEF LineIInv, Account, Small
  <2>10. QED
    BY <2>8, <2>9
<1>4. CASE DriveMinor
  <2>1. pc = "minor" /\ pc' = "repay" /\ error' = error
        /\ deltaError' = deltaError /\ major' = major /\ Step(Other(major))
    BY <1>4 DEF DriveMinor
  <2>2. Other(major) \in Axes /\ Other(Other(major)) = major
    BY <1>0 DEF TypeOK, Other, Axes
  <2>3. /\ hist'.count[Other(major)] = hist.count[Other(major)] + 1
        /\ hist'.count[major] = hist.count[major]
        /\ hist'.error = hist.error
    BY <1>0, <2>1, <2>2, StepCount
  <2>4. hist.count[Other(major)] \in Nat
    BY <1>0, <2>2 DEF TypeOK
  <2>5. Owed' = Owed - One
    BY <1>0, <2>1, <2>3, <2>4, OneMoreShare, OneIsPositive, OwedType DEF Owed
  <2>6. QED
    BY <1>0, <1>00, <2>1, <2>3, <2>5 DEF LineIInv, Account
<1>5. CASE Repay
  <2>1. pc = "repay" /\ pc' = "major" /\ error' = error - One
        /\ UNCHANGED <<hist, deltaError, major>>
    BY <1>5 DEF Repay
  <2>2. Owed' = Owed
    BY <2>1 DEF Owed
  <2>3. error - hist.error = Owed + One /\ Half <= error /\ error <= Half + One
    BY <2>1 DEF LineIInv, Account
  <2>4. QED
    BY <1>0, <1>00, <2>1, <2>2, <2>3 DEF LineIInv, Account, Small
<1>6. CASE Finish
  <2>1. pc = "major" /\ pc' = "idle"
        /\ UNCHANGED <<hist, deltaError, major, error>>
    BY <1>6 DEF Finish
  <2>2. QED
    BY <1>0, <2>1 DEF LineIInv, Account, Owed, Small
<1>7. CASE UNCHANGED vars
  BY <1>0, <1>7 DEF vars, LineIInv, Account, Owed, Small
<1>8. QED
  BY <1>1, <1>2, <1>3, <1>4, <1>5, <1>6, <1>7 DEF Next, Draw

LEMMA LineInvInit == Init => LineIInv
<1> SUFFICES ASSUME Init PROVE LineIInv
  OBVIOUS
<1>1. TypeOK
  BY TypeInit
<1>2. pc = "idle" /\ error = Half /\ hist.error = Half /\ hist.count = NoSteps
      /\ deltaError = 0
  BY DEF Init
<1>3. Owed = 0
  BY <1>1, <1>2, OneIsPositive, OtherType DEF Owed, NoSteps, TypeOK
<1>4. QED
  BY <1>1, <1>2, <1>3, OneIsPositive DEF LineIInv, Account, Small

THEOREM LineInvariant == Spec => []LineIInv
  BY LineInvInit, LineInvStep, PTL DEF Spec

(* The error term never leaves [-0.5, 0.5] between turns of the loop,       *)
(* however many lines it has been carried through.                         *)
THEOREM LineErrorBound == Spec => []ErrorBound
<1>1. LineIInv => ErrorBound
  BY DEF LineIInv, ErrorBound, Small
<1>2. QED
  BY <1>1, LineInvariant, PTL

(* The plotted line stays within one step of the ideal one. *)
THEOREM LineOnTheLine == Spec => []OnTheLine
<1>1. LineIInv => OnTheLine
  <2> SUFFICES ASSUME LineIInv, pc \in {"idle", "major"}
               PROVE  -One <= Owed /\ Owed <= One
    BY DEF OnTheLine, Owed
  <2>1. error - hist.error = Owed /\ Small(error) /\ Small(hist.error)
    BY DEF LineIInv, Account
  <2>2. error \in Int /\ hist.error \in Int
    BY OwedType DEF LineIInv
  <2>3. QED
    BY <2>1, <2>2, OneIsPositive DEF Small
<1>2. QED
  BY <1>1, LineInvariant, PTL

-----------------------------------------------------------------------------
(* Steps counted and steps driven.                                         *)

(* Between its switches an axis always has room for one step. *)
LEMMA AdvanceFree ==
  ASSUME NEW p \in [Axes -> Int], NEW a \in Axes, ~AtLimit(p, a)
  PROVE  /\ Advance(p, dir, a)[a] = IF dir[a] THEN p[a] - 1 ELSE p[a] + 1
         /\ \A b \in Axes : b # a => Advance(p, dir, a)[b] = p[b]
<1> DEFINE q == IF dir[a] THEN p[a] - 1 ELSE p[a] + 1
<1>1. Track[a] \in Nat /\ p[a] \in Int /\ 0 < p[a] /\ p[a] < Track[a]
  BY CarriageAssumption DEF CarriageAssumption, AtLimit, LimitStart, LimitEnd
<1>2. q \in 0..Track[a]
  BY <1>1
<1>3. q \in Rails
  BY <1>2, CarriageAssumption DEF CarriageAssumption
<1>4. Advance(p, dir, a) = [p EXCEPT ![a] = q]
  BY <1>3 DEF Advance
<1>5. QED
  BY <1>4

(* where the counted steps of its line would take an axis *)
Told(b) == hist.from[b] + (IF dir[b] THEN -hist.count[b] ELSE hist.count[b])

Driven(b) ==
  pos[b] = IF AtLimit(hist.from, b) THEN hist.from[b] ELSE Nearest(Told(b), b)

(* an axis between its switches has been driven all the counted steps *)
LEMMA DrivenFree ==
  ASSUME TypeOK, NEW b \in Axes, Driven(b)
  PROVE  AtLimit(pos, b) \/ pos[b] = Told(b)
<1>1. /\ Track[b] \in Nat /\ hist.from[b] \in Int /\ hist.count[b] \in Nat
      /\ Told(b) \in Int
  BY CarriageAssumption DEF CarriageAssumption, TypeOK, Told
<1>2. CASE AtLimit(hist.from, b)
  BY <1>2 DEF Driven, AtLimit, LimitStart, LimitEnd
<1>3. CASE ~AtLimit(hist.from, b)
  BY <1>1, <1>3 DEF Driven, Nearest, AtLimit, LimitStart, LimitEnd
<1>4. QED
  BY <1>2, <1>3

LEMMA StepDriven ==
  ASSUME TypeOK, NEW a \in Axes, Step(a), dir' = dir, NEW b \in Axes, Driven(b)
  PROVE  Driven(b)'
<1>1. /\ hist'.count[a] = hist.count[a] + 1 /\ hist'.from = hist.from
      /\ b # a => hist'.count[b] = hist.count[b]
  BY DEF Step, TypeOK
<1>2. /\ pos \in [Axes -> Int] /\ hist.from[b] \in Int /\ hist.count[b] \in Nat
      /\ Track[b] \in Nat
  BY CarriageAssumption DEF CarriageAssumption, TypeOK
<1>3. CASE b # a
  <2>1. pos'[b] = pos[b]
    BY <1>2, <1>3, AdvanceFree DEF Step
  <2>2. QED
    BY <1>1, <1>3, <2>1 DEF Driven, Told, Nearest, AtLimit, LimitStart, LimitEnd
<1>4. CASE b = a /\ AtLimit(hist.from, b)
  <2>1. AtLimit(pos, a)
    BY <1>4 DEF Driven, AtLimit, LimitStart, LimitEnd
  <2>2. pos' = pos
    BY <2>1 DEF Step
  <2>3. QED
    BY <1>1, <1>4, <2>2 DEF Driven, AtLimit, LimitStart, LimitEnd
<1>5. CASE b = a /\ ~AtLimit(hist.from, b)
  <2>1. /\ pos[b] = Nearest(Told(b), b)
        /\ 0 < hist.from[b] /\ hist.from[b] < Track[b]
    BY <1>2, <1>5 DEF Driven, AtLimit, LimitStart, LimitEnd
  <2>2. hist'.count[b] = hist.count[b] + 1 /\ hist'.from[b] = hist.from[b]
    BY <1>1, <1>5
  <2>3. Told(b)' = IF dir[b] THEN Told(b) - 1 ELSE Told(b) + 1
    BY <1>2, <2>2 DEF Told
  <2>4. ~AtLimit(hist'.from, b)
    BY <1>1, <1>5
  <2>5. pos'[b] = IF AtLimit(pos, b) THEN pos[b]
                  ELSE IF dir[b] THEN pos[b] - 1 ELSE pos[b] + 1
    BY <1>2, <1>5, AdvanceFree DEF Step
  <2>6. /\ Told(b) \in Int
        /\ dir[b] => Told(b) < Track[b]
        /\ ~dir[b] => 0 < Told(b)
    BY <1>2, <2>1 DEF Told
  <2>7. pos'[b] = Nearest(Told(b)', b)
    BY <1>2, <2>1, <2>3, <2>5, <2>6 DEF Nearest, AtLimit, LimitStart, LimitEnd
  <2>8. QED
    BY <2>4, <2>7 DEF Driven
<1>6. QED
  BY <1>3, <1>4, <1>5

LEMMA DrivenStep ==
  ASSUME TypeOK, [Next]_vars, NEW b \in Axes, Driven(b)
  PROVE  Driven(b)'
<1>1. ASSUME NEW c \in Targets, MoveTo(c) PROVE Driven(b)'
  <2>1. pos' = pos /\ hist'.from = pos /\ hist'.count = NoSteps
    BY <1>1 DEF MoveTo
  <2>2. hist'.count[b] = 0 /\ pos[b] \in Int
    BY <2>1 DEF NoSteps, TypeOK
  <2>3. QED
    BY <2>1, <2>2, CarriageAssumption
       DEF CarriageAssumption, Driven, Told, Nearest, AtLimit, LimitStart, LimitEnd
<1>2. CASE DriveMajor
  BY <1>2, StepDriven DEF DriveMajor, TypeOK
<1>3. CASE DriveMinor
  BY <1>3, StepDriven, OtherType DEF DriveMinor, TypeOK
<1>4. CASE UNCHANGED <<pos, hist, dir>>
  BY <1>4 DEF Driven, Told, Nearest, AtLimit, LimitStart, LimitEnd
<1>5. QED
  BY <1>1, <1>2, <1>3, <1>4 DEF Next, Draw, Accumulate, Repay, Finish, vars

(* No step of a line is lost, doubled or driven the wrong way, but for the   *)
(* steps of an axis that a switch holds: one that began its line on a       *)
(* switch stays there, one that met a switch on the way stopped there.      *)
THEOREM LineCountedStepsDriven == Spec => []CountedStepsDriven
<1>1. Init => CountedStepsDriven
  <2> SUFFICES ASSUME Init, NEW b \in Axes PROVE Driven(b)
    BY DEF CountedStepsDriven, Driven, Told
  <2>1. pos[b] = Home[b] /\ hist.from[b] = Home[b] /\ hist.count[b] = 0
    BY DEF Init, NoSteps
  <2>2. Home[b] \in Int
    BY LineAssumption DEF LineAssumption
  <2>3. QED
    BY <2>1, <2>2, CarriageAssumption
       DEF CarriageAssumption, Driven, Told, Nearest, AtLimit, LimitStart, LimitEnd
<1>2. TypeOK /\ CountedStepsDriven /\ [Next]_vars => CountedStepsDriven'
  <2> SUFFICES ASSUME TypeOK, \A b \in Axes : Driven(b), [Next]_vars
               PROVE  \A b \in Axes : Driven(b)'
    BY DEF CountedStepsDriven, Driven, Told
  <2>1. QED
    BY DrivenStep
<1>3. QED
  BY <1>1, <1>2, LineTypeCorrect, PTL DEF Spec

-----------------------------------------------------------------------------
(* Drift.                                                                  *)

(* Where a line may begin: at home or where another one ended. *)
Origin == [a \in Axes |-> 0]
Whence == Targets \cup {Origin}

(* One is fine enough for the share of the minor axis, which is a double in  *)
(* the source, of every line between these points.                         *)
ExactShares ==
  \A c0, c1 \in Whence, whole \in BOOLEAN :
    LET dist == Distance(c0, c1, whole)
        a == Dominating(dist)
    IN  dist[a] # 0 => (One * dist[Other(a)]) % dist[a] = 0

(* the drift the line under way began with *)
Begun(a) == Scale[a] * p0[a] - Q * (Home[a] - hist.from[a])

Stepping == pc \in {"accumulate", "minor", "repay"}

(* turns of the loop that have shortened d *)
Turns == IF Stepping THEN hist.count[major] - 1 ELSE hist.count[major]

LineFrom(dist) ==
  /\ major = Dominating(dist) /\ deltaError = DeltaError(dist)
  /\ d[major] = dist[major] - Q * Turns
  /\ d[major] > -Q
  /\ Stepping => d[major] > 0

OfLine ==
  /\ LineFrom(Distance(p0, p1, wholeAbs))
  /\ dir = [a \in Axes |-> p0[a] < p1[a]]
  /\ hist.lines >= 1
  /\ \A a \in Axes :
       AtLimit(pos, a) \/ Magnitude(Begun(a)) <= 2 * Q * (hist.lines - 1)

DriftInv ==
  /\ p0 \in Whence /\ p1 \in Whence
  /\ pc # "idle" => OfLine
  /\ DriftBound

LEMMA WhenceType == Whence \subseteq [Axes -> Int]
  BY LineAssumption DEF LineAssumption, Whence, Origin

(* A line that drove n steps over a length of v, in its direction. *)
LEMMA DriftOfLine ==
  ASSUME NEW s \in Nat, NEW from0 \in Int, NEW c0 \in Int, NEW c1 \in Int,
         NEW home \in Int, NEW n \in Nat, NEW at \in Int, NEW bound \in Nat,
         LET v == Magnitude((c1 - c0) * s)
         IN  v - 2 * Q <= Q * n /\ Q * n <= v + 2 * Q,
         at = from0 + (IF c0 < c1 THEN -n ELSE n),
         Magnitude(s * c0 - Q * (home - from0)) <= bound
  PROVE  Magnitude(s * c1 - Q * (home - at)) <= bound + 2 * Q
<1> DEFINE v == (c1 - c0) * s
           old == s * c0 - Q * (home - from0)
           new == s * c1 - Q * (home - at)
<1>1. Q \in Nat /\ v \in Int /\ old \in Int /\ new \in Int
  BY UnitsAssumption DEF UnitsAssumption
<1>2. new = old + v + Q * (at - from0)
  <2>1. v = s * c1 - s * c0
    OBVIOUS
  <2>2. Q * (home - at) = Q * (home - from0) - Q * (at - from0)
    BY <1>1
  <2>3. s * c1 \in Int /\ s * c0 \in Int /\ Q * (home - from0) \in Int
        /\ Q * (at - from0) \in Int /\ Q * (home - at) \in Int
    BY <1>1
  <2>4. QED
    BY <2>1, <2>2, <2>3
<1>3. CASE c0 < c1
  <2>1. v >= 0 /\ at - from0 = -n
    BY <1>3
  <2>2. Q * (at - from0) = -(Q * n) /\ Q * n \in Int
    BY <1>1, <2>1
  <2>3. v - 2 * Q <= Q * n /\ Q * n <= v + 2 * Q
    BY <2>1 DEF Magnitude
  <2>4. QED
    BY <1>1, <1>2, <2>2, <2>3 DEF Magnitude
<1>4. CASE ~(c0 < c1)
  <2>1. v <= 0 /\ at - from0 = n
    BY <1>4
  <2>2. Q * (at - from0) = Q * n /\ Q * n \in Int
    BY <1>1, <2>1
  <2>3. -v - 2 * Q <= Q * n /\ Q * n <= -v + 2 * Q
    BY <1>1, <2>1 DEF Magnitude
  <2>4. QED
    BY <1>1, <1>2, <2>2, <2>3 DEF Magnitude
<1>5. QED
  BY <1>3, <1>4

LEMMA ExactQuotient ==
  ASSUME NEW m \in Nat, NEW n \in Nat, n > 0, m % n = 0
  PROVE  (m \div n) * n = m
  OBVIOUS

LEMMA ExactDelta ==
  ASSUME ExactShares, NEW c0 \in Whence, NEW c1 \in Whence, NEW whole \in BOOLEAN
  PROVE  LET dist == Distance(c0, c1, whole)
             a == Dominating(dist)
         IN  /\ a \in Axes /\ dist \in [Axes -> Nat] /\ DeltaError(dist) \in Nat
             /\ dist[Other(a)] <= dist[a]
             /\ DeltaError(dist) * dist[a] = One * dist[Other(a)]
<1> DEFINE dist == Distance(c0, c1, whole)
           a == Dominating(dist)
<1>1. dist \in [Axes -> Nat]
  BY WhenceType, DistanceType
<1>2. a \in Axes /\ Other(a) \in Axes /\ dist[Other(a)] <= dist[a]
  BY <1>1 DEF Dominating, Other, Axes
<1>3. DeltaError(dist) \in Nat
  BY <1>1, DeltaErrorType, OneIsPositive
<1>4. CASE dist[a] = 0
  <2>1. dist[Other(a)] = 0
    BY <1>1, <1>2, <1>4
  <2>2. QED
    BY <1>1, <1>2, <1>3, <1>4, <2>1, OneIsPositive
<1>5. CASE dist[a] # 0
  <2>1. (One * dist[Other(a)]) % dist[a] = 0
    BY <1>5 DEF ExactShares
  <2>2. One * dist[Other(a)] \in Nat /\ dist[a] \in Nat /\ dist[a] > 0
    BY <1>1, <1>2, <1>5, OneIsPositive
  <2>3. DeltaError(dist) = (One * dist[Other(a)]) \div dist[a]
    BY <1>5 DEF DeltaError
  <2>4. QED
    BY <1>1, <1>2, <1>3, <2>1, <2>2, <2>3, ExactQuotient
<1>6. QED
  BY <1>4, <1>5

(* The line that ends has driven each axis to within two steps. *)
LEMMA FinishDrift ==
  ASSUME ExactShares, LineIInv, CountedStepsDriven, DriftInv, Finish,
         NEW a \in Axes
  PROVE  AtLimit(pos, a)' \/ Magnitude(Drift(a))' <= 2 * Q * hist'.lines
<1> DEFINE dist == Distance(p0, p1, wholeAbs)
           k == hist.count[major]
           v == Magnitude((p1[a] - p0[a]) * Scale[a])
<1>1. TypeOK /\ pc = "major" /\ d[major] <= 0
      /\ p0' = p1 /\ UNCHANGED <<pos, hist>>
  BY DEF LineIInv, Finish
<1>2. /\ OfLine /\ p0 \in Whence /\ p1 \in Whence /\ wholeAbs \in BOOLEAN
      /\ p0 \in [Axes -> Int] /\ p1 \in [Axes -> Int] /\ major = Dominating(dist)
      /\ deltaError = DeltaError(dist)
  BY <1>1 DEF DriftInv, OfLine, LineFrom, TypeOK
<1>3. /\ Q \in Nat /\ Q > 0 /\ One \in Nat
      /\ Scale[a] \in Nat /\ Home[a] \in Int
  BY UnitsAssumption, OneIsPositive, LineAssumption
     DEF UnitsAssumption, LineAssumption
<1>4. /\ hist.count[a] \in Nat /\ hist.from[a] \in Int /\ hist.lines \in Nat
      /\ k \in Nat /\ pos[a] \in Int /\ hist.lines >= 1
      /\ hist.count[Other(major)] \in Nat /\ Other(major) \in Axes
      /\ Axes = {major, Other(major)} /\ major \in Axes
  BY <1>1, <1>2, OtherType, LineAssumption DEF TypeOK, OfLine, LineAssumption
<1>5. /\ dist \in [Axes -> Nat] /\ deltaError \in Nat
      /\ dist[Other(major)] <= dist[major]
      /\ deltaError * dist[major] = One * dist[Other(major)]
  BY <1>2, ExactDelta
<1>6. dist[major] <= Q * k /\ Q * k < dist[major] + Q
  <2>1. d[major] = dist[major] - Q * k /\ d[major] > -Q
    BY <1>1, <1>2 DEF OfLine, LineFrom, Turns, Stepping
  <2>2. Q * k \in Int /\ dist[major] \in Int
    BY <1>3, <1>4, <1>5
  <2>3. QED
    BY <1>1, <1>3, <2>1, <2>2
<1>7. dist[a] <= v /\ v < dist[a] + Q /\ v \in Nat /\ dist[a] \in Nat
  <2>1. (p1[a] - p0[a]) * Scale[a] \in Int
    BY <1>2, <1>3
  <2>2. dist[a] = Abs((p1[a] - p0[a]) * Scale[a], wholeAbs)
    BY DEF Distance
  <2>3. v \in Nat
    BY <2>1 DEF Magnitude
  <2>4. QED
    BY <1>2, <1>5, <2>1, <2>2, <2>3, AbsDrops
<1>8. v - 2 * Q <= Q * hist.count[a] /\ Q * hist.count[a] <= v + 2 * Q
  <2>1. CASE a = major
    <3>1. Q * k \in Int
      BY <1>3, <1>4
    <3>2. QED
      BY <1>3, <1>6, <1>7, <2>1, <3>1
  <2>2. CASE a = Other(major)
    <3> DEFINE n == hist.count[Other(major)]
    <3>1. -One <= k * deltaError - n * One /\ k * deltaError - n * One <= One
      <4>1. error - hist.error = Owed /\ Small(error) /\ Small(hist.error)
        BY <1>1 DEF LineIInv, Account
      <4>2. error \in Int /\ hist.error \in Int
        BY <1>1, OwedType
      <4>3. QED
        BY <4>1, <4>2, OneIsPositive DEF Small, Owed
    <3>2. /\ dist[Other(major)] - Q <= Q * n
          /\ Q * n <= dist[Other(major)] + 2 * Q
      <4>1. dist[major] \in Nat /\ dist[Other(major)] \in Nat
        BY <1>4, <1>5
      <4>2. QED
        BY <1>4, <1>5, <1>6, <3>1, <4>1, ShareOfSteps
    <3>3. Q * n \in Int
      BY <1>3, <1>4
    <3>4. QED
      BY <1>3, <1>7, <2>2, <3>2, <3>3
  <2>3. QED
    BY <1>4, <2>1, <2>2
<1>9. CASE AtLimit(pos, a)
  BY <1>1, <1>9 DEF AtLimit, LimitStart, LimitEnd
<1>10. CASE ~AtLimit(pos, a)
  <2> DEFINE bound == 2 * Q * (hist.lines - 1)
  <2>1. pos[a] = hist.from[a] + (IF p0[a] < p1[a] THEN -hist.count[a]
                                                 ELSE hist.count[a])
    <3>1. TypeOK /\ Driven(a)
      BY DEF LineIInv, CountedStepsDriven, Driven, Told
    <3>2. pos[a] = Told(a)
      BY <1>10, <3>1, DrivenFree
    <3>3. QED
      BY <1>2, <3>2 DEF Told, OfLine
  <2>2. Magnitude(Scale[a] * p0[a] - Q * (Home[a] - hist.from[a])) <= bound
    BY <1>2, <1>10 DEF OfLine, Begun
  <2>3. bound \in Nat
    BY <1>3, <1>4
  <2>4. Magnitude(Scale[a] * p1[a] - Q * (Home[a] - pos[a])) <= bound + 2 * Q
    <3>1. p0[a] \in Int /\ p1[a] \in Int
      BY <1>2
    <3>2. QED
      BY <1>3, <1>4, <1>8, <2>1, <2>2, <2>3, <3>1, DriftOfLine
  <2>5. bound + 2 * Q = 2 * Q * hist.lines
    BY <1>3, <1>4
  <2>6. Drift(a)' = Scale[a] * p1[a] - Q * (Home[a] - pos[a])
    BY <1>1 DEF Drift
  <2>7. QED
    BY <1>1, <2>4, <2>5, <2>6 DEF Magnitude
<1>11. QED
  BY <1>9, <1>10

(* An axis that met a switch is held there. *)
LEMMA LimitStays ==
  ASSUME TypeOK, [Next]_vars, NEW a \in Axes, AtLimit(pos, a)
  PROVE  AtLimit(pos, a)'
<1>1. ASSUME NEW b \in Axes, Step(b) PROVE pos'[a] = pos[a]
  <2>1. CASE AtLimit(pos, b)
    BY <1>1, <2>1 DEF Step
  <2>2. CASE ~AtLimit(pos, b)
    <3>1. a # b /\ pos' = Advance(pos, dir, b) /\ pos \in [Axes -> Int]
      BY <1>1, <2>2 DEF Step, TypeOK
    <3>2. QED
      BY <2>2, <3>1, AdvanceFree
  <2>3. QED
    BY <2>1, <2>2
<1>2. pos'[a] = pos[a]
  BY <1>1, OtherType DEF Next, Draw, DriveMajor, Accumulate, DriveMinor, Repay,
     Finish, MoveTo, vars, TypeOK
<1>3. QED
  BY <1>2 DEF AtLimit, LimitStart, LimitEnd

(* Within a line only d and the counts matter. *)
LEMMA OfLineKept ==
  ASSUME TypeOK, [Next]_vars, DriftInv, pc # "idle",
         UNCHANGED <<p0, p1, major, dir, deltaError, wholeAbs>>,
         hist'.from = hist.from, hist'.lines = hist.lines,
         d'[major] + Q * Turns' = d[major] + Q * Turns,
         d'[major] > -Q, Stepping' => d'[major] > 0, pc' # "idle"
  PROVE  DriftInv'
<1> DEFINE dist == Distance(p0, p1, wholeAbs)
<1>1. /\ OfLine /\ Q \in Nat /\ d[major] = dist[major] - Q * Turns
      /\ major \in Axes /\ major = Dominating(dist)
      /\ deltaError = DeltaError(dist)
  BY UnitsAssumption DEF DriftInv, OfLine, LineFrom, UnitsAssumption, TypeOK
<1>2. dist' = dist
  BY DEF Distance
<1>3. dist[major] \in Int /\ Turns \in Int /\ Turns' \in Int
  <2>1. dist[major] \in Nat
    BY <1>1, DistanceType DEF TypeOK
  <2>2. TypeOK'
    BY TypeStep
  <2>3. hist.count[major] \in Nat /\ hist'.count[major] \in Nat
    BY <1>1, <2>2 DEF TypeOK
  <2>4. QED
    BY <2>1, <2>3 DEF Turns
<1>4. d'[major] = dist[major] - Q * Turns'
  <2>1. TypeOK'
    BY TypeStep
  <2>2. d'[major] \in Int /\ Q * Turns \in Int /\ Q * Turns' \in Int
    BY <1>1, <1>3, <2>1 DEF TypeOK
  <2>3. QED
    BY <1>1, <1>3, <2>2
<1>5. LineFrom(dist)'
  BY <1>1, <1>2, <1>4 DEF LineFrom
<1>6. ASSUME NEW a \in Axes
      PROVE  AtLimit(pos, a)' \/ Magnitude(Begun(a))' <= 2 * Q * (hist'.lines - 1)
  <2>1. CASE AtLimit(pos, a)
    BY <2>1, LimitStays
  <2>2. CASE ~AtLimit(pos, a)
    BY <1>1, <2>2 DEF OfLine, Begun, Magnitude
  <2>3. QED
    BY <2>1, <2>2
<1>7. OfLine'
  BY <1>1, <1>2, <1>5, <1>6 DEF OfLine
<1>8. QED
  BY <1>7 DEF DriftInv, DriftBound

LEMMA DriftInvInit == Init => DriftInv
<1> SUFFICES ASSUME Init PROVE DriftInv
  OBVIOUS
<1>1. p0 = Origin /\ p1 = Origin /\ pc = "idle"
  BY DEF Init, Origin
<1>2. ASSUME NEW a \in Axes PROVE Magnitude(Drift(a)) <= 2 * Q * hist.lines
  <2>1. Scale[a] \in Nat /\ Home[a] \in Int /\ Q \in Nat
    BY LineAssumption, UnitsAssumption DEF LineAssumption, UnitsAssumption
  <2>2. p0[a] = 0 /\ pos[a] = Home[a] /\ hist.lines = 0
    BY DEF Init
  <2>3. Drift(a) = 0
    BY <2>1, <2>2 DEF Drift
  <2>4. QED
    BY <2>1, <2>2, <2>3 DEF Magnitude
<1>3. QED
  BY <1>1, <1>2 DEF DriftInv, DriftBound, Whence

LEMMA DriftInvStep ==
  ASSUME ExactShares, LineIInv, CountedStepsDriven, DriftInv, [Next]_vars
  PROVE  DriftInv'
<1>1. TypeOK /\ Q \in Nat /\ Q > 0
  BY UnitsAssumption DEF LineIInv, UnitsAssumption
<1>2. major \in Axes /\ Other(major) \in Axes /\ Other(major) # major
      /\ hist.count[major] \in Nat /\ d[major] \in Int
      /\ d \in [Axes -> Int]
  BY <1>1, OtherType DEF TypeOK
<1>3. ASSUME NEW c \in Targets, MoveTo(c) PROVE DriftInv'
  <2> DEFINE dist == Distance(p0, c, wholeAbs)
  <2>1. /\ pc = "idle" /\ pc' = "major" /\ p1' = c /\ d' = dist
        /\ major' = Dominating(dist) /\ deltaError' = DeltaError(dist)
        /\ dir' = [a \in Axes |-> p0[a] < c[a]]
        /\ hist'.count = NoSteps /\ hist'.from = pos
        /\ hist'.lines = hist.lines + 1
        /\ UNCHANGED <<p0, wholeAbs, pos>>
    BY <1>3 DEF MoveTo
  <2>2. dist \in [Axes -> Nat] /\ major' \in Axes /\ hist.lines \in Nat
    <3>1. c \in [Axes -> Int] /\ p0 \in [Axes -> Int] /\ wholeAbs \in BOOLEAN
          /\ hist.lines \in Nat
      BY <1>1, LineAssumption DEF TypeOK, LineAssumption
    <3>2. dist \in [Axes -> Nat]
      BY <3>1, DistanceType
    <3>3. QED
      BY <2>1, <3>1, <3>2, DominatingType
  <2>3. Distance(p0, p1, wholeAbs)' = dist
    BY <2>1 DEF Distance
  <2>4. Turns' = 0 /\ ~Stepping'
    BY <2>1, <2>2 DEF Turns, Stepping, NoSteps
  <2>5. LineFrom(dist)'
    <3>1. d'[major'] = dist[major'] - Q * 0 /\ d'[major'] > -Q
      BY <1>1, <2>1, <2>2
    <3>2. dist' = dist
      BY <2>1 DEF Distance
    <3>3. QED
      BY <2>1, <2>4, <3>1, <3>2 DEF LineFrom
  <2>6. ASSUME NEW a \in Axes
        PROVE  AtLimit(pos, a)'
                 \/ Magnitude(Begun(a))' <= 2 * Q * (hist'.lines - 1)
    <3>1. Begun(a)' = Drift(a)
      BY <2>1 DEF Begun, Drift
    <3>2. AtLimit(pos, a) \/ Magnitude(Drift(a)) <= 2 * Q * hist.lines
      BY <2>1 DEF DriftInv, DriftBound
    <3>3. hist'.lines - 1 = hist.lines
      BY <2>1, <2>2
    <3>4. QED
      BY <2>1, <3>1, <3>2, <3>3 DEF AtLimit, LimitStart, LimitEnd, Magnitude
  <2>7. OfLine'
    <3>1. LineFrom(Distance(p0, p1, wholeAbs))'
      BY <2>1, <2>3, <2>5 DEF LineFrom
    <3>2. dir' = [a \in Axes |-> p0'[a] < p1'[a]] /\ hist'.lines >= 1
      BY <2>1, <2>2
    <3>3. QED
      BY <2>6, <3>1, <3>2 DEF OfLine
  <2>8. p0' \in Whence /\ p1' \in Whence
    BY <2>1 DEF DriftInv, Whence
  <2>9. QED
    BY <2>1, <2>7, <2>8 DEF DriftInv, DriftBound
<1>4. CASE DriveMajor
  <2>1. hist'.count[major] = hist.count[major] + 1 /\ hist'.from = hist.from
        /\ hist'.lines = hist.lines
    BY <1>1, <1>2, <1>4 DEF DriveMajor, Step, TypeOK
  <2>2. Turns' = Turns
    BY <1>2, <1>4, <2>1 DEF DriveMajor, Turns, Stepping
  <2>3. QED
    BY <1>1, <1>2, <1>4, <2>1, <2>2, OfLineKept DEF DriveMajor
<1>5. CASE DriveMinor
  <2>1. hist'.count[major] = hist.count[major] /\ hist'.from = hist.from
        /\ hist'.lines = hist.lines
    BY <1>1, <1>2, <1>5 DEF DriveMinor, Step, TypeOK
  <2>2. Turns' = Turns /\ Stepping
    BY <1>2, <1>5, <2>1 DEF DriveMinor, Turns, Stepping
  <2>3. d[major] > 0
    BY <1>5, <2>2 DEF DriveMinor, DriftInv, OfLine, LineFrom
  <2>4. QED
    BY <1>1, <1>2, <1>5, <2>1, <2>2, <2>3, OfLineKept DEF DriveMinor
(* the two ends of a turn: d is shortened, or the minor axis is served first *)
<1>6. CASE Accumulate \/ Repay
  <2>1. UNCHANGED <<p0, p1, major, dir, deltaError, wholeAbs, pos, hist>>
        /\ Stepping /\ pc # "idle" /\ pc' # "idle"
    BY <1>6 DEF Accumulate, Repay, Stepping
  <2>2. d[major] > 0
    BY <2>1 DEF DriftInv, OfLine, LineFrom
  <2>3. CASE pc' = "minor" /\ UNCHANGED d
    <3>1. Turns' = Turns
      BY <2>1, <2>3 DEF Turns, Stepping
    <3>2. QED
      BY <1>1, <1>2, <2>1, <2>2, <2>3, <3>1, OfLineKept
  <2>4. CASE pc' = "major" /\ Shorten
    <3>1. d'[major] = d[major] - Q
      BY <1>2, <2>4 DEF Shorten
    <3>2. Turns' = Turns + 1 /\ Turns \in Int
      BY <1>2, <2>1, <2>4 DEF Turns, Stepping
    <3>3. Q * (Turns + 1) = Q * Turns + Q /\ Q * Turns \in Int
      BY <1>1, <3>2
    <3>4. d'[major] + Q * Turns' = d[major] + Q * Turns
      BY <1>1, <1>2, <3>1, <3>2, <3>3
    <3>5. d'[major] > -Q
      BY <1>1, <1>2, <2>2, <3>1
    <3>6. ~Stepping'
      BY <2>4 DEF Stepping
    <3>7. QED
      BY <1>1, <2>1, <3>4, <3>5, <3>6, OfLineKept
  <2>5. QED
    BY <1>6, <2>3, <2>4 DEF Accumulate, Repay
<1>7. CASE Finish
  <2>1. DriftBound'
    BY <1>7, FinishDrift DEF DriftBound
  <2>2. QED
    BY <1>7, <2>1 DEF Finish, DriftInv
<1>8. CASE UNCHANGED vars
  BY <1>8 DEF vars, DriftInv, OfLine, LineFrom, Turns, Stepping, Begun, Distance,
     DriftBound, Drift, AtLimit, LimitStart, LimitEnd
<1>9. QED
  BY <1>3, <1>4, <1>5, <1>6, <1>7, <1>8 DEF Next, Draw

(* Each line may leave an axis off its commanded position by up to two      *)
(* steps, never more, however long it is; only a switch leaves it further.  *)
THEOREM LineDriftBound == ASSUME ExactShares PROVE Spec => []DriftBound
<1>1. Spec => [](LineIInv /\ CountedStepsDriven)
  BY LineInvariant, LineCountedStepsDriven, PTL
<1>2. Init => DriftInv
  BY DriftInvInit
<1>3. LineIInv /\ CountedStepsDriven /\ DriftInv /\ [Next]_vars => DriftInv'
  BY DriftInvStep
<1>4. DriftInv => DriftBound
  BY DEF DriftInv
<1>5. QED
  BY <1>1, <1>2, <1>3, <1>4, PTL DEF Spec

=============================================================================

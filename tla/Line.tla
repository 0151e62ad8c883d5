-------------------------------- MODULE Line --------------------------------
(***************************************************************************)
(* triggerMotors: what the stepper task does with a G1 once both axes are  *)
(* calibrated, each RIT_start taken as one atomic motor step.  The module  *)
(* Motion has the same loop over the real driver and implements this one.  *)
(*                                                                         *)
(* The loop walks the dominating axis one step per turn and adds           *)
(* deltaError to the global error; whenever that exceeds 0.5 the other     *)
(* axis steps too and 1.0 is taken back.  error survives from line to line *)
(* and is never reset, whichever axis it was accumulated for.              *)
(***************************************************************************)
EXTENDS PlotMath

CONSTANTS
  Scale,      \* scaledX and scaledY: motor steps per millimetre
  Home,       \* where calibration leaves the carriage: coordinates (0, 0)
  Targets,    \* the coordinates a G1 may name, in units of 1/Q mm
  MaxLines    \* bound on the number of G1 commands

ASSUME LineAssumption ==
  /\ Scale \in [Axes -> Nat]
  /\ Home \in [Axes -> Int]
  /\ Targets \subseteq [Axes -> Int]
  /\ MaxLines \in Nat

VARIABLES
  pc,         \* where the loop stands
  p0,         \* x0 and y0, the commanded position
  p1,         \* x1 and y1, the position of the current command
  d,          \* dx and dy, in units of 1/Q step
  major,      \* xDominating
  dir,        \* xDir and yDir, written to the direction pins
  error, deltaError,
  exact,      \* no sum so far was rounded
  wholeAbs,   \* which abs() the toolchain links
  pos,        \* the carriage
  hist        \* history of the current line: where it began, with which
              \* error, and the steps each axis was told to make; the number
              \* of lines so far

vars == <<pc, p0, p1, d, major, dir, error, deltaError, exact, wholeAbs, pos,
          hist>>

Locations == {"idle", "major", "accumulate", "minor", "repay"}

TypeOK ==
  /\ pc \in Locations
  /\ p0 \in [Axes -> Int] /\ p1 \in [Axes -> Int]
  /\ d \in [Axes -> Int]
  /\ major \in Axes
  /\ dir \in [Axes -> BOOLEAN]
  /\ error \in Int
  /\ deltaError \in 0..One
  /\ exact \in BOOLEAN /\ wholeAbs \in BOOLEAN
  /\ pos \in [Axes -> Int]
  /\ hist \in [from : [Axes -> Int], error : Int, count : [Axes -> Nat],
               lines : 0..MaxLines]

NoSteps == [a \in Axes |-> 0]

Init ==
  /\ pc = "idle"
  /\ p0 = [a \in Axes |-> 0] /\ p1 = [a \in Axes |-> 0]
  /\ d = [a \in Axes |-> 0]
  /\ major = "y"
  /\ dir = [a \in Axes |-> TRUE]
  /\ error = Half /\ deltaError = 0
  /\ exact = TRUE
  /\ wholeAbs \in BOOLEAN
  /\ pos = Home
  /\ hist = [from |-> Home, error |-> Half, count |-> NoSteps, lines |-> 0]

(* Mutation: each axis is scaled by the other one's scale. *)
DistanceSwapped(c0, c1, whole) ==
  [a \in Axes |-> Abs((c1[a] - c0[a]) * Scale[Other(a)], whole)]

(* dx and dy after abs(), for a move from c0 to c1 *)
Distance(c0, c1, whole) ==
  [a \in Axes |-> Abs((c1[a] - c0[a]) * Scale[a], whole)]

MoveTo(c) ==
  LET dist == Distance(p0, c, wholeAbs)
  IN  /\ pc = "idle" /\ pc' = "major"
      /\ hist.lines < MaxLines
      /\ p1' = c
      /\ d' = dist
      /\ dir' = [a \in Axes |-> p0[a] < c[a]]
      /\ major' = Dominating(dist)
      /\ deltaError' = DeltaError(dist)
      /\ hist' = [from |-> pos, error |-> error, count |-> NoSteps,
                  lines |-> hist.lines + 1]
      /\ UNCHANGED <<p0, error, exact, wholeAbs, pos>>

(* Mutation: only the switch ahead holds an axis. *)
StepHeldAhead(a) ==
  /\ pos' = IF (IF dir[a] THEN LimitStart(pos, a) ELSE LimitEnd(pos, a))
               THEN pos ELSE Advance(pos, dir, a)
  /\ hist' = [hist EXCEPT !.count[a] = @ + 1]

(* one RIT_start: the handler holds an axis that stands on a switch,        *)
(* whichever way it is to go                                               *)
Step(a) ==
  /\ pos' = IF AtLimit(pos, a) THEN pos ELSE Advance(pos, dir, a)
  /\ hist' = [hist EXCEPT !.count[a] = @ + 1]

DriveMajor ==
  /\ pc = "major" /\ d[major] > 0 /\ pc' = "accumulate"
  /\ Step(major)
  /\ UNCHANGED <<p0, p1, d, major, dir, error, deltaError, exact, wholeAbs>>

Shorten == d' = [d EXCEPT ![major] = @ - Q]

Accumulate ==
  /\ pc = "accumulate"
  /\ error' = error + deltaError
  /\ exact' = (exact /\ Dyadic(Distance(p0, p1, wholeAbs)))
  /\ \E crosses \in Crosses(error, deltaError, exact') :
       IF crosses THEN pc' = "minor" /\ UNCHANGED d
                  ELSE pc' = "major" /\ Shorten
  /\ UNCHANGED <<p0, p1, major, dir, deltaError, wholeAbs, pos, hist>>

DriveMinor ==
  /\ pc = "minor" /\ pc' = "repay"
  /\ Step(Other(major))
  /\ UNCHANGED <<p0, p1, d, major, dir, error, deltaError, exact, wholeAbs>>

(* Mutation: error -= 1.0 is missing. *)
RepayForgotten ==
  /\ pc = "repay" /\ pc' = "major"
  /\ Shorten
  /\ UNCHANGED <<p0, p1, major, dir, error, deltaError, exact, wholeAbs, pos,
                 hist>>

Repay ==
  /\ pc = "repay" /\ pc' = "major"
  /\ error' = error - One
  /\ Shorten
  /\ UNCHANGED <<p0, p1, major, dir, deltaError, exact, wholeAbs, pos, hist>>

(* Mutation: the loop does not end at 0. *)
FinishBelowZero ==
  /\ pc = "major" /\ d[major] < 0 /\ pc' = "idle"
  /\ p0' = p1
  /\ UNCHANGED <<p1, d, major, dir, error, deltaError, exact, wholeAbs, pos,
                 hist>>

(* x0 += (x1 - x0): whatever was really driven *)
Finish ==
  /\ pc = "major" /\ d[major] <= 0 /\ pc' = "idle"
  /\ p0' = p1
  /\ UNCHANGED <<p1, d, major, dir, error, deltaError, exact, wholeAbs, pos,
                 hist>>

Draw == DriveMajor \/ Accumulate \/ DriveMinor \/ Repay \/ Finish

Next == Draw \/ \E c \in Targets : MoveTo(c)

Spec == Init /\ [][Next]_vars /\ WF_vars(Draw)

-----------------------------------------------------------------------------
(* Properties.                                                             *)

(* The error term stays within half a step at every turn of the loop and    *)
(* from line to line, although it is never reset and the ties are decided   *)
(* by rounding.                                                            *)
ErrorBound ==
  pc \in {"idle", "major", "accumulate"} => -Half <= error /\ error <= Half

(* At every turn of the loop the minor axis has been told to make within    *)
(* one step of its share of the steps of the major one: the plotted line    *)
(* never leaves the ideal one by more than a step.                         *)
OnTheLine ==
  pc \in {"idle", "major"} =>
    LET owed == hist.count[major] * deltaError
                  - hist.count[Other(major)] * One
    IN  -One <= owed /\ owed <= One

(* Steps an axis should have made from Home by the commanded position, in   *)
(* units of 1/Q step, less the steps it did make.                          *)
Drift(a) == Scale[a] * p0[a] - Q * (Home[a] - pos[a])

(* The firmware keeps coordinates, not steps: each line may leave an axis   *)
(* off its commanded position, by at most two steps, and nothing ever       *)
(* corrects it.  An axis that met a closed switch is not covered.          *)
DriftBound ==
  pc = "idle" =>
    \A a \in Axes :
      AtLimit(pos, a) \/ Magnitude(Drift(a)) <= 2 * Q * hist.lines

(* the place nearest to n from one switch of an axis to the other *)
Nearest(n, a) == IF n < 0 THEN 0 ELSE IF n > Track[a] THEN Track[a] ELSE n

(* Where a line has taken an axis, by the steps it counted.  One that it    *)
(* found on a switch is still there, even if the target is away from it;    *)
(* one that met a switch on the way stopped there while the counts, and     *)
(* with them x0 and y0, went on; any other axis was driven every counted    *)
(* step in the direction of the target, none lost, doubled or reversed.     *)
CountedStepsDriven ==
  \A a \in Axes :
    LET told == hist.from[a] + (IF dir[a] THEN -hist.count[a] ELSE hist.count[a])
    IN  pos[a] = IF AtLimit(hist.from, a) THEN hist.from[a] ELSE Nearest(told, a)

(* Every line ends, and the command is then taken to be executed. *)
LineEnds == pc # "idle" ~> pc = "idle" /\ p0 = p1

=============================================================================

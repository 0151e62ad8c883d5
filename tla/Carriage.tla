------------------------------ MODULE Carriage ------------------------------
(***************************************************************************)
(* The plotter's two axes: where a carriage stands, in motor steps from    *)
(* its Start switch, which switch that closes, and what a step does to it. *)
(***************************************************************************)
EXTENDS Integers

CONSTANTS
  Track,      \* position at which the End switch of an axis closes
  Rails       \* positions the frame lets a carriage reach

Axes == {"x", "y"}
Other(a) == IF a = "x" THEN "y" ELSE "x"

ASSUME CarriageAssumption ==
  /\ Track \in [Axes -> Nat \ {0}]
  /\ Rails \subseteq Int
  /\ \A a \in Axes : 0..Track[a] \subseteq Rails

(* getLimitStart().read() and getLimitEnd().read() *)
LimitStart(p, a) == p[a] <= 0
LimitEnd(p, a) == p[a] >= Track[a]
AtLimit(p, a) == LimitStart(p, a) \/ LimitEnd(p, a)

(* One motor step, towards Start when the direction pin dir[a] is high; at *)
(* the end of the rails the motor stalls.                                  *)
Advance(p, dir, a) ==
  LET q == IF dir[a] THEN p[a] - 1 ELSE p[a] + 1
  IN  IF q \in Rails THEN [p EXCEPT ![a] = q] ELSE p

=============================================================================

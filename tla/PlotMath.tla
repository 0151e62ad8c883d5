------------------------------ MODULE PlotMath ------------------------------
(***************************************************************************)
(* The arithmetic of calibration and of line drawing, with the doubles of  *)
(* the source as integers: a coordinate counts 1/Q mm, a distance 1/Q step *)
(* and a line error 1/One of 1.0.                                          *)
(***************************************************************************)
EXTENDS Carriage

CONSTANTS Q,       \* units of a millimetre and of a motor step
          Half     \* the units of the error term that make 0.5

ASSUME UnitsAssumption == Q \in Nat \ {0} /\ Half \in Nat \ {0}

One == 2 * Half

Magnitude(v) == IF v < 0 THEN -v ELSE v

-----------------------------------------------------------------------------
(* Calibration: n is the number of steps counted from the Start switch.    *)

(* for (int i = 0; i < (steps * 0.02); i++): the smallest integer >= 2n/100 *)
Backoff(n) == (2 * n + 99) \div 100

(* Mutation: one step too few. *)
KeptLess(n) == n - 1 - Backoff(n)

(* steps = steps * 0.98, stored in an int *)
Kept(n) == (98 * n) \div 100

-----------------------------------------------------------------------------
(* Drawing a line.  v is a signed distance in units of 1/Q step.           *)

(* abs(dx): an older toolchain takes int abs(int), which drops the         *)
(* fraction; a newer one the overload on double.                           *)
Abs(v, whole) == IF whole THEN (Magnitude(v) \div Q) * Q ELSE Magnitude(v)

(* Mutation: the shorter axis leads. *)
DominatingShorter(d) == IF d["x"] < d["y"] THEN "x" ELSE "y"

(* the axis that steps on every turn of the loop: x only if strictly longer *)
Dominating(d) == IF d["x"] > d["y"] THEN "x" ELSE "y"

(* deltaError = minor / major, 0.5 when nothing moves *)
DeltaError(d) ==
  LET a == Dominating(d)
  IN  IF d[a] = 0 THEN Half ELSE (One * d[Other(a)]) \div d[a]

(* minor / major is a multiple of 1/64, so the double holds it exactly *)
Dyadic(d) ==
  LET a == Dominating(d) IN d[a] # 0 => (64 * d[Other(a)]) % d[a] = 0

(* Mutation: the comparison is with 1.0. *)
CrossesLate(e, delta, exact) == {e + delta > One}

(* The outcomes of  error += deltaError; error > 0.5.  The sums are exact   *)
(* reals here; a double that lies on the tie after inexact additions may    *)
(* compare either way, except that adding 0.0 to a value that was not above *)
(* 0.5 leaves it there, and -0.5, reached only from above, plus 1.0 exceeds *)
(* 0.5 again.                                                              *)
Crosses(e, delta, exact) ==
  {b \in BOOLEAN :
     /\ e + delta > Half => b
     /\ e + delta < Half => ~b
     /\ (e + delta = Half /\ (exact \/ delta = 0)) => ~b
     /\ (e + delta = Half /\ ~exact /\ delta = One) => b}

=============================================================================

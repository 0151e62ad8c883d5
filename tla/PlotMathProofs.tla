--------------------------- MODULE PlotMathProofs ---------------------------
(***************************************************************************)
(* Lemmas about the arithmetic of PlotMath, for the proofs about the line  *)
(* loop and about calibration.                                             *)
(***************************************************************************)
EXTENDS PlotMath, TLAPS

LEMMA OneIsPositive == Half \in Nat /\ Half > 0 /\ One = 2 * Half /\ One \in Nat
  BY UnitsAssumption DEF UnitsAssumption, One

LEMMA AbsType ==
  ASSUME NEW v \in Int, NEW whole \in BOOLEAN
  PROVE  Abs(v, whole) \in Nat
<1>1. Magnitude(v) \in Nat
  BY DEF Magnitude
<1>2. Q \in Nat /\ Q > 0
  BY UnitsAssumption DEF UnitsAssumption
<1>3. Magnitude(v) \div Q \in Nat
  BY <1>1, <1>2
<1>4. (Magnitude(v) \div Q) * Q \in Nat
  BY <1>2, <1>3
<1>5. QED
  BY <1>1, <1>4 DEF Abs

(* A quotient of a number by one at least as large is at most one. *)
LEMMA QuotientBound ==
  ASSUME NEW m \in Nat, NEW n \in Nat, n > 0, m <= n, NEW k \in Nat
  PROVE  (k * m) \div n \in 0..k
<1> DEFINE q == (k * m) \div n
<1>1. k * m \in Nat /\ k * n \in Nat
  OBVIOUS
<1>2. q \in Int /\ n * q <= k * m /\ k * m < n * (q + 1)
  BY <1>1
<1>3. k * m <= k * n
  OBVIOUS
<1>4. q <= k
  <2>1. n * q <= n * k
    BY <1>1, <1>2, <1>3
  <2>2. QED
    BY <1>2, <2>1
<1>5. q >= 0
  BY <1>1
<1>6. QED
  BY <1>2, <1>4, <1>5

LEMMA DeltaErrorType ==
  ASSUME NEW dist \in [Axes -> Nat]
  PROVE  DeltaError(dist) \in 0..One
<1> DEFINE a == Dominating(dist)
<1>1. a \in Axes /\ Other(a) \in Axes /\ dist[Other(a)] <= dist[a]
  BY DEF Dominating, Other, Axes
<1>2. CASE dist[a] = 0
  BY <1>2, OneIsPositive DEF DeltaError
<1>3. CASE dist[a] # 0
  <2>1. (One * dist[Other(a)]) \div dist[a] \in 0..One
    BY <1>1, <1>3, OneIsPositive, QuotientBound
  <2>2. QED
    BY <1>3, <2>1 DEF DeltaError
<1>4. QED
  BY <1>2, <1>3

LEMMA DominatingType ==
  ASSUME NEW dist PROVE Dominating(dist) \in Axes
  BY DEF Dominating, Axes

LEMMA OtherType ==
  ASSUME NEW a \in Axes
  PROVE  Other(a) \in Axes /\ Other(a) # a /\ Axes = {a, Other(a)}
  BY DEF Other, Axes

-----------------------------------------------------------------------------
(* How far the steps of a line can be from its length.                     *)

LEMMA CancelFactor ==
  ASSUME NEW a \in Int, NEW b \in Int, NEW c \in Nat, c > 0, a * c <= b * c
  PROVE  a <= b
  OBVIOUS

LEMMA TimesOrder ==
  ASSUME NEW a \in Int, NEW b \in Int, NEW c \in Nat, a <= b
  PROVE  a * c <= b * c /\ c * a <= c * b
  OBVIOUS

(* The fraction that abs() may drop is less than a step. *)
LEMMA AbsDrops ==
  ASSUME NEW v \in Int, NEW whole \in BOOLEAN
  PROVE  /\ Abs(v, whole) <= Magnitude(v)
         /\ Magnitude(v) < Abs(v, whole) + Q
<1> DEFINE m == Magnitude(v)
<1>1. m \in Nat /\ Q \in Nat /\ Q > 0
  BY UnitsAssumption DEF Magnitude, UnitsAssumption
<1>2. (m \div Q) * Q <= m /\ m < (m \div Q) * Q + Q
  <2> DEFINE k == m \div Q
  <2>1. k \in Int /\ Q * k <= m /\ m < Q * (k + 1)
    BY <1>1
  <2>2. Q * (k + 1) = k * Q + Q /\ Q * k = k * Q
    BY <1>1, <2>1
  <2>3. QED
    BY <2>1, <2>2
<1>3. QED
  BY <1>1, <1>2 DEF Abs

(* If big, the longer distance, is covered in k steps (the last may         *)
(* overshoot) and the n steps of the other axis are within one of its share,*)
(* those are within two steps of the shorter distance.                     *)
LEMMA ShareOfSteps ==
  ASSUME NEW big \in Nat, NEW small \in Nat, small <= big,
         NEW k \in Nat, NEW n \in Nat, NEW delta \in Nat,
         big <= Q * k, Q * k < big + Q, delta * big = One * small,
         -One <= k * delta - n * One, k * delta - n * One <= One
  PROVE  small - Q <= Q * n /\ Q * n <= small + 2 * Q
<1>1. Q \in Nat /\ Q > 0 /\ One \in Nat /\ One > 0
  BY OneIsPositive, UnitsAssumption DEF UnitsAssumption
<1>2. CASE big = 0
  <2>1. k = 0
    <3>1. Q * k < Q * 1
      BY <1>1, <1>2
    <3>2. QED
      BY <1>1, <3>1
  <2>2. k * delta = 0
    BY <2>1
  <2>3. n * One <= 1 * One
    BY <1>1, <2>2
  <2>4. n <= 1
    BY <1>1, <2>3, CancelFactor
  <2>5. Q * n <= Q /\ Q * n >= 0
    BY <1>1, <2>4
  <2>6. QED
    BY <1>1, <1>2, <2>5
<1>3. CASE big > 0
  <2>1. k * delta * big = k * (One * small)
    <3>1. k * delta * big = k * (delta * big)
      OBVIOUS
    <3>2. QED
      BY <3>1
  (* the share of the shorter axis, over big *)
  <2>2. k * small <= (n + 1) * big /\ (n - 1) * big <= k * small
    <3>1. k * delta <= (n + 1) * One /\ (n - 1) * One <= k * delta
      BY <1>1
    <3>2. k * delta * big <= (n + 1) * One * big
      <4>1. k * delta \in Nat /\ (n + 1) * One \in Nat
        BY <1>1
      <4>2. QED
        BY <3>1, <4>1, TimesOrder
    <3>3. (n - 1) * One * big <= k * delta * big
      <4>1. k * delta \in Int /\ (n - 1) * One \in Int
        BY <1>1
      <4>2. QED
        BY <3>1, <4>1, TimesOrder
    <3>4. k * (One * small) = (k * small) * One
      BY <1>1
    <3>5. /\ (n + 1) * One * big = ((n + 1) * big) * One
          /\ (n - 1) * One * big = ((n - 1) * big) * One
      BY <1>1
    <3>6. (k * small) * One <= ((n + 1) * big) * One
          /\ ((n - 1) * big) * One <= (k * small) * One
      BY <2>1, <3>2, <3>3, <3>4, <3>5
    <3>7. k * small \in Int /\ (n + 1) * big \in Int /\ (n - 1) * big \in Int
      OBVIOUS
    <3>8. QED
      BY <1>1, <3>6, <3>7, CancelFactor
  (* the overshoot of the longer axis, over small *)
  <2>3. big * small <= Q * k * small /\ Q * k * small <= big * small + Q * big
    <3>1. big * small <= (Q * k) * small
      <4>1. Q * k \in Int
        BY <1>1
      <4>2. QED
        BY <4>1, TimesOrder
    <3>2. (Q * k) * small <= (big + Q) * small
      <4>1. Q * k \in Int /\ big + Q \in Int /\ Q * k <= big + Q
        BY <1>1
      <4>2. QED
        BY <4>1, TimesOrder
    <3>3. (big + Q) * small = big * small + Q * small
      BY <1>1
    <3>4. Q * small <= Q * big
      <4>1. small * Q <= big * Q
        BY <1>1, TimesOrder
      <4>2. QED
        BY <1>1, <4>1
    <3>5. big * small \in Int /\ Q * small \in Int /\ Q * big \in Int
          /\ (Q * k) * small \in Int
      BY <1>1
    <3>6. QED
      BY <3>1, <3>2, <3>3, <3>4, <3>5
  <2>4. /\ Q * (k * small) <= Q * ((n + 1) * big)
        /\ Q * ((n - 1) * big) <= Q * (k * small)
    <3>1. k * small \in Int /\ (n + 1) * big \in Int /\ (n - 1) * big \in Int
      OBVIOUS
    <3>2. QED
      BY <1>1, <2>2, <3>1, TimesOrder
  <2>5. Q * k * small = Q * (k * small)
    BY <1>1
  <2>6. small * big <= (Q * n + Q) * big
    BY <1>1, <2>3, <2>4, <2>5
  <2>7. (Q * n - Q) * big <= (small + Q) * big
    BY <1>1, <2>3, <2>4, <2>5
  <2>8. small <= Q * n + Q /\ Q * n - Q <= small + Q
    BY <1>1, <1>3, <2>6, <2>7, CancelFactor
  <2>9. QED
    BY <1>1, <2>8
<1>4. QED
  BY <1>2, <1>3

-----------------------------------------------------------------------------
(* Calibration: backing off by the 2 % that are not kept.                  *)

LEMMA BackoffKept ==
  ASSUME NEW n \in Nat
  PROVE  /\ Backoff(n) \in Nat /\ Kept(n) \in Nat
         /\ n - Backoff(n) = Kept(n)
         /\ n > 0 => Backoff(n) > 0 /\ Backoff(n) <= n
  BY DEF Backoff, Kept

LEMMA OneStepKept == Kept(1) = 0
  BY DEF Kept

=============================================================================

----------------------------- MODULE GCodeProofs -----------------------------
(***************************************************************************)
(* The G-code parser, for all lines of the host, any number of them, and   *)
(* packets cut anywhere.  Texts are concatenations of any number of parts  *)
(* and numbers have any number of digits, so that the first lemmas are     *)
(* inductions: over sets of numbers, since a theorem about an operator     *)
(* cannot be instantiated.                                                 *)
(***************************************************************************)
EXTENDS GCode, SequenceTheorems, WellFoundedInduction, TLAPS

-----------------------------------------------------------------------------
(* Induction.                                                              *)

LEMMA Least ==
  ASSUME NEW I \in SUBSET Nat, I # {}
  PROVE  \E x \in I : \A y \in I : x <= y
<1> DEFINE R == {p \in Nat \X Nat : p[1] < p[2]}
<1>1. IsWellFoundedOn(R, Nat)
  BY NatLessThanWellFounded DEF OpToRel
<1>2. PICK x \in I : \A y \in I : ~ (<<y, x>> \in R)
  <2> HIDE DEF R
  <2>1. QED
    BY <1>1, WFMin
<1>3. ASSUME NEW y \in I PROVE x <= y
  <2>1. x \in Nat /\ y \in Nat
    OBVIOUS
  <2>2. y < x => <<y, x>> \in R
    BY <2>1
  <2>3. ~ (y < x)
    BY <1>2, <2>2
  <2>4. QED
    BY <2>1, <2>3
<1>4. QED
  BY <1>3

LEMMA NatSetInduction ==
  ASSUME NEW P \in SUBSET Nat, 0 \in P, \A n \in P : n + 1 \in P
  PROVE  P = Nat
<1>1. SUFFICES ASSUME Nat \ P # {} PROVE FALSE
  OBVIOUS
<1>2. PICK x \in Nat \ P : \A y \in Nat \ P : x <= y
  BY <1>1, Least
<1>3. x # 0 /\ x - 1 \in P
  BY <1>2
<1>4. QED
  BY <1>3

LEMMA MinInSet ==
  ASSUME NEW I \in SUBSET Nat, I # {}
  PROVE  Min(I) \in I /\ \A i \in I : Min(I) <= i
  BY Least DEF Min

LEMMA MaxInSet ==
  ASSUME NEW n \in Nat, NEW I \in SUBSET (0..n), I # {}
  PROVE  Max(I) \in I /\ \A i \in I : i <= Max(I)
<1> DEFINE J == {j \in 0..n : n - j \in I}
<1>1. PICK i \in I : TRUE
  OBVIOUS
<1>2. n - i \in J
  BY <1>1
<1>3. PICK x \in J : \A y \in J : x <= y
  <2>1. J \in SUBSET Nat /\ J # {}
    BY <1>2
  <2> HIDE DEF J
  <2>2. QED
    BY <2>1, Least
<1>4. ASSUME NEW y \in I PROVE n - x >= y
  <2>1. n - y \in J
    OBVIOUS
  <2>2. x <= n - y /\ x \in 0..n /\ y \in 0..n
    BY <1>3, <2>1
  <2>3. QED
    BY <2>2
<1>5. n - x \in I
  OBVIOUS
<1>6. QED
  BY <1>4, <1>5 DEF Max

(* what step makes of base, turn by turn *)
IsIteration(f, n, S, base, step) ==
  /\ f \in [0..n -> S] /\ f[0] = base
  /\ \A i \in 1..n : f[i] = step[i][f[i - 1]]

(* A recursive function exists if what it maps to stays in a set. *)
LEMMA Iterates ==
  ASSUME NEW n \in Nat, NEW S, NEW base \in S, NEW step \in [1..n -> [S -> S]]
  PROVE  \E f : IsIteration(f, n, S, base, step)
<1> DEFINE Good(m, f) == /\ f[0] = base
                         /\ \A i \in 1..m : f[i] = step[i][f[i - 1]]
           P == {m \in Nat : m <= n => \E f \in [0..m -> S] : Good(m, f)}
<1>1. 0 \in P
  <2>1. [i \in 0..0 |-> base] \in [0..0 -> S] /\ Good(0, [i \in 0..0 |-> base])
    OBVIOUS
  <2>2. QED
    BY <2>1
<1>2. ASSUME NEW m \in P PROVE m + 1 \in P
  <2>1. m + 1 \in Nat /\ (m <= n => \E f \in [0..m -> S] : Good(m, f))
    OBVIOUS
  <2> SUFFICES ASSUME m + 1 <= n
               PROVE  \E g \in [0..m + 1 -> S] : Good(m + 1, g)
    <3> HIDE DEF Good
    <3>1. QED
      BY <2>1
  <2>2. PICK f \in [0..m -> S] : Good(m, f)
    BY <2>1
  <2>3. m + 1 \in 1..n /\ f[m] \in S
    BY <2>1
  <2>4. step[m + 1][f[m]] \in S
    BY <2>3
  <2> DEFINE g == [i \in 0..m + 1 |-> IF i <= m THEN f[i] ELSE step[m + 1][f[m]]]
  <2>5. g \in [0..m + 1 -> S]
    BY <2>4
  <2>6. Good(m + 1, g)
    <3>1. g[0] = base
      BY <2>2
    <3>2. ASSUME NEW i \in 1..m + 1 PROVE g[i] = step[i][g[i - 1]]
      BY <2>2
    <3>3. QED
      BY <3>1, <3>2
  <2>7. QED
    <3> HIDE DEF g, Good
    <3>1. QED
      BY <2>5, <2>6
<1>3. P = Nat
  <2> HIDE DEF P
  <2>1. P \in SUBSET Nat
    BY DEF P
  <2>2. QED
    BY <1>1, <1>2, <2>1, NatSetInduction
<1>4. QED
  BY <1>3 DEF IsIteration

(* ... and there is only one, for as many steps as two have in common. *)
LEMMA IteratesAgree ==
  ASSUME NEW n \in Nat, NEW f, NEW g, f[0] = g[0],
         \A i \in 1..n : f[i - 1] = g[i - 1] => f[i] = g[i]
  PROVE  f[n] = g[n]
<1> DEFINE P == {m \in Nat : m <= n => f[m] = g[m]}
<1>1. 0 \in P
  OBVIOUS
<1>2. ASSUME NEW m \in P PROVE m + 1 \in P
  <2>1. m + 1 <= n => m + 1 \in 1..n /\ f[m] = g[m]
    OBVIOUS
  <2>2. QED
    BY <2>1
<1>3. P = Nat
  <2> HIDE DEF P
  <2>1. P \in SUBSET Nat
    BY DEF P
  <2>2. QED
    BY <1>1, <1>2, <2>1, NatSetInduction
<1>4. QED
  BY <1>3

LEMMA FunctionIsSeq ==
  ASSUME NEW S, NEW n \in Nat, NEW f \in [1..n -> S]
  PROVE  f \in Seq(S) /\ Len(f) = n
  OBVIOUS

-----------------------------------------------------------------------------
(* Concatenations.                                                         *)

(* f[i] is the concatenation of the first i parts *)
Flattening(f, ss, C) ==
  /\ f \in [0..Len(ss) -> Seq(C)] /\ f[0] = <<>>
  /\ \A i \in 1..Len(ss) : f[i] = f[i - 1] \o ss[i]

LEMMA FlattenSeqIs ==
  ASSUME NEW C, NEW ss \in Seq(Seq(C))
  PROVE  \E f : Flattening(f, ss, C) /\ FlattenSeq(ss) = f[Len(ss)]
<1> DEFINE n == Len(ss)
           S == Seq(C)
           base == <<>>
           step == [i \in 1..n |-> [v \in S |-> v \o ss[i]]]
<1>1. n \in Nat /\ \A i \in 1..n : ss[i] \in S
  BY LenProperties
<1>2. step \in [1..n -> [S -> S]]
  <2>1. ASSUME NEW i \in 1..n PROVE [v \in S |-> v \o ss[i]] \in [S -> S]
    BY <1>1, ConcatProperties
  <2>2. QED
    BY <2>1
<1>3. PICK f : IsIteration(f, n, S, base, step)
  <2>1. base \in S
    OBVIOUS
  <2>2. n \in Nat
    BY <1>1
  <2> HIDE DEF step, S, n, base
  <2>3. QED
    BY <1>2, <2>1, <2>2, Iterates
<1>4. ASSUME NEW i \in 1..n PROVE f[i] = f[i - 1] \o ss[i]
  <2>1. i - 1 \in 0..n
    BY <1>1
  <2>2. f[i - 1] \in S
    BY <1>3, <2>1 DEF IsIteration
  <2>3. QED
    BY <1>3, <2>2 DEF IsIteration
<1>5. Flattening(f, ss, C)
  BY <1>3, <1>4 DEF Flattening, IsIteration
<1>6. CASE n = 0
  <2>1. ss = <<>>
    BY <1>6
  <2>2. QED
    BY <1>5, <1>6, <2>1 DEF FlattenSeq, Flattening
<1>7. CASE n # 0
  <2> DEFINE G(g) == g = [i \in 1..n |-> IF i = 1 THEN ss[i] ELSE g[i - 1] \o ss[i]]
             h == [i \in 1..n |-> f[i]]
  <2>1. G(h)
    <3>1. ASSUME NEW i \in 1..n
          PROVE  h[i] = IF i = 1 THEN ss[i] ELSE h[i - 1] \o ss[i]
      <4>1. CASE i = 1
        <5>1. f[i] = <<>> \o ss[i]
          <6>1. i - 1 = 0
            BY <4>1
          <6>2. QED
            BY <1>4, <1>5, <6>1 DEF Flattening
        <5>2. <<>> \o ss[i] = ss[i]
          BY <1>1, <4>1, ConcatEmptySeq
        <5>3. QED
          BY <4>1, <5>1, <5>2
      <4>2. CASE i # 1
        <5>1. i - 1 \in 1..n
          BY <1>1, <4>2
        <5>2. QED
          BY <1>4, <4>2, <5>1
      <4>3. QED
        BY <4>1, <4>2
    <3>2. QED
      BY <3>1
  <2>2. G(CHOOSE g : G(g))
    <3> HIDE DEF G
    <3>1. QED
      BY <2>1
  <2>3. \E g : G(g) /\ FlattenSeq(ss) = g[n]
    BY <1>7, <2>2 DEF FlattenSeq
  <2>4. PICK g : G(g) /\ FlattenSeq(ss) = g[n]
    BY <2>3
  <2> DEFINE k == [i \in 0..n |-> IF i = 0 THEN <<>> ELSE g[i]]
  <2>5. ASSUME NEW i \in 1..n, k[i - 1] = f[i - 1] PROVE k[i] = f[i]
    <3>1. CASE i = 1
      <4>1. k[i] = ss[i]
        BY <2>4, <3>1
      <4>2. f[i] = <<>> \o ss[i]
        <5>1. i - 1 = 0
          BY <3>1
        <5>2. QED
          BY <1>4, <1>5, <5>1 DEF Flattening
      <4>3. <<>> \o ss[i] = ss[i]
        BY <1>1, <3>1, ConcatEmptySeq
      <4>4. QED
        BY <3>1, <4>1, <4>2, <4>3
    <3>2. CASE i # 1
      <4>1. i - 1 \in 1..n /\ k[i] = g[i] /\ k[i - 1] = g[i - 1]
        BY <1>1, <3>2
      <4>2. g[i] = g[i - 1] \o ss[i]
        BY <2>4, <3>2
      <4>3. QED
        BY <1>4, <2>5, <4>1, <4>2
    <3>3. QED
      BY <3>1, <3>2
  <2>6. k[0] = f[0] /\ k[n] = g[n]
    BY <1>1, <1>5, <1>7 DEF Flattening
  <2>7. f[n] = k[n]
    <3> HIDE DEF k, n
    <3>1. QED
      BY <1>1, <2>5, <2>6, IteratesAgree
  <2>8. QED
    BY <1>5, <2>4, <2>6, <2>7
<1>8. QED
  BY <1>6, <1>7

LEMMA FlattenSeqType ==
  ASSUME NEW C, NEW ss \in Seq(Seq(C))
  PROVE  FlattenSeq(ss) \in Seq(C)
<1>1. PICK f : Flattening(f, ss, C) /\ FlattenSeq(ss) = f[Len(ss)]
  BY FlattenSeqIs
<1>2. Len(ss) \in 0..Len(ss)
  BY LenProperties
<1>3. QED
  BY <1>1, <1>2 DEF Flattening

LEMMA FlattenSeqAppend ==
  ASSUME NEW C, NEW ss \in Seq(Seq(C)), NEW s \in Seq(C)
  PROVE  FlattenSeq(Append(ss, s)) = FlattenSeq(ss) \o s
<1> DEFINE n == Len(ss)
           tt == Append(ss, s)
<1>1. /\ n \in Nat /\ tt \in Seq(Seq(C)) /\ Len(tt) = n + 1 /\ tt[n + 1] = s
      /\ \A i \in 1..n : tt[i] = ss[i]
  OBVIOUS
<1>2. PICK f : Flattening(f, ss, C) /\ FlattenSeq(ss) = f[Len(ss)]
  BY FlattenSeqIs
<1> HIDE DEF tt
<1>3. PICK g : Flattening(g, tt, C) /\ FlattenSeq(tt) = g[Len(tt)]
  BY <1>1, FlattenSeqIs
<1> HIDE DEF n
<1>4. f[0] = g[0]
  BY <1>2, <1>3 DEF Flattening
<1>5. ASSUME NEW i \in 1..n + 1 PROVE g[i] = g[i - 1] \o tt[i]
  <2>1. i \in 1..Len(tt)
    BY <1>1
  <2>2. QED
    BY <1>3, <2>1 DEF Flattening
<1>6. ASSUME NEW i \in 1..n, f[i - 1] = g[i - 1] PROVE f[i] = g[i]
  <2>1. f[i] = f[i - 1] \o ss[i]
    BY <1>2 DEF Flattening, n
  <2>2. i \in 1..n + 1
    BY <1>1
  <2>3. g[i] = g[i - 1] \o tt[i]
    BY <1>5, <2>2
  <2>4. QED
    BY <1>1, <1>6, <2>1, <2>3
<1>7. f[n] = g[n]
  BY <1>1, <1>4, <1>6, IteratesAgree
<1>8. g[n + 1] = g[n] \o tt[n + 1]
  <2>1. PICK i \in 1..n + 1 : i = n + 1 /\ i - 1 = n
    BY <1>1
  <2>2. g[i] = g[n] \o tt[i]
    BY <1>5, <2>1
  <2>3. QED
    BY <2>1, <2>2
<1>9. QED
  BY <1>1, <1>2, <1>3, <1>7, <1>8 DEF n, tt

(* the first parts, one by one *)
LEMMA FlattenSeqStep ==
  ASSUME NEW C, NEW ss \in Seq(Seq(C)), NEW k \in 1..Len(ss)
  PROVE  FlattenSeq(SubSeq(ss, 1, k)) = FlattenSeq(SubSeq(ss, 1, k - 1)) \o ss[k]
<1>1. SubSeq(ss, 1, k - 1) \in Seq(Seq(C)) /\ ss[k] \in Seq(C)
  OBVIOUS
<1>2. SubSeq(ss, 1, k) = Append(SubSeq(ss, 1, k - 1), ss[k])
  OBVIOUS
<1>3. QED
  BY <1>1, <1>2, FlattenSeqAppend

LEMMA AppendToConcat ==
  ASSUME NEW S, NEW s \in Seq(S), NEW t \in Seq(S), NEW x \in S
  PROVE  s \o Append(t, x) = Append(s \o t, x)
<1>1. /\ Append(t, x) \in Seq(S) /\ Len(Append(t, x)) = Len(t) + 1
      /\ \A i \in 1..Len(t) : Append(t, x)[i] = t[i]
      /\ Append(t, x)[Len(t) + 1] = x
  OBVIOUS
<1>2. s \o t \in Seq(S) /\ Len(s \o t) = Len(s) + Len(t)
  BY ConcatProperties
<1>3. /\ Append(s \o t, x) \in Seq(S)
      /\ Len(Append(s \o t, x)) = Len(s) + Len(t) + 1
      /\ \A i \in 1..Len(s) + Len(t) : Append(s \o t, x)[i] = (s \o t)[i]
      /\ Append(s \o t, x)[Len(s) + Len(t) + 1] = x
  BY <1>2
<1>4. /\ s \o Append(t, x) \in Seq(S)
      /\ Len(s \o Append(t, x)) = Len(s) + Len(t) + 1
  BY <1>1, ConcatProperties
<1>5. ASSUME NEW i \in 1..Len(s) + Len(t) + 1
      PROVE  (s \o Append(t, x))[i] = Append(s \o t, x)[i]
  <2>1. (s \o Append(t, x))[i]
          = IF i <= Len(s) THEN s[i] ELSE Append(t, x)[i - Len(s)]
    BY <1>1, ConcatProperties
  <2>2. i <= Len(s) + Len(t) =>
          (s \o t)[i] = IF i <= Len(s) THEN s[i] ELSE t[i - Len(s)]
    BY ConcatProperties
  <2>3. CASE i = Len(s) + Len(t) + 1
    BY <1>1, <1>3, <2>1, <2>3
  <2>4. CASE i # Len(s) + Len(t) + 1
    <3>1. i \in 1..Len(s) + Len(t)
      BY <2>4
    <3>2. i > Len(s) => i - Len(s) \in 1..Len(t)
      BY <3>1
    <3>3. QED
      BY <1>1, <1>3, <2>1, <2>2, <3>1, <3>2
  <2>5. QED
    BY <2>3, <2>4
<1>6. QED
  BY <1>3, <1>4, <1>5, SeqEqual

LEMMA FlattenSeqConcat ==
  ASSUME NEW C, NEW ss \in Seq(Seq(C)), NEW tt \in Seq(Seq(C))
  PROVE  FlattenSeq(ss \o tt) = FlattenSeq(ss) \o FlattenSeq(tt)
<1> DEFINE First(k) == SubSeq(tt, 1, k)
           P == {k \in Nat : k <= Len(tt) =>
                   FlattenSeq(ss \o First(k)) = FlattenSeq(ss) \o FlattenSeq(First(k))}
<1>1. 0 \in P
  <2>1. First(0) = <<>> /\ FlattenSeq(<<>>) = <<>>
    BY DEF FlattenSeq
  <2>2. FlattenSeq(ss) \in Seq(C)
    BY FlattenSeqType
  <2>3. FlattenSeq(ss) \o <<>> = FlattenSeq(ss) /\ ss \o <<>> = ss
    BY <2>2, ConcatEmptySeq
  <2>4. QED
    BY <2>1, <2>3
<1>2. ASSUME NEW k \in P PROVE k + 1 \in P
  <2> SUFFICES ASSUME k + 1 <= Len(tt)
               PROVE  FlattenSeq(ss \o First(k + 1))
                        = FlattenSeq(ss) \o FlattenSeq(First(k + 1))
    OBVIOUS
  <2> DEFINE x == tt[k + 1]
  <2>1. /\ First(k) \in Seq(Seq(C)) /\ x \in Seq(C)
        /\ First(k + 1) = Append(First(k), x)
    OBVIOUS
  <2>2. FlattenSeq(ss \o First(k)) = FlattenSeq(ss) \o FlattenSeq(First(k))
    OBVIOUS
  <2> HIDE DEF P, First, x
  <2>3. ss \o First(k + 1) = Append(ss \o First(k), x)
    <3>1. ss \o Append(First(k), x) = Append(ss \o First(k), x)
      BY <2>1, AppendToConcat
    <3>2. QED
      BY <2>1, <3>1
  <2>4. ss \o First(k) \in Seq(Seq(C))
    BY <2>1, ConcatProperties
  <2>5. FlattenSeq(ss \o First(k + 1)) = FlattenSeq(ss \o First(k)) \o x
    BY <2>1, <2>3, <2>4, FlattenSeqAppend
  <2>6. FlattenSeq(First(k + 1)) = FlattenSeq(First(k)) \o x
    BY <2>1, FlattenSeqAppend
  <2>7. FlattenSeq(ss) \in Seq(C) /\ FlattenSeq(First(k)) \in Seq(C)
    BY <2>1, FlattenSeqType
  <2>8. (FlattenSeq(ss) \o FlattenSeq(First(k))) \o x
          = FlattenSeq(ss) \o (FlattenSeq(First(k)) \o x)
    BY <2>1, <2>7, ConcatAssociative
  <2>9. QED
    BY <2>2, <2>5, <2>6, <2>8
<1>3. P = Nat
  <2> HIDE DEF P
  <2>1. P \in SUBSET Nat
    BY DEF P
  <2>2. QED
    BY <1>1, <1>2, <2>1, NatSetInduction
<1>4. Len(tt) \in P
  BY <1>3, LenProperties
<1>5. First(Len(tt)) = tt
  OBVIOUS
<1>6. Len(tt) <= Len(tt)
  OBVIOUS
<1>7. QED
  <2> HIDE DEF First
  <2>1. QED
    BY <1>4, <1>5, <1>6

(* where the parts end *)
EndOf(ss, m) == Len(FlattenSeq(SubSeq(ss, 1, m)))

LEMMA ConcatAt ==
  ASSUME NEW S, NEW s \in Seq(S), NEW t \in Seq(S)
  PROVE  /\ s \o t \in Seq(S) /\ Len(s) \in Nat /\ Len(t) \in Nat
         /\ Len(s \o t) = Len(s) + Len(t)
         /\ \A j \in 1..Len(s) : (s \o t)[j] = s[j]
         /\ \A j \in 1..Len(t) : (s \o t)[Len(s) + j] = t[j]
<1>1. /\ s \o t \in Seq(S) /\ Len(s \o t) = Len(s) + Len(t)
      /\ Len(s) \in Nat /\ Len(t) \in Nat
      /\ \A i \in 1..Len(s) + Len(t) :
           (s \o t)[i] = IF i <= Len(s) THEN s[i] ELSE t[i - Len(s)]
  BY ConcatProperties, LenProperties
<1>2. ASSUME NEW j \in 1..Len(t) PROVE (s \o t)[Len(s) + j] = t[j]
  <2>1. PICK i \in 1..Len(s) + Len(t) :
          i = Len(s) + j /\ ~ (i <= Len(s)) /\ i - Len(s) = j
    BY <1>1
  <2>2. QED
    BY <1>1, <2>1
<1>3. QED
  BY <1>1, <1>2

LEMMA ConcatThree ==
  ASSUME NEW S, NEW s \in Seq(S), NEW t \in Seq(S), NEW u \in Seq(S),
         NEW v, v = s \o t \o u
  PROVE  /\ v \in Seq(S)
         /\ Len(s) \in Nat /\ Len(t) \in Nat /\ Len(u) \in Nat
         /\ Len(v) = Len(s) + Len(t) + Len(u)
         /\ \A j \in 1..Len(s) : v[j] = s[j]
         /\ \A j \in 1..Len(t) : v[Len(s) + j] = t[j]
         /\ \A j \in 1..Len(u) : v[Len(s) + Len(t) + j] = u[j]
<1>1. PICK w : w = s \o t
  OBVIOUS
<1>2. /\ w \in Seq(S) /\ Len(w) = Len(s) + Len(t)
      /\ Len(s) \in Nat /\ Len(t) \in Nat
      /\ \A j \in 1..Len(s) : w[j] = s[j]
      /\ \A j \in 1..Len(t) : w[Len(s) + j] = t[j]
  BY <1>1, ConcatAt
<1>3. /\ v \in Seq(S) /\ Len(v) = Len(w) + Len(u) /\ Len(u) \in Nat
      /\ \A j \in 1..Len(w) : v[j] = w[j]
      /\ \A j \in 1..Len(u) : v[Len(w) + j] = u[j]
  BY <1>1, <1>2, ConcatAt
<1>4. ASSUME NEW j \in 1..Len(t) PROVE v[Len(s) + j] = t[j]
  <2>1. Len(s) + j \in 1..Len(w)
    BY <1>2
  <2>2. QED
    BY <1>2, <1>3, <2>1
<1>5. QED
  BY <1>2, <1>3, <1>4

LEMMA SeqSplit ==
  ASSUME NEW S, NEW s \in Seq(S), NEW m \in 0..Len(s)
  PROVE  /\ SubSeq(s, 1, m) \in Seq(S) /\ SubSeq(s, m + 1, Len(s)) \in Seq(S)
         /\ s = SubSeq(s, 1, m) \o SubSeq(s, m + 1, Len(s))
<1> DEFINE a == SubSeq(s, 1, m)
           b == SubSeq(s, m + 1, Len(s))
<1>1. /\ a \in Seq(S) /\ Len(a) = m /\ m \in Nat /\ Len(s) \in Nat
      /\ \A i \in 1..m : a[i] = s[i]
  OBVIOUS
<1>2. /\ b \in Seq(S) /\ Len(b) = Len(s) - m
      /\ \A i \in 1..Len(s) - m : b[i] = s[m + i]
  OBVIOUS
<1> HIDE DEF a, b
<1>3. /\ a \o b \in Seq(S) /\ Len(a \o b) = Len(s)
      /\ \A i \in 1..Len(s) : (a \o b)[i] = IF i <= m THEN a[i] ELSE b[i - m]
  BY <1>1, <1>2, ConcatProperties
<1>4. ASSUME NEW i \in 1..Len(s) PROVE s[i] = (a \o b)[i]
  <2>1. CASE i <= m
    BY <1>1, <1>3, <2>1
  <2>2. CASE ~ (i <= m)
    <3>1. i - m \in 1..Len(s) - m /\ m + (i - m) = i
      BY <1>1, <2>2
    <3>2. b[i - m] = s[i]
      BY <1>2, <3>1
    <3>3. QED
      BY <1>3, <2>2, <3>2
  <2>3. QED
    BY <2>1, <2>2
<1>5. s = a \o b
  BY <1>3, <1>4, SeqEqual
<1>6. QED
  BY <1>1, <1>2, <1>5 DEF a, b

LEMMA FlattenSeqSplit ==
  ASSUME NEW C, NEW ss \in Seq(Seq(C)), NEW m \in 0..Len(ss)
  PROVE  /\ FlattenSeq(SubSeq(ss, 1, m)) \in Seq(C)
         /\ FlattenSeq(SubSeq(ss, m + 1, Len(ss))) \in Seq(C)
         /\ FlattenSeq(ss) = FlattenSeq(SubSeq(ss, 1, m))
                               \o FlattenSeq(SubSeq(ss, m + 1, Len(ss)))
<1> DEFINE front == SubSeq(ss, 1, m)
           back == SubSeq(ss, m + 1, Len(ss))
<1>1. front \in Seq(Seq(C)) /\ back \in Seq(Seq(C)) /\ ss = front \o back
  BY SeqSplit
<1> HIDE DEF front, back
<1>2. FlattenSeq(front) \in Seq(C) /\ FlattenSeq(back) \in Seq(C)
  BY <1>1, FlattenSeqType
<1>3. FlattenSeq(front \o back) = FlattenSeq(front) \o FlattenSeq(back)
  BY <1>1, FlattenSeqConcat
<1>4. QED
  BY <1>1, <1>2, <1>3 DEF front, back

LEMMA EndOfIs ==
  ASSUME NEW C, NEW ss \in Seq(Seq(C)), NEW m \in 0..Len(ss)
  PROVE  /\ EndOf(ss, m) \in Nat /\ Len(FlattenSeq(ss)) \in Nat
         /\ Len(FlattenSeq(SubSeq(ss, m + 1, Len(ss))))
              = Len(FlattenSeq(ss)) - EndOf(ss, m)
         /\ EndOf(ss, m) <= Len(FlattenSeq(ss))
         /\ m = 0 => EndOf(ss, m) = 0
         /\ m = Len(ss) => EndOf(ss, m) = Len(FlattenSeq(ss))
<1> DEFINE a == FlattenSeq(SubSeq(ss, 1, m))
           b == FlattenSeq(SubSeq(ss, m + 1, Len(ss)))
<1>1. a \in Seq(C) /\ b \in Seq(C) /\ FlattenSeq(ss) = a \o b
  BY FlattenSeqSplit
<1>2. m = 0 => a = <<>>
  BY DEF FlattenSeq
<1>3. m = Len(ss) => a = FlattenSeq(ss)
  <2>1. SubSeq(ss, 1, Len(ss)) = ss
    OBVIOUS
  <2>2. QED
    BY <2>1
<1> HIDE DEF a, b
<1>4. Len(a \o b) = Len(a) + Len(b) /\ Len(a) \in Nat /\ Len(b) \in Nat
  BY <1>1, ConcatProperties, LenProperties
<1>5. QED
  BY <1>1, <1>2, <1>3, <1>4 DEF EndOf, a, b

LEMMA FlattenSeqAt ==
  ASSUME NEW C, NEW ss \in Seq(Seq(C)), NEW m \in 1..Len(ss)
  PROVE  /\ EndOf(ss, m - 1) \in Nat /\ Len(ss[m]) \in Nat
         /\ EndOf(ss, m) = EndOf(ss, m - 1) + Len(ss[m])
         /\ EndOf(ss, m) <= Len(FlattenSeq(ss))
         /\ \A j \in 1..Len(ss[m]) :
              FlattenSeq(ss)[EndOf(ss, m - 1) + j] = ss[m][j]
<1> DEFINE a == FlattenSeq(SubSeq(ss, 1, m - 1))
           s == ss[m]
           t == FlattenSeq(SubSeq(ss, m + 1, Len(ss)))
<1>1. m - 1 \in 0..Len(ss) /\ m \in 0..Len(ss) /\ s \in Seq(C)
  OBVIOUS
<1>2. a \in Seq(C) /\ t \in Seq(C)
  BY <1>1, FlattenSeqSplit
<1>3. FlattenSeq(SubSeq(ss, 1, m)) = a \o s
  BY FlattenSeqStep
<1>4. FlattenSeq(ss) = (a \o s) \o t
  BY <1>1, <1>3, FlattenSeqSplit
<1>5. EndOf(ss, m - 1) = Len(a) /\ EndOf(ss, m) = Len(a \o s)
  BY <1>3 DEF EndOf
<1> HIDE DEF a, s, t
<1>6. /\ a \o s \in Seq(C) /\ Len(a \o s) = Len(a) + Len(s)
      /\ Len(a) \in Nat /\ Len(s) \in Nat
      /\ \A j \in 1..Len(s) : (a \o s)[Len(a) + j] = s[j]
  BY <1>1, <1>2, ConcatAt
<1>7. /\ Len((a \o s) \o t) = Len(a \o s) + Len(t) /\ Len(t) \in Nat
      /\ \A j \in 1..Len(a \o s) : ((a \o s) \o t)[j] = (a \o s)[j]
  <2>1. PICK b : b = a \o s
    OBVIOUS
  <2>2. b \in Seq(C)
    BY <1>6, <2>1
  <2>3. /\ Len(b \o t) = Len(b) + Len(t) /\ Len(t) \in Nat
        /\ \A j \in 1..Len(b) : (b \o t)[j] = b[j]
    BY <1>2, <2>2, ConcatAt
  <2>4. QED
    BY <2>1, <2>3
<1>8. ASSUME NEW j \in 1..Len(s)
      PROVE  FlattenSeq(ss)[Len(a) + j] = s[j]
  <2>1. Len(a) + j \in 1..Len(a \o s)
    BY <1>6
  <2>2. QED
    BY <1>4, <1>6, <1>7, <2>1
<1>9. EndOf(ss, m) <= Len(FlattenSeq(ss))
  BY <1>4, <1>5, <1>6, <1>7
<1>10. QED
  BY <1>5, <1>6, <1>8, <1>9 DEF s

(* every position is in a part, and the ends ascend *)
LEMMA FlattenSeqWhere ==
  ASSUME NEW C, NEW ss \in Seq(Seq(C)), NEW p \in 1..Len(FlattenSeq(ss))
  PROVE  \E m \in 1..Len(ss) : EndOf(ss, m - 1) < p /\ p <= EndOf(ss, m)
<1> DEFINE P == {k \in Nat : k <= Len(ss) /\ p <= EndOf(ss, k) =>
                   \E m \in 1..Len(ss) : EndOf(ss, m - 1) < p /\ p <= EndOf(ss, m)}
<1>1. Len(ss) \in Nat /\ 0 \in 0..Len(ss)
  BY LenProperties
<1>2. 0 \in P
  BY <1>1, EndOfIs
<1>3. ASSUME NEW k \in P PROVE k + 1 \in P
  <2>1. SUFFICES ASSUME k + 1 <= Len(ss), p <= EndOf(ss, k + 1), EndOf(ss, k) < p
                 PROVE  \E m \in 1..Len(ss) :
                          EndOf(ss, m - 1) < p /\ p <= EndOf(ss, m)
    <3>1. k \in 0..Len(ss) \/ ~ (k + 1 <= Len(ss))
      BY <1>1
    <3>2. k \in 0..Len(ss) => EndOf(ss, k) \in Nat
      BY EndOfIs
    <3>3. QED
      BY <3>1, <3>2
  <2>2. PICK m \in 1..Len(ss) : m = k + 1 /\ m - 1 = k
    BY <2>1
  <2>3. QED
    BY <2>1, <2>2
<1>4. P = Nat
  <2> HIDE DEF P
  <2>1. P \in SUBSET Nat
    BY DEF P
  <2>2. QED
    BY <1>2, <1>3, <2>1, NatSetInduction
<1>5. p <= EndOf(ss, Len(ss)) /\ Len(ss) <= Len(ss)
  <2>1. Len(ss) \in 0..Len(ss)
    BY <1>1
  <2>2. EndOf(ss, Len(ss)) = Len(FlattenSeq(ss))
    BY <2>1, EndOfIs
  <2>3. QED
    BY <1>1, <2>2
<1>6. QED
  BY <1>1, <1>4, <1>5

LEMMA EndsAscend ==
  ASSUME NEW C, NEW ss \in Seq(Seq(C)), \A i \in 1..Len(ss) : Len(ss[i]) > 0,
         NEW m \in 0..Len(ss), NEW n \in 0..Len(ss), m < n
  PROVE  EndOf(ss, m) < EndOf(ss, n)
<1> DEFINE P == {k \in Nat : m + 1 + k <= Len(ss) => EndOf(ss, m) < EndOf(ss, m + 1 + k)}
<1>1. ASSUME NEW i \in 0..Len(ss), NEW j \in 1..Len(ss), i = j - 1
      PROVE  EndOf(ss, i) < EndOf(ss, j)
  <2>1. /\ EndOf(ss, j - 1) \in Nat /\ Len(ss[j]) \in Nat /\ Len(ss[j]) > 0
        /\ EndOf(ss, j) = EndOf(ss, j - 1) + Len(ss[j])
    BY FlattenSeqAt
  <2>2. QED
    BY <1>1, <2>1
<1>2. \A i \in 0..Len(ss) : EndOf(ss, i) \in Nat
  BY EndOfIs
<1>3. Len(ss) \in Nat
  BY LenProperties
<1>4. 0 \in P
  <2>1. PICK j : j = m + 1 + 0 /\ m = j - 1
    BY <1>3
  <2>2. j <= Len(ss) => j \in 1..Len(ss)
    BY <1>3, <2>1
  <2>3. j <= Len(ss) => EndOf(ss, m) < EndOf(ss, j)
    BY <1>1, <2>1, <2>2
  <2>4. QED
    BY <2>1, <2>3
<1>5. ASSUME NEW k \in P PROVE k + 1 \in P
  <2>1. PICK i, j : i = m + 1 + k /\ j = m + 1 + (k + 1) /\ i = j - 1
    BY <1>3
  <2>2. j <= Len(ss) => j \in 1..Len(ss) /\ i \in 0..Len(ss) /\ i <= Len(ss)
    BY <1>3, <2>1
  <2>3. i <= Len(ss) => EndOf(ss, m) < EndOf(ss, i)
    BY <2>1
  <2>4. j <= Len(ss) => EndOf(ss, m) < EndOf(ss, j)
    BY <1>1, <1>2, <2>1, <2>2, <2>3
  <2>5. QED
    BY <2>1, <2>4
<1>6. P = Nat
  <2> HIDE DEF P
  <2>1. P \in SUBSET Nat
    BY DEF P
  <2>2. QED
    BY <1>4, <1>5, <2>1, NatSetInduction
<1>7. PICK k \in P : n = m + 1 + k
  <2>1. n - m - 1 \in Nat /\ n = m + 1 + (n - m - 1)
    BY <1>3
  <2>2. QED
    BY <1>6, <2>1
<1>8. n <= Len(ss)
  BY <1>3
<1>9. QED
  BY <1>7, <1>8

-----------------------------------------------------------------------------
(* The lines of the host and where they end.                               *)

(* The provers do not know that these are strings. *)
Chars == STRING \cup {"0", "1", "2", "3", "4", "5", "6", "7", "8", "9"}
                \cup {Space, NewLine, ".", "M", "G", "X", "Y"}

Parts(l) == [i \in DOMAIN l.args |->
               <<Space>> \o l.args[i].letter \o l.args[i].number]
Rest(l) == FlattenSeq(Parts(l))
(* what vParserTask makes of a line: all of it but the newline *)
Body(l) == l.code \o Rest(l) \o <<Space>>
Inner == Chars \ {NewLine, "M", "G"}

LEMMA DigitIs ==
  ASSUME NEW c, Contains(Digits, c)
  PROVE  /\ c \in Chars /\ c \notin {Space, NewLine, "M", "G", "X", "Y", "."}
         /\ DigitOf(c) \in 0..9
<1> DEFINE D == {"0", "1", "2", "3", "4", "5", "6", "7", "8", "9"}
<1>1. Len(Digits) = 10 /\ \A i \in 1..10 : Digits[i] \in D
  BY DEF Digits
<1>2. \A d \in D :
        d \in Chars /\ d \notin {Space, NewLine, "M", "G", "X", "Y", "."}
  BY DEF Chars, Space, NewLine
<1> HIDE DEF D
<1> DEFINE I == {i \in 1..10 : Digits[i] = c}
<1>3. I # {} /\ I \in SUBSET Nat
  BY <1>1 DEF Contains
<1>4. Min(I) \in I
  <2> HIDE DEF I
  <2>1. QED
    BY <1>3, MinInSet
<1>5. DigitOf(c) = Min(I) - 1
  BY <1>1, <1>3 DEF DigitOf, SelectInSeq
<1>6. QED
  BY <1>1, <1>2, <1>4, <1>5

LEMMA SeqMonotone ==
  ASSUME NEW S, NEW T, S \subseteq T, NEW s \in Seq(S)
  PROVE  s \in Seq(T)
  OBVIOUS

LEMMA LineIs ==
  ASSUME NEW l \in Lines
  PROVE  /\ l.code \in Seq(Chars)
         /\ l.args \in Seq([letter : Seq(Chars), number : Seq(Chars)])
         /\ IsLine(l)
<1>1. STRING \subseteq Chars
  BY DEF Chars
<1>2. Seq(STRING) \subseteq Seq(Chars)
  BY <1>1, SeqMonotone
<1>3. l.code \in Seq(Chars)
  BY <1>2, GCodeAssumption
<1> DEFINE A == [letter : Seq(STRING), number : Seq(STRING)]
           B == [letter : Seq(Chars), number : Seq(Chars)]
<1>4. A \subseteq B
  BY <1>2
<1>5. l.args \in Seq(A)
  BY GCodeAssumption
<1>6. l.args \in Seq(B)
  <2> HIDE DEF A, B
  <2>1. QED
    BY <1>4, <1>5, SeqMonotone
<1>7. QED
  BY <1>3, <1>6, LinesAssumption

LEMMA ArgumentIs ==
  ASSUME NEW l \in Lines, NEW i \in 1..Len(l.args)
  PROVE  /\ l.args[i].letter \in Seq(Chars) /\ l.args[i].number \in Seq(Chars)
         /\ IsArgument(l.args[i]) /\ i \in DOMAIN l.args
<1> DEFINE B == [letter : Seq(Chars), number : Seq(Chars)]
<1>1. l.args \in Seq(B)
  BY LineIs
<1>2. i \in DOMAIN l.args /\ l.args[i] \in B
  <2> HIDE DEF B
  <2>1. QED
    BY <1>1
<1>3. IsArgument(l.args[i])
  BY <1>2, LineIs DEF IsLine
<1>4. QED
  BY <1>2, <1>3

LEMMA PartIs ==
  ASSUME NEW l \in Lines, NEW i \in 1..Len(l.args)
  PROVE  Parts(l)[i] \in Seq(Inner)
<1> DEFINE a == l.args[i]
<1>1. /\ a.letter \in Seq(Chars) /\ a.number \in Seq(Chars)
      /\ a.letter \in {<<>>, <<"X">>, <<"Y">>} /\ IsNumber(a.number)
  BY ArgumentIs DEF IsArgument
<1>2. Parts(l)[i] = <<Space>> \o a.letter \o a.number
  BY ArgumentIs DEF Parts
<1> HIDE DEF a
<1>3. <<Space>> \in Seq(Inner)
  BY DEF Inner, Chars, Space, NewLine
<1>4. a.letter \in Seq(Inner)
  <2>1. "X" \in Inner /\ "Y" \in Inner
    BY DEF Inner, Chars, NewLine
  <2>2. <<"X">> \in Seq(Inner) /\ <<"Y">> \in Seq(Inner) /\ <<>> \in Seq(Inner)
    BY <2>1
  <2>3. QED
    BY <1>1, <2>2
<1>5. a.number \in Seq(Inner)
  <2>1. ASSUME NEW j \in 1..Len(a.number) PROVE a.number[j] \in Inner
    <3>1. Contains(Digits, a.number[j]) \/ a.number[j] = "."
      BY <1>1 DEF IsNumber
    <3>2. "." \in Inner
      BY DEF Inner, Chars, NewLine
    <3>3. QED
      BY <3>1, <3>2, DigitIs DEF Inner
  <2>2. a.number \in [1..Len(a.number) -> Chars] /\ Len(a.number) \in Nat
    BY <1>1, LenProperties
  <2>3. a.number \in [1..Len(a.number) -> Inner]
    BY <2>1, <2>2
  <2>4. QED
    BY <2>2, <2>3, FunctionIsSeq
<1>6. QED
  BY <1>2, <1>3, <1>4, <1>5, ConcatProperties

LEMMA RestIs ==
  ASSUME NEW l \in Lines
  PROVE  /\ Parts(l) \in Seq(Seq(Inner)) /\ Len(Parts(l)) = Len(l.args)
         /\ Rest(l) \in Seq(Inner)
<1>1. Len(l.args) \in Nat /\ DOMAIN l.args = 1..Len(l.args)
  BY LineIs, LenProperties
<1>2. Parts(l) \in [1..Len(l.args) -> Seq(Inner)]
  <2>1. \A i \in 1..Len(l.args) : Parts(l)[i] \in Seq(Inner)
    BY PartIs
  <2>2. Parts(l) = [i \in 1..Len(l.args) |-> Parts(l)[i]]
    BY <1>1 DEF Parts
  <2>3. QED
    BY <2>1, <2>2
<1>3. Parts(l) \in Seq(Seq(Inner)) /\ Len(Parts(l)) = Len(l.args)
  BY <1>1, <1>2, FunctionIsSeq
<1>4. QED
  BY <1>3, FlattenSeqType DEF Rest

LEMMA BodyIs ==
  ASSUME NEW l \in Lines
  PROVE  /\ Body(l) \in Seq(Chars) /\ Len(l.code) \in Nat /\ Len(Rest(l)) \in Nat
         /\ Len(Body(l)) = Len(l.code) + Len(Rest(l)) + 1
         /\ \A j \in 1..Len(l.code) : Body(l)[j] = l.code[j]
         /\ \A j \in 1..Len(Rest(l)) : Body(l)[Len(l.code) + j] = Rest(l)[j]
         /\ Body(l)[Len(l.code) + Len(Rest(l)) + 1] = Space
<1> DEFINE a == l.code
           b == Rest(l)
           c == <<Space>>
<1>1. a \in Seq(Chars) /\ b \in Seq(Chars) /\ c \in Seq(Chars)
  <2>1. Rest(l) \in Seq(Inner) /\ Inner \subseteq Chars
    BY RestIs DEF Inner
  <2>2. Rest(l) \in Seq(Chars)
    BY <2>1, SeqMonotone
  <2>3. Space \in Chars
    BY DEF Chars
  <2>4. QED
    BY <2>2, <2>3, LineIs
<1>2. Len(c) = 1 /\ c[1] = Space
  OBVIOUS
<1>3. Body(l) = a \o b \o c
  BY DEF Body
<1> HIDE DEF a, b, c
<1>4. /\ Body(l) \in Seq(Chars) /\ Len(a) \in Nat /\ Len(b) \in Nat
      /\ Len(Body(l)) = Len(a) + Len(b) + Len(c)
      /\ \A j \in 1..Len(a) : Body(l)[j] = a[j]
      /\ \A j \in 1..Len(b) : Body(l)[Len(a) + j] = b[j]
      /\ \A j \in 1..Len(c) : Body(l)[Len(a) + Len(b) + j] = c[j]
  BY <1>1, <1>3, ConcatThree
<1>5. 1 \in 1..Len(c) /\ Len(c) = 1
  BY <1>2
<1>6. QED
  BY <1>2, <1>4, <1>5 DEF a, b

LEMMA TextIs ==
  ASSUME NEW l \in Lines
  PROVE  /\ Text(l) \in Seq(Chars) /\ Len(Text(l)) = Len(Body(l)) + 1
         /\ \A j \in 1..Len(Body(l)) : Text(l)[j] = Body(l)[j]
         /\ Text(l)[Len(Body(l)) + 1] = NewLine
<1> DEFINE ab == l.code \o Rest(l)
           c == <<Space>>
           d == <<Space, NewLine>>
           n == <<NewLine>>
<1>1. c \in Seq(Chars) /\ n \in Seq(Chars)
  <2>1. Space \in Chars /\ NewLine \in Chars
    BY DEF Chars
  <2>2. QED
    BY <2>1
<1>2. c \o n = d
  <2>1. /\ d \in Seq(Chars) /\ Len(d) = 2 /\ d[1] = Space /\ d[2] = NewLine
        /\ Len(c) = 1 /\ c[1] = Space /\ Len(n) = 1 /\ n[1] = NewLine
    BY DEF Chars
  <2> HIDE DEF c, d, n
  <2>2. /\ c \o n \in Seq(Chars) /\ Len(c \o n) = 1 + 1
        /\ \A j \in 1..1 : (c \o n)[j] = c[j]
        /\ \A j \in 1..1 : (c \o n)[1 + j] = n[j]
    <3>1. /\ c \o n \in Seq(Chars) /\ Len(c \o n) = Len(c) + Len(n)
          /\ \A j \in 1..Len(c) : (c \o n)[j] = c[j]
          /\ \A j \in 1..Len(n) : (c \o n)[Len(c) + j] = n[j]
      BY ONLY <1>1, ConcatAt
    <3>2. QED
      BY <2>1, <3>1
  <2>3. (c \o n)[1] = Space /\ (c \o n)[2] = NewLine
    BY <2>1, <2>2
  <2>4. ASSUME NEW j \in 1..Len(d) PROVE (c \o n)[j] = d[j]
    <3>1. j = 1 \/ j = 2
      BY <2>1
    <3>2. QED
      BY <2>1, <2>3, <3>1
  <2>5. QED
    BY <2>1, <2>2, <2>4, SeqEqual
<1>3. ab \in Seq(Chars)
  <2>1. Rest(l) \in Seq(Inner) /\ Inner \subseteq Chars
    BY RestIs DEF Inner
  <2>2. Rest(l) \in Seq(Chars)
    BY <2>1, SeqMonotone
  <2>3. QED
    BY <2>2, LineIs, ConcatProperties
<1>4. Len(n) = 1 /\ n[1] = NewLine
  OBVIOUS
<1>5. Text(l) = ab \o d
  BY DEF Text, Rest, Parts
<1>6. Body(l) = ab \o c
  BY DEF Body
<1> HIDE DEF ab, c, d, n
<1>7. Text(l) = Body(l) \o n
  <2>1. (ab \o c) \o n = ab \o (c \o n)
    BY <1>1, <1>3, ConcatAssociative
  <2>2. QED
    BY <1>2, <1>5, <1>6, <2>1
<1>8. Body(l) \in Seq(Chars)
  BY BodyIs
<1>9. /\ Text(l) \in Seq(Chars) /\ Len(Text(l)) = Len(Body(l)) + Len(n)
      /\ \A i \in 1..Len(Body(l)) : Text(l)[i] = Body(l)[i]
      /\ \A i \in 1..Len(n) : Text(l)[Len(Body(l)) + i] = n[i]
  BY <1>1, <1>7, <1>8, ConcatAt
<1>10. 1 \in 1..Len(n)
  BY <1>4
<1>11. QED
  BY <1>4, <1>9, <1>10

(* A line has no newline in it, and M and G at most at its start. *)
LEMMA BodyChars ==
  ASSUME NEW l \in Lines, NEW j \in 1..Len(Body(l))
  PROVE  /\ Body(l)[j] # NewLine
         /\ Body(l)[j] \in {"M", "G"} => j = 1 /\ Len(l.code) > 0
<1>1. CASE j \in 1..Len(l.code)
  <2>1. j \in DOMAIN l.code
    BY <1>1, LineIs
  <2>2. QED
    BY <1>1, <2>1, LineIs, BodyIs DEF IsLine
<1>2. CASE j \in Len(l.code) + 1..Len(l.code) + Len(Rest(l))
  <2>1. PICK k \in 1..Len(Rest(l)) : j = Len(l.code) + k
    <3>1. j - Len(l.code) \in 1..Len(Rest(l)) /\ j = Len(l.code) + (j - Len(l.code))
      BY <1>2, BodyIs
    <3>2. QED
      BY <3>1
  <2>2. Body(l)[j] = Rest(l)[k]
    BY <2>1, BodyIs
  <2>3. Rest(l)[k] \in Inner
    BY RestIs, <2>1
  <2>4. QED
    BY <2>2, <2>3 DEF Inner
<1>3. CASE j = Len(l.code) + Len(Rest(l)) + 1
  BY <1>3, BodyIs DEF Space, NewLine
<1>4. QED
  BY <1>1, <1>2, <1>3, BodyIs

LEMMA PartText ==
  ASSUME NEW l \in Lines, NEW i \in 1..Len(l.args)
  PROVE  /\ Len(l.args[i].letter) \in Nat /\ Len(l.args[i].number) \in Nat
         /\ Len(Parts(l)[i]) = 1 + Len(l.args[i].letter) + Len(l.args[i].number)
         /\ Parts(l)[i][1] = Space
         /\ \A j \in 1..Len(l.args[i].letter) :
              Parts(l)[i][1 + j] = l.args[i].letter[j]
         /\ \A j \in 1..Len(l.args[i].number) :
              Parts(l)[i][1 + Len(l.args[i].letter) + j] = l.args[i].number[j]
<1>1. PICK s, t, u : s = <<Space>> /\ t = l.args[i].letter /\ u = l.args[i].number
  OBVIOUS
<1>2. t \in Seq(Chars) /\ u \in Seq(Chars)
  BY <1>1, ArgumentIs
<1>3. s \in Seq(Chars) /\ Len(s) = 1 /\ s[1] = Space
  <2>1. Space \in Chars
    BY DEF Chars
  <2>2. QED
    BY <1>1, <2>1
<1>4. Parts(l)[i] = s \o t \o u
  BY <1>1, ArgumentIs DEF Parts
<1>5. PICK v : v = Parts(l)[i]
  OBVIOUS
<1>6. v = s \o t \o u
  BY <1>4, <1>5
<1>7. /\ Len(t) \in Nat /\ Len(u) \in Nat
      /\ Len(v) = Len(s) + Len(t) + Len(u)
      /\ \A j \in 1..Len(s) : v[j] = s[j]
      /\ \A j \in 1..Len(t) : v[Len(s) + j] = t[j]
      /\ \A j \in 1..Len(u) : v[Len(s) + Len(t) + j] = u[j]
  <2>1. s \in Seq(Chars) /\ t \in Seq(Chars) /\ u \in Seq(Chars)
    BY <1>2, <1>3
  <2>2. QED
    BY ONLY <1>6, <2>1, ConcatThree
<1>8. /\ Len(v) = 1 + Len(t) + Len(u) /\ v[1] = Space
      /\ \A j \in 1..Len(t) : v[1 + j] = t[j]
      /\ \A j \in 1..Len(u) : v[1 + Len(t) + j] = u[j]
  BY <1>3, <1>7
<1>9. QED
  BY <1>1, <1>5, <1>7, <1>8

(* After the code comes a space. *)
LEMMA AfterCode ==
  ASSUME NEW l \in Lines
  PROVE  /\ Len(l.code) + 1 \in 1..Len(Body(l))
         /\ Body(l)[Len(l.code) + 1] = Space
<1>1. CASE Len(Rest(l)) = 0
  BY <1>1, BodyIs
<1>2. CASE Len(Rest(l)) # 0
  <2>1. Len(Parts(l)) # 0
    <3>1. Len(Parts(l)) = 0 => Parts(l) = <<>>
      BY RestIs
    <3>2. Len(Parts(l)) = 0 => Rest(l) = <<>>
      BY <3>1 DEF Rest, FlattenSeq
    <3>3. QED
      BY <1>2, <3>2
  <2>2. 1 \in 1..Len(Parts(l)) /\ 0 \in 0..Len(Parts(l))
    BY <2>1, RestIs, LenProperties
  <2>3. /\ EndOf(Parts(l), 0) = 0
        /\ \A j \in 1..Len(Parts(l)[1]) :
             Rest(l)[EndOf(Parts(l), 1 - 1) + j] = Parts(l)[1][j]
    BY <2>2, RestIs, EndOfIs, FlattenSeqAt DEF Rest
  <2>4. Len(Parts(l)[1]) >= 1 /\ Parts(l)[1][1] = Space /\ Len(Parts(l)[1]) \in Nat
    <3>1. 1 \in 1..Len(l.args)
      BY <2>2, RestIs
    <3>2. \E x, y \in Nat : Len(Parts(l)[1]) = 1 + x + y
      BY <3>1, PartText
    <3>3. Parts(l)[1][1] = Space
      BY <3>1, PartText
    <3>4. Len(Parts(l)[1]) >= 1 /\ Len(Parts(l)[1]) \in Nat
      BY <3>2
    <3>5. QED
      BY <3>3, <3>4
  <2>5. 1 - 1 = 0 /\ 0 + 1 = 1
    OBVIOUS
  <2>6. Rest(l)[1] = Space
    BY <2>3, <2>4, <2>5
  <2>7. QED
    BY <1>2, <2>6, BodyIs
<1>3. QED
  BY <1>1, <1>2

(* The texts of some lines, one by one. *)
Texts(ls) == [i \in DOMAIN ls |-> Text(ls[i])]

LEMMA TextsAre ==
  ASSUME NEW ls \in Seq(Lines)
  PROVE  /\ Texts(ls) \in Seq(Seq(Chars)) /\ Len(Texts(ls)) = Len(ls)
         /\ \A i \in 1..Len(ls) : Texts(ls)[i] = Text(ls[i]) /\ Len(Texts(ls)[i]) > 0
         /\ TextOf(ls) = FlattenSeq(Texts(ls))
<1>1. Len(ls) \in Nat /\ DOMAIN ls = 1..Len(ls)
  BY LenProperties
<1>2. Texts(ls) = [i \in 1..Len(ls) |-> Text(ls[i])]
  BY <1>1 DEF Texts
<1>3. \A i \in 1..Len(ls) : Text(ls[i]) \in Seq(Chars) /\ Len(Text(ls[i])) > 0
  <2> SUFFICES ASSUME NEW i \in 1..Len(ls)
               PROVE  Text(ls[i]) \in Seq(Chars) /\ Len(Text(ls[i])) > 0
    OBVIOUS
  <2>1. ls[i] \in Lines
    OBVIOUS
  <2>2. QED
    BY <2>1, TextIs, BodyIs
<1>4. Texts(ls) \in [1..Len(ls) -> Seq(Chars)]
  BY <1>2, <1>3
<1>5. Texts(ls) \in Seq(Seq(Chars)) /\ Len(Texts(ls)) = Len(ls)
  BY <1>1, <1>4, FunctionIsSeq
<1>6. QED
  BY <1>2, <1>3, <1>5 DEF TextOf, Texts

LEMMA TextsFrom ==
  ASSUME NEW ls \in Seq(Lines), NEW m \in 0..Len(ls)
  PROVE  Len(TextOf(SubSeq(ls, m + 1, Len(ls))))
           = Len(TextOf(ls)) - EndOf(Texts(ls), m)
<1> DEFINE back == SubSeq(ls, m + 1, Len(ls))
           b == SubSeq(Texts(ls), m + 1, Len(ls))
<1>1. /\ back \in Seq(Lines) /\ Len(back) = Len(ls) - m /\ Len(ls) \in Nat
      /\ \A i \in 1..Len(ls) - m : back[i] = ls[m + i]
  OBVIOUS
<1>2. /\ b \in Seq(Seq(Chars)) /\ Len(b) = Len(ls) - m
      /\ \A i \in 1..Len(ls) - m : b[i] = Texts(ls)[m + i]
  <2>1. PICK tt : tt = Texts(ls)
    OBVIOUS
  <2>2. PICK S : S = Seq(Chars)
    OBVIOUS
  <2>3. tt \in Seq(S) /\ Len(tt) = Len(ls)
    BY <2>1, <2>2, TextsAre
  <2>4. /\ SubSeq(tt, m + 1, Len(ls)) \in Seq(S)
        /\ Len(SubSeq(tt, m + 1, Len(ls))) = Len(ls) - m
        /\ \A i \in 1..Len(ls) - m : SubSeq(tt, m + 1, Len(ls))[i] = tt[m + i]
    BY <2>3
  <2>5. QED
    BY <2>1, <2>2, <2>4
<1> HIDE DEF back, b
<1>3. /\ Texts(back) \in Seq(Seq(Chars)) /\ Len(Texts(back)) = Len(back)
      /\ \A i \in 1..Len(back) : Texts(back)[i] = Text(back[i])
      /\ TextOf(back) = FlattenSeq(Texts(back))
  BY <1>1, TextsAre
<1>4. ASSUME NEW i \in 1..Len(b) PROVE b[i] = Texts(back)[i]
  <2>1. m + i \in 1..Len(ls) /\ i \in 1..Len(ls) - m
    BY <1>1, <1>2
  <2>2. QED
    BY <1>1, <1>2, <1>3, <2>1, TextsAre
<1>5. b = Texts(back)
  BY <1>1, <1>2, <1>3, <1>4, SeqEqual
<1>6. Len(FlattenSeq(b)) = Len(FlattenSeq(Texts(ls))) - EndOf(Texts(ls), m)
  BY TextsAre, EndOfIs DEF b
<1>7. QED
  BY <1>3, <1>5, <1>6, TextsAre DEF back

(* Every character of the host is one of a line. *)
LEMMA CharacterAt ==
  ASSUME NEW ls \in Seq(Lines), NEW p \in 1..Len(TextOf(ls))
  PROVE  \E m \in 1..Len(ls) : \E j \in 1..Len(Text(ls[m])) :
           /\ EndOf(Texts(ls), m - 1) \in Nat /\ Len(Text(ls[m])) \in Nat
           /\ p = EndOf(Texts(ls), m - 1) + j
           /\ EndOf(Texts(ls), m) = EndOf(Texts(ls), m - 1) + Len(Text(ls[m]))
           /\ TextOf(ls)[p] = Text(ls[m])[j]
<1>1. PICK tt : tt = Texts(ls)
  OBVIOUS
<1>2. /\ tt \in Seq(Seq(Chars)) /\ Len(tt) = Len(ls)
      /\ TextOf(ls) = FlattenSeq(tt)
      /\ \A i \in 1..Len(ls) : tt[i] = Text(ls[i])
  BY <1>1, TextsAre
<1>3. PICK m \in 1..Len(tt) : EndOf(tt, m - 1) < p /\ p <= EndOf(tt, m)
  <2>1. p \in 1..Len(FlattenSeq(tt))
    BY <1>2
  <2>2. QED
    BY <1>2, <2>1, FlattenSeqWhere
<1>4. /\ EndOf(tt, m - 1) \in Nat /\ Len(tt[m]) \in Nat
      /\ EndOf(tt, m) = EndOf(tt, m - 1) + Len(tt[m])
      /\ \A j \in 1..Len(tt[m]) : FlattenSeq(tt)[EndOf(tt, m - 1) + j] = tt[m][j]
  BY <1>2, FlattenSeqAt
<1>5. PICK j \in 1..Len(tt[m]) : p = EndOf(tt, m - 1) + j
  <2>1. PICK e \in Nat, f \in Nat : /\ e = EndOf(tt, m - 1) /\ f = EndOf(tt, m)
                            /\ f = e + Len(tt[m])
    BY <1>4
  <2>2. p \in Int
    OBVIOUS
  <2>3. p - e \in 1..Len(tt[m]) /\ p = e + (p - e)
    BY <1>3, <1>4, <2>1, <2>2
  <2>4. QED
    BY <2>1, <2>3
<1>6. tt[m] = Text(ls[m]) /\ m \in 1..Len(ls)
  BY <1>2
<1>7. QED
  BY <1>1, <1>2, <1>4, <1>5, <1>6

(* What is cut out of the characters up to a newline is the end of one line. *)
LEMMA CutLine ==
  ASSUME NEW ls \in Seq(Lines), NEW k \in Nat, NEW q \in 1..Len(TextOf(ls)), k < q,
         TextOf(ls)[q] = NewLine,
         \A p \in k + 1..q - 1 : TextOf(ls)[p] # NewLine
  PROVE  \E m \in 1..Len(ls) : \E d \in 0..Len(Body(ls[m])) :
           /\ EndOf(Texts(ls), m - 1) \in Nat /\ k = EndOf(Texts(ls), m - 1) + d
           /\ q = EndOf(Texts(ls), m) /\ q - k - 1 = Len(Body(ls[m])) - d
           /\ \A j \in 1..q - k - 1 : TextOf(ls)[k + j] = Body(ls[m])[d + j]
<1> DEFINE At(m, j) ==
      /\ EndOf(Texts(ls), m - 1) \in Nat /\ Len(Text(ls[m])) \in Nat
      /\ q = EndOf(Texts(ls), m - 1) + j
      /\ EndOf(Texts(ls), m) = EndOf(Texts(ls), m - 1) + Len(Text(ls[m]))
      /\ TextOf(ls)[q] = Text(ls[m])[j]
<1>0. PICK m \in 1..Len(ls) : \E j \in 1..Len(Text(ls[m])) : At(m, j)
  BY CharacterAt
<1>1. PICK j \in 1..Len(Text(ls[m])) : At(m, j)
  BY <1>0
<1>2. PICK tt : tt = Texts(ls)
  OBVIOUS
<1>3. PICK e : e = EndOf(tt, m - 1)
  OBVIOUS
<1>4. /\ tt \in Seq(Seq(Chars)) /\ Len(tt) = Len(ls)
      /\ TextOf(ls) = FlattenSeq(tt)
      /\ \A i \in 1..Len(ls) : tt[i] = Text(ls[i])
  BY <1>2, TextsAre
<1>5. ls[m] \in Lines
  OBVIOUS
<1>6. PICK b : b = Body(ls[m])
  OBVIOUS
<1>7. /\ Len(b) \in Nat /\ Len(Text(ls[m])) = Len(b) + 1
      /\ \A i \in 1..Len(b) : Text(ls[m])[i] = b[i] /\ b[i] # NewLine
      /\ Text(ls[m])[Len(b) + 1] = NewLine
  <2>1. b \in Seq(Chars) /\ \A i \in 1..Len(b) : b[i] # NewLine
    BY <1>5, <1>6, BodyIs, BodyChars
  <2>2. QED
    BY <1>5, <1>6, <2>1, TextIs, LenProperties
<1>8. j = Len(b) + 1 /\ q = EndOf(tt, m)
  <2>1. Text(ls[m])[j] = NewLine
    BY <1>1
  <2>2. j \in 1..Len(b) + 1
    BY <1>7
  <2>3. j = Len(b) + 1
    BY <1>7, <2>1, <2>2
  <2>4. q = EndOf(Texts(ls), m - 1) + Len(Text(ls[m]))
    BY <1>1, <1>7, <2>3
  <2>5. QED
    BY <1>1, <1>2, <2>3, <2>4
<1>9. /\ e \in Nat /\ q = e + Len(b) + 1
      /\ \A i \in 1..Len(b) : TextOf(ls)[e + i] = b[i]
  <2>1. \A i \in 1..Len(tt[m]) : FlattenSeq(tt)[e + i] = tt[m][i]
    <3>1. m \in 1..Len(tt) /\ tt \in Seq(Seq(Chars))
      BY <1>4
    <3>2. \A i \in 1..Len(tt[m]) : FlattenSeq(tt)[EndOf(tt, m - 1) + i] = tt[m][i]
      BY ONLY <3>1, FlattenSeqAt
    <3>3. QED
      BY <1>3, <3>2
  <2>2. Len(tt[m]) = Len(b) + 1 /\ tt[m] = Text(ls[m])
    BY <1>4, <1>7
  <2>3. ASSUME NEW i \in 1..Len(b) PROVE TextOf(ls)[e + i] = b[i]
    <3>1. i \in 1..Len(tt[m])
      BY <1>7, <2>2
    <3>2. TextOf(ls)[e + i] = Text(ls[m])[i]
      BY <1>4, <2>1, <2>2, <3>1
    <3>3. QED
      BY <1>7, <3>2
  <2>4. e \in Nat
    BY <1>1, <1>2, <1>3
  <2>5. q = e + Len(b) + 1
    BY <1>1, <1>2, <1>3, <1>7, <1>8
  <2>6. QED
    BY <1>7, <2>3, <2>4, <2>5
<1>10. e <= k
  <2>1. CASE m = 1
    <3>1. 1 - 1 = 0 /\ 0 \in 0..Len(tt)
      BY <1>4, LenProperties
    <3>2. e = 0
      BY <1>3, <1>4, <2>1, <3>1, EndOfIs
    <3>3. QED
      BY <3>2
  <2>2. CASE m # 1
    <3>1. PICK n \in 1..Len(ls) : n = m - 1
      BY <2>2
    <3>2. PICK c : c = Body(ls[n])
      OBVIOUS
    <3>3. ls[n] \in Lines
      OBVIOUS
    <3>4. /\ Len(c) \in Nat /\ Len(Text(ls[n])) = Len(c) + 1
          /\ Text(ls[n])[Len(c) + 1] = NewLine
      BY <3>2, <3>3, BodyIs, TextIs, LenProperties
    <3>5. PICK f : f = EndOf(tt, n - 1)
      OBVIOUS
    <3>6. /\ f \in Nat /\ EndOf(tt, n) = f + Len(tt[n])
          /\ \A i \in 1..Len(tt[n]) : FlattenSeq(tt)[f + i] = tt[n][i]
      <4>1. n \in 1..Len(tt)
        BY <1>4
      <4>2. QED
        BY <1>4, <3>5, <4>1, FlattenSeqAt
    <3>7. e = f + (Len(c) + 1) /\ tt[n] = Text(ls[n])
      BY <1>3, <1>4, <3>1, <3>4, <3>6
    <3>8. Len(c) + 1 \in 1..Len(tt[n])
      BY <3>4, <3>7
    <3>9. TextOf(ls)[e] = NewLine
      BY <1>4, <3>4, <3>6, <3>7, <3>8
    <3>10. QED
      BY <1>7, <1>9, <3>9
  <2>3. QED
    BY <2>1, <2>2
<1>11. PICK d \in 0..Len(b) : k = e + d
  <2>1. k - e \in 0..Len(b) /\ k = e + (k - e)
    BY <1>7, <1>9, <1>10
  <2>2. QED
    BY <2>1
<1>12. q - k - 1 = Len(b) - d
  BY <1>7, <1>9, <1>11
<1>13. ASSUME NEW i \in 1..q - k - 1 PROVE TextOf(ls)[k + i] = b[d + i]
  <2>1. d + i \in 1..Len(b) /\ k + i = e + (d + i)
    BY <1>7, <1>9, <1>11, <1>12
  <2>2. QED
    BY <1>9, <2>1
<1> DEFINE Goal(n, c) ==
      /\ EndOf(Texts(ls), n - 1) \in Nat /\ k = EndOf(Texts(ls), n - 1) + c
      /\ q = EndOf(Texts(ls), n) /\ q - k - 1 = Len(Body(ls[n])) - c
      /\ \A i \in 1..q - k - 1 : TextOf(ls)[k + i] = Body(ls[n])[c + i]
<1>14. Goal(m, d)
  BY <1>2, <1>3, <1>6, <1>8, <1>9, <1>11, <1>12, <1>13
<1>15. d \in 0..Len(Body(ls[m]))
  BY <1>6
<1>16. \E n \in 1..Len(ls) : \E c \in 0..Len(Body(ls[n])) : Goal(n, c)
  <2> HIDE DEF Goal
  <2>1. QED
    BY <1>14, <1>15
<1>17. QED
  BY <1>16

-----------------------------------------------------------------------------
(* What read makes of a line and of the end of one.                        *)

LEMMA PrefixIs ==
  ASSUME NEW S, NEW s \in Seq(S), NEW t \in Seq(S)
  PROVE  IsPrefix(t, s) <=> Len(t) <= Len(s) /\ \A i \in 1..Len(t) : s[i] = t[i]
<1>1. Len(t) \in Nat /\ Len(s) \in Nat
  BY LenProperties
<1>2. /\ SubSeq(t, 1, Len(t)) \in Seq(S) /\ Len(SubSeq(t, 1, Len(t))) = Len(t)
      /\ \A i \in 1..Len(t) : SubSeq(t, 1, Len(t))[i] = t[i]
  OBVIOUS
<1>3. ASSUME Len(t) <= Len(s)
      PROVE  /\ SubSeq(s, 1, Len(t)) \in Seq(S) /\ Len(SubSeq(s, 1, Len(t))) = Len(t)
             /\ \A i \in 1..Len(t) : SubSeq(s, 1, Len(t))[i] = s[i]
  BY <1>3
<1>4. PICK a, b : a = SubSeq(t, 1, Len(t)) /\ b = SubSeq(s, 1, Len(t))
  OBVIOUS
<1>5. ASSUME IsPrefix(t, s)
      PROVE  Len(t) <= Len(s) /\ \A i \in 1..Len(t) : s[i] = t[i]
  <2>1. Len(t) <= Len(s) /\ a = b
    BY <1>4, <1>5 DEF IsPrefix
  <2>2. ASSUME NEW i \in 1..Len(t) PROVE s[i] = t[i]
    <3>1. a[i] = t[i] /\ b[i] = s[i]
      BY <1>2, <1>3, <1>4, <2>1
    <3>2. QED
      BY <2>1, <3>1
  <2>3. QED
    BY <2>1, <2>2
<1>6. ASSUME Len(t) <= Len(s), \A i \in 1..Len(t) : s[i] = t[i] PROVE IsPrefix(t, s)
  <2>1. a \in Seq(S) /\ b \in Seq(S) /\ Len(a) = Len(t) /\ Len(b) = Len(t)
    BY <1>2, <1>3, <1>4, <1>6
  <2>2. ASSUME NEW i \in 1..Len(a) PROVE a[i] = b[i]
    <3>1. i \in 1..Len(t)
      BY <2>1
    <3>2. a[i] = t[i] /\ b[i] = s[i]
      BY <1>2, <1>3, <1>4, <1>6, <3>1
    <3>3. QED
      BY <1>6, <3>1, <3>2
  <2>3. a = b
    BY <2>1, <2>2, SeqEqual
  <2>4. QED
    BY <1>4, <1>6, <2>3 DEF IsPrefix
<1>7. QED
  BY <1>5, <1>6

LEMMA CommandsAre ==
  /\ M10 \in Seq(Chars) /\ M1 \in Seq(Chars) /\ G1 \in Seq(Chars)
  /\ Len(M10) = 3 /\ M10[1] = "M" /\ M10[2] = "1" /\ M10[3] = "0"
  /\ Len(M1) = 2 /\ M1[1] = "M" /\ M1[2] = "1"
  /\ Len(G1) = 2 /\ G1[1] = "G" /\ G1[2] = "1"
<1>1. "M" \in Chars /\ "G" \in Chars /\ "1" \in Chars /\ "0" \in Chars
  BY DEF Chars
<1>2. QED
  BY <1>1 DEF M10, M1, G1

LEMMA CommandsDiffer ==
  M10 # M1 /\ M10 # G1 /\ M1 # G1 /\ M10 # None /\ M1 # None /\ G1 # None
<1>1. Len(None) = 0
  BY DEF None
<1>2. M10 # M1 /\ M10 # G1
  BY CommandsAre
<1>3. M1 # G1
  <2>1. M1[1] = "M" /\ G1[1] = "G"
    BY CommandsAre
  <2>2. QED
    BY <2>1
<1>4. M10 # None /\ M1 # None /\ G1 # None
  BY <1>1, CommandsAre
<1>5. QED
  BY <1>2, <1>3, <1>4

StartsWith(s, c) == Len(s) >= 2 /\ s[1] = c /\ s[2] = "1"

LEMMA ReadIs ==
  ASSUME NEW s \in Seq(Chars)
  PROVE  Read(s) = IF StartsWith(s, "M")
                     THEN IF Len(s) >= 3 /\ s[3] = "0" THEN M10 ELSE M1
                   ELSE IF StartsWith(s, "G") THEN G1 ELSE None
<1>1. Len(s) \in Nat
  BY LenProperties
<1>2. IsPrefix(M1, s) <=> StartsWith(s, "M")
  <2>1. IsPrefix(M1, s) <=> Len(M1) <= Len(s) /\ \A i \in 1..Len(M1) : s[i] = M1[i]
    <3>1. M1 \in Seq(Chars)
      BY CommandsAre
    <3>2. QED
      BY <3>1, PrefixIs
  <2>2. (\A i \in 1..2 : s[i] = M1[i]) <=> s[1] = M1[1] /\ s[2] = M1[2]
    OBVIOUS
  <2>3. QED
    BY <1>1, <2>1, <2>2, CommandsAre DEF StartsWith
<1>3. IsPrefix(G1, s) <=> StartsWith(s, "G")
  <2>1. IsPrefix(G1, s) <=> Len(G1) <= Len(s) /\ \A i \in 1..Len(G1) : s[i] = G1[i]
    <3>1. G1 \in Seq(Chars)
      BY CommandsAre
    <3>2. QED
      BY <3>1, PrefixIs
  <2>2. (\A i \in 1..2 : s[i] = G1[i]) <=> s[1] = G1[1] /\ s[2] = G1[2]
    OBVIOUS
  <2>3. QED
    BY <1>1, <2>1, <2>2, CommandsAre DEF StartsWith
<1>4. IsPrefix(M10, s) <=> StartsWith(s, "M") /\ Len(s) >= 3 /\ s[3] = "0"
  <2>1. IsPrefix(M10, s)
          <=> Len(M10) <= Len(s) /\ \A i \in 1..Len(M10) : s[i] = M10[i]
    <3>1. M10 \in Seq(Chars)
      BY CommandsAre
    <3>2. QED
      BY <3>1, PrefixIs
  <2>2. (\A i \in 1..3 : s[i] = M10[i])
          <=> s[1] = M10[1] /\ s[2] = M10[2] /\ s[3] = M10[3]
    OBVIOUS
  <2>3. QED
    BY <1>1, <2>1, <2>2, CommandsAre DEF StartsWith
<1>5. QED
  BY <1>2, <1>3, <1>4 DEF Read

(* A whole line is read as its code. *)
LEMMA ReadBody ==
  ASSUME NEW l \in Lines
  PROVE  /\ Read(Body(l)) = Read(l.code)
         /\ Read(l.code) # None <=> l.code \in {M10, M1, G1}
         /\ Read(l.code) # None => Read(l.code) = l.code
<1>1. PICK b, c : b = Body(l) /\ c = l.code
  OBVIOUS
<1>2. /\ b \in Seq(Chars) /\ c \in Seq(Chars) /\ Len(c) \in Nat /\ Len(b) \in Nat
      /\ \A i \in 1..Len(c) : b[i] = c[i]
      /\ Len(b) >= Len(c) + 1 /\ b[Len(c) + 1] = Space
  BY <1>1, LineIs, BodyIs, AfterCode
<1>3. c \in {M10, M1, G1} \/ Read(c) = None
  BY <1>1, LineIs DEF IsLine
<1>4. Space # "0" /\ Space # "1" /\ Space # "M" /\ Space # "G"
  BY DEF Space
<1>5. ASSUME NEW x \in {"M", "G"} PROVE StartsWith(b, x) <=> StartsWith(c, x)
  <2>1. CASE Len(c) >= 2
    <3>1. b[1] = c[1] /\ b[2] = c[2] /\ Len(b) >= 2
      BY <1>2, <2>1
    <3>2. QED
      BY <2>1, <3>1 DEF StartsWith
  <2>2. CASE Len(c) = 1
    <3>1. b[2] = Space /\ ~ (Len(c) >= 2)
      BY <1>2, <2>2
    <3>2. QED
      BY <1>4, <3>1 DEF StartsWith
  <2>3. CASE Len(c) = 0
    <3>1. b[1] = Space /\ ~ (Len(c) >= 2)
      BY <1>2, <2>3
    <3>2. QED
      BY <1>4, <3>1 DEF StartsWith
  <2>4. Len(c) \in Nat
    BY <1>2
  <2>5. Len(c) >= 2 \/ Len(c) = 1 \/ Len(c) = 0
    BY <2>4
  <2>6. QED
    BY <2>1, <2>2, <2>3, <2>5
<1>6. StartsWith(c, "M") => (Len(b) >= 3 /\ b[3] = "0" <=> Len(c) >= 3 /\ c[3] = "0")
  <2>1. CASE Len(c) >= 3
    <3>1. b[3] = c[3] /\ Len(b) >= 3
      BY <1>2, <2>1
    <3>2. QED
      BY <2>1, <3>1
  <2>2. CASE Len(c) = 2
    <3>1. b[3] = Space /\ ~ (Len(c) >= 3)
      BY <1>2, <2>2
    <3>2. QED
      BY <1>4, <3>1
  <2>3. Len(c) \in Nat
    BY <1>2
  <2>4. \A n \in Nat : n >= 3 \/ n = 2 \/ ~ (n >= 2)
    OBVIOUS
  <2>5. Len(c) >= 3 \/ Len(c) = 2 \/ ~ (Len(c) >= 2)
    BY <2>3, <2>4
  <2>6. QED
    BY <2>1, <2>2, <2>5 DEF StartsWith
<1>7. Read(b) = Read(c)
  BY <1>2, <1>5, <1>6, ReadIs
<1>8. c \in {M10, M1, G1} => Read(c) = c
  <2>1. c = M10 => Read(c) = M10
    BY <1>2, ReadIs, CommandsAre DEF StartsWith
  <2>2. ASSUME c = M1 PROVE Read(c) = M1
    <3>1. StartsWith(c, "M") /\ ~ (Len(c) >= 3)
      BY <2>2, CommandsAre DEF StartsWith
    <3>2. QED
      BY <1>2, <3>1, ReadIs
  <2>3. ASSUME c = G1 PROVE Read(c) = G1
    <3>1. StartsWith(c, "G") /\ ~ StartsWith(c, "M")
      <4>1. Len(c) >= 2 /\ c[1] = "G" /\ c[2] = "1"
        BY <2>3, CommandsAre
      <4>2. QED
        BY <4>1 DEF StartsWith
    <3>2. QED
      BY <1>2, <3>1, ReadIs
  <2>4. QED
    BY <2>1, <2>2, <2>3
<1>9. QED
  BY <1>1, <1>3, <1>7, <1>8, CommandsDiffer

(* The end of a line is not read, unless it is all of it. *)
LEMMA ReadTail ==
  ASSUME NEW l \in Lines, NEW d \in 0..Len(Body(l)), NEW s \in Seq(Chars),
         Len(s) = Len(Body(l)) - d,
         \A j \in 1..Len(s) : s[j] = Body(l)[d + j],
         Read(s) # None
  PROVE  d = 0 /\ s = Body(l) /\ Read(s) = l.code /\ l.code \in {M10, M1, G1}
<1>1. PICK b : b = Body(l)
  OBVIOUS
<1>2. b \in Seq(Chars) /\ Len(b) \in Nat /\ Len(s) \in Nat
  BY <1>1, BodyIs, LenProperties
<1>3. Len(s) >= 2 /\ s[1] \in {"M", "G"}
  BY ReadIs DEF StartsWith
<1>4. s[1] = b[d + 1] /\ d + 1 \in 1..Len(b)
  BY <1>1, <1>2, <1>3
<1>5. d = 0
  <2>1. b[d + 1] \in {"M", "G"} => d + 1 = 1
    BY <1>1, <1>4, BodyChars
  <2>2. QED
    BY <1>3, <1>4, <2>1
<1>6. s = b
  <2>1. Len(s) = Len(b)
    BY <1>1, <1>2, <1>5
  <2>2. ASSUME NEW j \in 1..Len(s) PROVE s[j] = b[j]
    <3>1. d + j = j
      BY <1>5
    <3>2. QED
      BY <1>1, <3>1
  <2>3. QED
    BY <1>2, <2>1, <2>2, SeqEqual
<1>7. QED
  BY <1>1, <1>5, <1>6, ReadBody

-----------------------------------------------------------------------------
(* Numbers.                                                                *)

First(s, c) == SelectInSeq(s, LAMBDA x : x = c)

LEMMA FirstIs ==
  ASSUME NEW s, Len(s) \in Nat, NEW c
  PROVE  \/ First(s, c) = 0 /\ \A i \in 1..Len(s) : s[i] # c
         \/ /\ First(s, c) \in 1..Len(s) /\ s[First(s, c)] = c
            /\ \A i \in 1..First(s, c) - 1 : s[i] # c
<1> DEFINE I == {i \in 1..Len(s) : s[i] = c}
<1>1. First(s, c) = IF I # {} THEN Min(I) ELSE 0
  BY DEF First, SelectInSeq
<1>2. ASSUME I # {} PROVE Min(I) \in I /\ \A i \in I : Min(I) <= i
  <2>1. I \in SUBSET Nat
    OBVIOUS
  <2> HIDE DEF I
  <2>2. QED
    BY <1>2, <2>1, MinInSet
<1>3. CASE I = {}
  BY <1>1, <1>3
<1>4. CASE I # {}
  <2>1. PICK q \in I : q = First(s, c) /\ \A i \in I : q <= i
    BY <1>1, <1>2, <1>4
  <2>2. ASSUME NEW i \in 1..q - 1 PROVE s[i] # c
    <3>1. i \in 1..Len(s) /\ ~ (q <= i)
      OBVIOUS
    <3>2. QED
      BY <2>1, <3>1
  <2>3. QED
    BY <2>1, <2>2
<1>5. QED
  BY <1>3, <1>4

LEMMA PowerSequence ==
  ASSUME NEW n \in Nat
  PROVE  \E f : /\ f \in [0..n -> Nat] /\ f[0] = 1 /\ Power(n) = f[n]
               /\ \A i \in 1..n : f[i] = 10 * f[i - 1]
<1> DEFINE step == [i \in 1..n |-> [v \in Nat |-> 10 * v]]
           G(g) == g = [i \in 0..n |-> IF i = 0 THEN 1 ELSE 10 * g[i - 1]]
<1>1. PICK f : IsIteration(f, n, Nat, 1, step)
  <2>1. step \in [1..n -> [Nat -> Nat]] /\ 1 \in Nat
    OBVIOUS
  <2> HIDE DEF step
  <2>2. QED
    BY <2>1, Iterates
<1>2. f \in [0..n -> Nat] /\ f[0] = 1
  BY <1>1 DEF IsIteration
<1>3. ASSUME NEW i \in 1..n PROVE f[i] = 10 * f[i - 1]
  <2>1. f[i] = step[i][f[i - 1]]
    BY <1>1 DEF IsIteration
  <2>2. f[i - 1] \in Nat
    BY <1>2
  <2>3. QED
    BY <2>1, <2>2
<1>4. G(f)
  <2>1. ASSUME NEW i \in 0..n PROVE f[i] = IF i = 0 THEN 1 ELSE 10 * f[i - 1]
    <3>1. i = 0 \/ i \in 1..n
      OBVIOUS
    <3>2. QED
      BY <1>2, <1>3, <3>1
  <2>2. QED
    BY <1>2, <2>1
<1>5. G(CHOOSE g : G(g))
  <2> HIDE DEF G
  <2>1. QED
    BY <1>4
<1>6. Power(n) = (CHOOSE g : G(g))[n]
  BY DEF Power
<1>7. PICK g : G(g) /\ Power(n) = g[n]
  BY <1>5, <1>6
<1>8. f[0] = g[0] /\ \A i \in 1..n : f[i - 1] = g[i - 1] => f[i] = g[i]
  <2>1. g[0] = 1
    BY <1>7
  <2>2. \A i \in 1..n : g[i] = 10 * g[i - 1]
    BY <1>7
  <2>3. QED
    BY <1>2, <1>3, <2>1, <2>2
<1>9. f[n] = g[n]
  BY <1>8, IteratesAgree
<1>10. QED
  BY <1>2, <1>3, <1>7, <1>9

LEMMA PowerIs ==
  /\ Power(0) = 1
  /\ \A n \in Nat : Power(n) \in Nat /\ Power(n) > 0 /\ Power(n + 1) = 10 * Power(n)
<1>1. Power(0) = 1
  <2>1. 0 \in Nat
    OBVIOUS
  <2>2. QED
    BY <2>1, PowerSequence
<1>2. ASSUME NEW n \in Nat PROVE Power(n) \in Nat /\ Power(n + 1) = 10 * Power(n)
  <2>1. PICK f : /\ f \in [0..n -> Nat] /\ f[0] = 1 /\ Power(n) = f[n]
                 /\ \A i \in 1..n : f[i] = 10 * f[i - 1]
    BY PowerSequence
  <2>2. PICK m \in Nat : m = n + 1
    OBVIOUS
  <2>3. PICK g : /\ g \in [0..m -> Nat] /\ g[0] = 1 /\ Power(m) = g[m]
                 /\ \A i \in 1..m : g[i] = 10 * g[i - 1]
    BY PowerSequence
  <2>4. \A i \in 1..n : f[i - 1] = g[i - 1] => f[i] = g[i]
    BY <2>1, <2>2, <2>3
  <2>5. f[n] = g[n]
    <3>1. f[0] = g[0]
      BY <2>1, <2>3
    <3>2. QED
      BY <2>4, <3>1, IteratesAgree
  <2>6. g[m] = 10 * g[n]
    <3>1. m \in 1..m /\ m - 1 = n
      BY <2>2
    <3>2. QED
      BY <2>3, <3>1
  <2>7. f[n] \in Nat
    BY <2>1
  <2>8. QED
    BY <2>1, <2>2, <2>3, <2>5, <2>6, <2>7
<1> DEFINE P == {n \in Nat : Power(n) > 0}
<1>3. P = Nat
  <2>1. 0 \in P
    BY <1>1
  <2>2. ASSUME NEW n \in P PROVE n + 1 \in P
    <3>1. Power(n) \in Nat /\ Power(n) > 0 /\ Power(n + 1) = 10 * Power(n)
      BY <1>2
    <3>2. QED
      BY <3>1
  <2>3. P \in SUBSET Nat
    OBVIOUS
  <2> HIDE DEF P
  <2>4. QED
    BY <2>1, <2>2, <2>3, NatSetInduction
<1>4. QED
  BY <1>1, <1>2, <1>3

LEMMA DigitOfType ==
  ASSUME NEW c
  PROVE  DigitOf(c) \in Int
<1> DEFINE I == {i \in 1..Len(Digits) : Digits[i] = c}
<1>1. Len(Digits) = 10
  BY DEF Digits
<1>2. DigitOf(c) = (IF I # {} THEN Min(I) ELSE 0) - 1
  BY DEF DigitOf, SelectInSeq
<1>3. I # {} => Min(I) \in I
  <2>1. I \in SUBSET Nat
    OBVIOUS
  <2> HIDE DEF I
  <2>2. QED
    BY <2>1, MinInSet
<1>4. I \subseteq Int
  OBVIOUS
<1>5. CASE I = {}
  BY <1>2, <1>5
<1>6. CASE I # {}
  BY <1>2, <1>3, <1>4, <1>6
<1>7. QED
  BY <1>5, <1>6

(* what a digit or a point makes of the number read so far *)
ReadOn(v, c) == IF c = "." THEN v ELSE 10 * v + DigitOf(c)

LEMMA ReadingSequence ==
  ASSUME NEW t, Len(t) \in Nat
  PROVE  \E f : /\ f \in [0..Len(t) -> Int] /\ f[0] = 0 /\ Reading(t) = f[Len(t)]
               /\ \A i \in 1..Len(t) : f[i] = ReadOn(f[i - 1], t[i])
<1> DEFINE n == Len(t)
           step == [i \in 1..n |-> [v \in Int |-> ReadOn(v, t[i])]]
           G(g) == g = [i \in 0..n |-> IF i = 0 THEN 0
                                       ELSE IF t[i] = "." THEN g[i - 1]
                                       ELSE 10 * g[i - 1] + DigitOf(t[i])]
<1>1. PICK f : IsIteration(f, n, Int, 0, step)
  <2>1. \A v \in Int, i \in 1..n : ReadOn(v, t[i]) \in Int
    BY DigitOfType DEF ReadOn
  <2>2. step \in [1..n -> [Int -> Int]] /\ 0 \in Int
    BY <2>1
  <2> HIDE DEF step, n
  <2>3. n \in Nat
    BY DEF n
  <2>4. QED
    BY <2>2, <2>3, Iterates
<1>2. f \in [0..n -> Int] /\ f[0] = 0
  BY <1>1 DEF IsIteration
<1>3. ASSUME NEW i \in 1..n PROVE f[i] = ReadOn(f[i - 1], t[i])
  <2>1. f[i] = step[i][f[i - 1]]
    BY <1>1 DEF IsIteration
  <2>2. f[i - 1] \in Int
    BY <1>2
  <2>3. QED
    BY <2>1, <2>2
<1>4. G(f)
  <2>1. ASSUME NEW i \in 0..n
        PROVE  f[i] = IF i = 0 THEN 0 ELSE IF t[i] = "." THEN f[i - 1]
                      ELSE 10 * f[i - 1] + DigitOf(t[i])
    <3>1. i = 0 \/ i \in 1..n
      OBVIOUS
    <3>2. QED
      BY <1>2, <1>3, <3>1 DEF ReadOn
  <2>2. QED
    BY <1>2, <2>1
<1>5. G(CHOOSE g : G(g))
  <2> HIDE DEF G
  <2>1. QED
    BY <1>4
<1>6. Reading(t) = (CHOOSE g : G(g))[n]
  BY DEF Reading
<1>7. PICK g : G(g) /\ Reading(t) = g[n]
  BY <1>5, <1>6
<1>8. f[0] = g[0] /\ \A i \in 1..n : f[i - 1] = g[i - 1] => f[i] = g[i]
  <2>1. g[0] = 0
    BY <1>7
  <2>2. \A i \in 1..n : g[i] = ReadOn(g[i - 1], t[i])
    BY <1>7 DEF ReadOn
  <2>3. QED
    BY <1>2, <1>3, <2>1, <2>2
<1>9. f[n] = g[n]
  <2> HIDE DEF n
  <2>1. n \in Nat
    BY DEF n
  <2>2. QED
    BY <1>8, <2>1, IteratesAgree
<1>10. QED
  BY <1>2, <1>3, <1>7, <1>9

LEMMA DecimalsIs ==
  ASSUME NEW t, Len(t) \in Nat
  PROVE  Decimals(t) \in 0..Len(t)
<1>1. Decimals(t) = IF First(t, ".") = 0 THEN 0 ELSE Len(t) - First(t, ".")
  BY DEF Decimals, First, SelectInSeq
<1>2. First(t, ".") = 0 \/ First(t, ".") \in 1..Len(t)
  BY FirstIs
<1>3. QED
  BY <1>1, <1>2

LEMMA ReadingType ==
  ASSUME NEW t, Len(t) \in Nat
  PROVE  Reading(t) \in Int
<1>1. PICK f : f \in [0..Len(t) -> Int] /\ Reading(t) = f[Len(t)]
  BY ReadingSequence
<1>2. QED
  BY <1>1

LEMMA ScaledType ==
  ASSUME NEW t, Len(t) \in Nat, NEW e \in Int
  PROVE  Scaled(t, e) \in Int
<1>1. Reading(t) \in Int
  BY ReadingType
<1>2. Places \in Nat /\ Decimals(t) \in Nat
  BY GCodeAssumption, DecimalsIs
<1>3. CASE e < 0
  <2>1. PICK r, p, d : /\ r = Reading(t) /\ p = Power(Places)
                       /\ d = Power(Decimals(t) - e)
    OBVIOUS
  <2>2. Decimals(t) - e \in Nat
    BY <1>2, <1>3
  <2>3. r \in Int /\ p \in Nat /\ d \in Nat /\ d > 0
    BY <1>1, <1>2, <2>1, <2>2, PowerIs
  <2>4. r * p \in Int
    BY <2>3
  <2>5. (r * p) \div d \in Int
    BY <2>3, <2>4
  <2>6. QED
    BY <1>3, <2>1, <2>5 DEF Scaled
<1>4. CASE ~(e < 0)
  <2>1. PICK r, p, d : /\ r = Reading(t) /\ p = Power(Places + e)
                       /\ d = Power(Decimals(t))
    OBVIOUS
  <2>2. Places + e \in Nat
    BY <1>2, <1>4
  <2>3. r \in Int /\ p \in Nat /\ d \in Nat /\ d > 0
    BY <1>1, <1>2, <2>1, <2>2, PowerIs
  <2>4. r * p \in Int
    BY <2>3
  <2>5. (r * p) \div d \in Int
    BY <2>3, <2>4
  <2>6. QED
    BY <1>4, <2>1, <2>5 DEF Scaled
<1>5. QED
  BY <1>3, <1>4

LEMMA Unscaled ==
  ASSUME NEW t
  PROVE  Scaled(t, 0) = Value(t)
<1>1. Places + 0 = Places
  BY GCodeAssumption
<1>2. QED
  BY <1>1 DEF Scaled, Value

LEMMA ValueType ==
  ASSUME NEW t, Len(t) \in Nat
  PROVE  Value(t) \in Int
<1>1. Scaled(t, 0) \in Int
  BY ScaledType
<1>2. QED
  BY <1>1, Unscaled

(* The leading digits are digits, and what follows them is none. *)
LEMMA LeadingDigitsIs ==
  ASSUME NEW t, Len(t) \in Nat
  PROVE  \E n \in 0..Len(t) :
           /\ LeadingDigits(t) = SubSeq(t, 1, n)
           /\ \A i \in 1..n : Contains(Digits, t[i])
           /\ \A m \in 0..Len(t) :
                (\A i \in 1..m : Contains(Digits, t[i])) => m <= n
<1> DEFINE D == {n \in 0..Len(t) : \A i \in 1..n : Contains(Digits, t[i])}
<1>1. 0 \in D /\ D \in SUBSET (0..Len(t))
  OBVIOUS
<1>2. Max(D) \in D /\ \A n \in D : n <= Max(D)
  <2> HIDE DEF D
  <2>1. QED
    BY <1>1, MaxInSet
<1>3. LeadingDigits(t) = SubSeq(t, 1, Max(D))
  BY DEF LeadingDigits
<1>4. QED
  BY <1>2, <1>3

LEMMA ExponentType ==
  ASSUME NEW t \in Seq(Chars)
  PROVE  Exponent(t) \in Int
<1> DEFINE signed == Len(t) > 1 /\ t[2] \in {"+", "-"}
           rest == SubSeq(t, IF signed THEN 3 ELSE 2, Len(t))
           size == Reading(LeadingDigits(rest))
<1>1. rest \in Seq(Chars) /\ Len(rest) \in Nat
  <2>1. SubSeq(t, 3, Len(t)) \in Seq(Chars) /\ SubSeq(t, 2, Len(t)) \in Seq(Chars)
    OBVIOUS
  <2>2. rest \in Seq(Chars)
    BY <2>1
  <2> HIDE DEF rest
  <2>3. QED
    BY <2>2, LenProperties
<1> HIDE DEF rest
<1>2. size \in Int
  <2>1. PICK n \in 0..Len(rest) : LeadingDigits(rest) = SubSeq(rest, 1, n)
    BY <1>1, LeadingDigitsIs
  <2>2. Len(SubSeq(rest, 1, n)) \in Nat
    BY <1>1, <2>1
  <2>3. QED
    BY <2>1, <2>2, ReadingType
<1>3. Exponent(t) = IF t = <<>> \/ t[1] \notin ExponentLetters THEN 0
                    ELSE IF signed /\ t[2] = "-" THEN -size ELSE size
  BY DEF Exponent, rest
<1> HIDE DEF size
<1>4. QED
  BY <1>2, <1>3

-----------------------------------------------------------------------------
(* Words, and the loop of parseCoords.                                     *)

LEMMA WordIs ==
  ASSUME NEW s \in Seq(Chars), NEW i \in 0..Len(s)
  PROVE  /\ WordAfter(s, i) \in Seq(Chars)
         /\ \A n \in Nat :
              /\ i + n + 1 <= Len(s) /\ s[i + n + 1] = Space
              /\ \A j \in 1..n : s[i + j] # Space
              => /\ Len(WordAfter(s, i)) = n
                 /\ \A j \in 1..n : WordAfter(s, i)[j] = s[i + j]
<1> DEFINE I == {j \in i + 1..Len(s) : s[j] = Space}
<1>1. PICK r : r = IF I # {} THEN Min(I) ELSE 0
  OBVIOUS
<1>2. WordAfter(s, i) = SubSeq(s, i + 1, r - 1)
  BY <1>1 DEF WordAfter, SelectInSubSeq
<1>3. Len(s) \in Nat /\ i \in Nat
  BY LenProperties
<1>4. I # {} => r \in I /\ \A j \in I : r <= j
  <2>1. I \in SUBSET Nat
    BY <1>3
  <2> HIDE DEF I
  <2>2. QED
    BY <1>1, <2>1, MinInSet
<1>5. r \in 0..Len(s)
  <2>1. CASE I = {}
    BY <1>1, <1>3, <2>1
  <2>2. CASE I # {}
    <3>1. r \in i + 1..Len(s)
      BY <1>4, <2>2
    <3>2. QED
      BY <1>3, <3>1
  <2>3. QED
    BY <2>1, <2>2
<1>6. SubSeq(s, i + 1, r - 1) \in Seq(Chars)
  <2>1. i + 1 \in Int /\ r - 1 \in Int /\ \A j \in i + 1..r - 1 : s[j] \in Chars
    BY <1>3, <1>5
  <2>2. QED
    BY <2>1, SubSeqProperties
<1>7. ASSUME NEW n \in Nat, i + n + 1 <= Len(s), s[i + n + 1] = Space,
             \A j \in 1..n : s[i + j] # Space
      PROVE  r = i + n + 1
  <2>1. i + n + 1 \in I
    BY <1>3, <1>7
  <2>2. r \in I /\ r <= i + n + 1
    BY <1>4, <2>1
  <2>3. r \in i + 1..Len(s) /\ s[r] = Space
    BY <2>2
  <2>4. CASE r < i + n + 1
    <3>1. PICK j \in 1..n : r = i + j
      <4>1. r - i \in 1..n /\ r = i + (r - i)
        BY <1>3, <2>3, <2>4
      <4>2. QED
        BY <4>1
    <3>2. QED
      BY <1>7, <2>3, <3>1
  <2>5. QED
    BY <1>3, <2>2, <2>3, <2>4
<1>8. ASSUME NEW n \in Nat, i + n + 1 <= Len(s), r = i + n + 1
      PROVE  /\ Len(SubSeq(s, i + 1, r - 1)) = n
             /\ \A j \in 1..n : SubSeq(s, i + 1, r - 1)[j] = s[i + j]
  <2>1. PICK a, b : a = i + 1 /\ b = r - 1
    OBVIOUS
  <2>2. a \in Int /\ b \in Int /\ b - a + 1 = n /\ (a <= b \/ n = 0)
    BY <1>3, <1>8, <2>1
  <2>3. /\ Len(SubSeq(s, a, b)) = IF a <= b THEN b - a + 1 ELSE 0
        /\ \A j \in 1..b - a + 1 : SubSeq(s, a, b)[j] = s[a + j - 1]
    <3>1. \A j \in a..b : s[j] \in Chars
      BY <1>3, <1>8, <2>1
    <3>2. QED
      BY <2>2, <3>1, SubSeqProperties
  <2>4. Len(SubSeq(s, a, b)) = n
    BY <2>2, <2>3
  <2>5. ASSUME NEW j \in 1..n PROVE SubSeq(s, a, b)[j] = s[i + j]
    <3>1. a + j - 1 = i + j
      BY <1>3, <2>1
    <3>2. QED
      BY <2>2, <2>3, <3>1
  <2>6. QED
    BY <2>1, <2>4, <2>5
<1>9. QED
  BY <1>2, <1>6, <1>7, <1>8

(* memory from temp on *)
Temps == {temp \in Seq(Chars) : Len(temp) > 8}

(* atof reads the longest number that temp starts with, and an exponent if   *)
(* one stands behind it.                                                   *)
LEMMA AtofIs ==
  ASSUME NEW temp \in Temps
  PROVE  \E n \in 0..Len(temp) :
           /\ Atof(temp) = Scaled(SubSeq(temp, 1, n),
                                  Exponent(SubSeq(temp, n + 1, Len(temp))))
           /\ IsNumber(SubSeq(temp, 1, n))
           /\ \A m \in 0..Len(temp) : IsNumber(SubSeq(temp, 1, m)) => m <= n
<1> DEFINE starts == {n \in 0..Len(temp) : IsNumber(SubSeq(temp, 1, n))}
<1>1. temp \in Seq(Chars) /\ Len(temp) \in Nat
  BY LenProperties DEF Temps
<1>2. 0 \in starts
  <2>1. SubSeq(temp, 1, 0) = <<>>
    BY SubSeqEmpty
  <2>2. IsNumber(<<>>)
    BY DEF IsNumber
  <2>3. IsNumber(SubSeq(temp, 1, 0))
    BY <2>1, <2>2
  <2>4. 0 \in 0..Len(temp)
    BY <1>1
  <2>5. QED
    BY <2>3, <2>4
<1>3. starts \in SUBSET (0..Len(temp))
  BY <1>1
<1>4. Max(starts) \in starts /\ \A n \in starts : n <= Max(starts)
  <2> HIDE DEF starts
  <2>1. QED
    BY <1>1, <1>2, <1>3, MaxInSet
<1>5. Atof(temp) = Scaled(SubSeq(temp, 1, Max(starts)),
                          Exponent(SubSeq(temp, Max(starts) + 1, Len(temp))))
  BY DEF Atof
<1>6. QED
  BY <1>1, <1>4, <1>5

LEMMA AtofType ==
  ASSUME NEW temp \in Temps
  PROVE  Atof(temp) \in Int
<1>1. temp \in Seq(Chars) /\ Len(temp) \in Nat
  BY LenProperties DEF Temps
<1>2. PICK n \in 0..Len(temp) :
        Atof(temp) = Scaled(SubSeq(temp, 1, n),
                            Exponent(SubSeq(temp, n + 1, Len(temp))))
  BY AtofIs
<1>3. Len(SubSeq(temp, 1, n)) \in Nat /\ SubSeq(temp, n + 1, Len(temp)) \in Seq(Chars)
  BY <1>1
<1>4. QED
  BY <1>2, <1>3, ScaledType, ExponentType

LEMMA StoredType ==
  ASSUME NEW temp \in Temps, NEW at, NEW word \in Seq(Chars)
  PROVE  Stored(temp, at, word) \in Temps /\ Len(Stored(temp, at, word)) = Len(temp)
<1>1. PICK n \in Nat : n = Len(temp) /\ n > 8
  BY LenProperties DEF Temps
<1>2. DOMAIN temp = 1..n /\ \A k \in 1..n : temp[k] \in Chars
  BY <1>1 DEF Temps
<1>3. \A k \in DOMAIN word : word[k] \in Chars
  OBVIOUS
<1>4. Stored(temp, at, word) \in [1..n -> Chars]
  BY <1>2, <1>3 DEF Stored
<1>5. Stored(temp, at, word) \in Seq(Chars) /\ Len(Stored(temp, at, word)) = n
  BY <1>4, FunctionIsSeq
<1>6. QED
  BY <1>1, <1>5 DEF Temps

ParseStates == [temp : Temps, index : Nat, x : Int, y : Int]

LEMMA ParseCharType ==
  ASSUME NEW s \in Seq(Chars), NEW p \in ParseStates, NEW i \in 1..Len(s)
  PROVE  ParseChar(s, p, i) \in ParseStates
<1>1. PICK word : word = WordAfter(s, i)
  OBVIOUS
<1>2. word \in Seq(Chars) /\ Len(word) \in Nat
  BY <1>1, WordIs, LenProperties
<1>3. p.temp \in Temps /\ p.index \in Nat /\ p.x \in Int /\ p.y \in Int
  BY DEF ParseStates
<1>4. PICK forX, forY : forX = Stored(p.temp, p.index, word)
                       /\ forY = Stored(p.temp, YIndex(p.index), word)
  OBVIOUS
<1>5. forX \in Temps /\ forY \in Temps /\ Atof(forX) \in Int /\ Atof(forY) \in Int
  BY <1>2, <1>3, <1>4, StoredType, AtofType
<1>6. CASE s[i] = "X"
  <2>1. ParseChar(s, p, i) = [p EXCEPT !.temp = forX, !.x = Atof(forX),
                                       !.index = @ + Len(word)]
    BY <1>1, <1>4, <1>6 DEF ParseChar
  <2>2. PICK n : n = p.index + Len(word)
    OBVIOUS
  <2>3. n \in Nat
    BY <1>2, <1>3, <2>2
  <2>4. ParseChar(s, p, i) = [p EXCEPT !.temp = forX, !.x = Atof(forX), !.index = n]
    BY <2>1, <2>2
  <2>5. QED
    BY <1>3, <1>5, <2>3, <2>4 DEF ParseStates
<1>7. CASE s[i] = "Y"
  <2>1. ParseChar(s, p, i) = [p EXCEPT !.temp = forY, !.y = Atof(forY)]
    BY <1>1, <1>4, <1>7 DEF ParseChar
  <2>2. QED
    BY <1>3, <1>5, <2>1 DEF ParseStates
<1>8. CASE s[i] \notin {"X", "Y"}
  BY <1>8 DEF ParseChar
<1>9. QED
  BY <1>6, <1>7, <1>8

LEMMA ParsedSequence ==
  ASSUME NEW s \in Seq(Chars), NEW temp \in Temps, xCoord_ \in Int, yCoord_ \in Int
  PROVE  \E f : /\ f \in [0..Len(s) -> ParseStates]
               /\ f[0] = [temp |-> temp, index |-> 0, x |-> xCoord_, y |-> yCoord_]
               /\ \A i \in 1..Len(s) : f[i] = ParseChar(s, f[i - 1], i)
               /\ ParseCoords(s, temp) = f[Len(s)]
<1> DEFINE n == Len(s)
           base == [temp |-> temp, index |-> 0, x |-> xCoord_, y |-> yCoord_]
           step == [i \in 1..n |-> [p \in ParseStates |-> ParseChar(s, p, i)]]
           G(g) == g = [i \in 0..n |-> IF i = 0 THEN base ELSE ParseChar(s, g[i - 1], i)]
<1>0. n \in Nat
  BY LenProperties
<1>1. PICK f : IsIteration(f, n, ParseStates, base, step)
  <2>1. base \in ParseStates
    BY DEF ParseStates
  <2>2. \A i \in 1..n : [p \in ParseStates |-> ParseChar(s, p, i)]
                           \in [ParseStates -> ParseStates]
    BY ParseCharType
  <2>3. step \in [1..n -> [ParseStates -> ParseStates]]
    BY <2>2
  <2> HIDE DEF base, step, n
  <2>4. QED
    BY <1>0, <2>1, <2>3, Iterates
<1>2. f \in [0..n -> ParseStates] /\ f[0] = base
  BY <1>1 DEF IsIteration
<1>3. ASSUME NEW i \in 1..n PROVE f[i] = ParseChar(s, f[i - 1], i)
  <2>1. f[i] = step[i][f[i - 1]]
    BY <1>1 DEF IsIteration
  <2>2. i - 1 \in 0..n
    BY <1>0
  <2>3. f[i - 1] \in ParseStates
    BY <1>2, <2>2
  <2>4. QED
    BY <2>1, <2>3
<1>4. G(f)
  <2>1. ASSUME NEW i \in 0..n
        PROVE  f[i] = IF i = 0 THEN base ELSE ParseChar(s, f[i - 1], i)
    <3>1. i = 0 \/ i \in 1..n
      BY <1>0
    <3>2. QED
      BY <1>2, <1>3, <3>1
  <2> HIDE DEF base, n
  <2>2. QED
    BY <1>2, <2>1
<1>5. G(CHOOSE g : G(g))
  <2> HIDE DEF G
  <2>1. QED
    BY <1>4
<1>6. ParseCoords(s, temp) = (CHOOSE g : G(g))[n]
  BY DEF ParseCoords
<1>7. PICK g : G(g) /\ ParseCoords(s, temp) = g[n]
  BY <1>5, <1>6
<1> HIDE DEF base, step
<1>8. f[0] = g[0]
  BY <1>0, <1>2, <1>7
<1>9. ASSUME NEW i \in 1..n, f[i - 1] = g[i - 1] PROVE f[i] = g[i]
  <2>1. i \in 0..n /\ i # 0
    BY <1>0
  <2>2. g[i] = ParseChar(s, g[i - 1], i)
    BY <1>7, <2>1
  <2>3. QED
    BY <1>3, <1>9, <2>2
<1>10. f[n] = g[n]
  <2> HIDE DEF n, G
  <2>1. QED
    BY <1>0, <1>8, <1>9, IteratesAgree
<1>11. QED
  BY <1>2, <1>3, <1>7, <1>10 DEF base

-----------------------------------------------------------------------------
(* The steps of vParserTask.                                               *)

(* What has not come yet is the end of what the host sends. *)
Arriving ==
  /\ sent \in [1..MaxLines -> Lines]
  /\ Len(wire) \in 0..Len(TextOf(sent))
  /\ wire = SubSeq(TextOf(sent), Len(TextOf(sent)) - Len(wire) + 1, Len(TextOf(sent)))

LEMMA SentIs ==
  ASSUME Arriving
  PROVE  /\ sent \in Seq(Lines) /\ Len(sent) = MaxLines /\ MaxLines \in Nat
         /\ TextOf(sent) \in Seq(Chars) /\ Len(TextOf(sent)) \in Nat
<1>1. sent \in Seq(Lines) /\ Len(sent) = MaxLines /\ MaxLines \in Nat
  BY GCodeAssumption, FunctionIsSeq DEF Arriving
<1>2. TextOf(sent) \in Seq(Chars)
  BY <1>1, TextsAre, FlattenSeqType
<1>3. QED
  BY <1>1, <1>2, LenProperties

LEMMA WireIs ==
  ASSUME Arriving
  PROVE  \E k \in Nat :
           /\ k = Len(TextOf(sent)) - Len(wire)
           /\ wire \in Seq(Chars) /\ Len(wire) \in Nat
           /\ \A i \in 1..Len(wire) : k + i \in 1..Len(TextOf(sent))
                                     /\ wire[i] = TextOf(sent)[k + i]
<1>1. PICK t, w : t = TextOf(sent) /\ w = wire
  OBVIOUS
<1>2. t \in Seq(Chars) /\ Len(t) \in Nat
  BY <1>1, SentIs
<1>3. Len(w) \in 0..Len(t) /\ w = SubSeq(t, Len(t) - Len(w) + 1, Len(t))
  BY <1>1 DEF Arriving
<1>4. PICK k \in Nat : k = Len(t) - Len(w)
  <2>1. Len(w) \in 0..Len(t)
    BY <1>3
  <2>2. Len(t) - Len(w) \in Nat
    BY <1>2, <2>1
  <2>3. QED
    BY <2>2
<1>5. w \in Seq(Chars) /\ \A i \in 1..Len(w) : w[i] = t[k + i]
  <2>1. w = SubSeq(t, k + 1, Len(t)) /\ Len(w) = Len(t) - k /\ k <= Len(t)
    BY <1>2, <1>3, <1>4
  <2>2. /\ SubSeq(t, k + 1, Len(t)) \in Seq(Chars)
        /\ \A i \in 1..Len(t) - k : SubSeq(t, k + 1, Len(t))[i] = t[k + i]
    BY <1>2, <2>1
  <2>3. QED
    BY <2>1, <2>2
<1>6. \A i \in 1..Len(w) : k + i \in 1..Len(t)
  BY <1>2, <1>3, <1>4
<1>7. Len(w) \in Nat
  BY <1>2, <1>3
<1>8. QED
  BY <1>1, <1>4, <1>5, <1>6, <1>7

LEMMA AfterIs ==
  ASSUME Arriving, NEW n \in 0..MaxLines
  PROVE  /\ After(n) = Len(TextOf(sent)) - EndOf(Texts(sent), n)
         /\ EndOf(Texts(sent), n) \in 0..Len(TextOf(sent))
         /\ \A m \in 0..MaxLines : m < n => After(n) < After(m)
<1>1. sent \in Seq(Lines) /\ Len(sent) = MaxLines /\ Len(TextOf(sent)) \in Nat
  BY SentIs
<1>2. PICK tt : tt = Texts(sent)
  OBVIOUS
<1>3. /\ tt \in Seq(Seq(Chars)) /\ Len(tt) = MaxLines
      /\ \A i \in 1..Len(tt) : Len(tt[i]) > 0
      /\ TextOf(sent) = FlattenSeq(tt)
  BY <1>1, <1>2, TextsAre
<1>4. \A m \in 0..MaxLines :
        After(m) = Len(TextOf(sent)) - EndOf(tt, m)
        /\ EndOf(tt, m) \in Nat /\ EndOf(tt, m) <= Len(TextOf(sent))
  <2> SUFFICES ASSUME NEW m \in 0..MaxLines
               PROVE  After(m) = Len(TextOf(sent)) - EndOf(tt, m)
                      /\ EndOf(tt, m) \in Nat /\ EndOf(tt, m) <= Len(TextOf(sent))
    OBVIOUS
  <2>1. After(m) = Len(TextOf(sent)) - EndOf(tt, m)
    BY <1>1, <1>2, TextsFrom DEF After
  <2>2. EndOf(tt, m) \in Nat /\ EndOf(tt, m) <= Len(FlattenSeq(tt))
    BY <1>3, EndOfIs
  <2>3. QED
    BY <1>3, <2>1, <2>2
<1>5. ASSUME NEW m \in 0..MaxLines, m < n PROVE After(n) < After(m)
  <2>1. EndOf(tt, m) < EndOf(tt, n)
    BY <1>3, <1>5, EndsAscend
  <2>2. QED
    BY <1>1, <1>4, <2>1
<1>6. QED
  BY <1>1, <1>2, <1>4, <1>5

(* What a packet with a newline completes is the end of a line. *)
CompletedAs(n, q, line, m, d) ==
  /\ m \in 1..MaxLines /\ d \in 0..Len(Body(sent[m])) /\ q \in 1..n
  /\ line \in Seq(Chars) /\ Len(line) = Len(Body(sent[m])) - d /\ Len(line) = q - 1
  /\ \A j \in 1..Len(line) : line[j] = Body(sent[m])[d + j]
  /\ Len(wire) = After(m - 1) - d /\ Len(wire) - q = After(m)

LEMMA Completed ==
  ASSUME Arriving, NEW n \in 1..Len(wire), NEW q, q = First(SubSeq(wire, 1, n), NewLine),
         q # 0
  PROVE  \E m, d : CompletedAs(n, q, SubSeq(SubSeq(wire, 1, n), 1, q - 1), m, d)
<1>1. PICK k \in Nat :
        /\ k = Len(TextOf(sent)) - Len(wire)
        /\ wire \in Seq(Chars) /\ Len(wire) \in Nat
        /\ \A i \in 1..Len(wire) : k + i \in 1..Len(TextOf(sent))
                                  /\ wire[i] = TextOf(sent)[k + i]
  BY WireIs
<1>2. PICK t, w, p : t = TextOf(sent) /\ w = wire /\ p = SubSeq(wire, 1, n)
  OBVIOUS
<1>3. /\ w \in Seq(Chars) /\ Len(w) \in Nat /\ n \in 1..Len(w) /\ p = SubSeq(w, 1, n)
  BY <1>1, <1>2
<1>4. p \in Seq(Chars) /\ Len(p) = n /\ \A i \in 1..n : p[i] = w[i]
  BY <1>3
<1>5. /\ q \in 1..n /\ p[q] = NewLine
      /\ \A i \in 1..q - 1 : p[i] # NewLine
  <2>1. Len(p) \in Nat
    BY <1>3, <1>4
  <2>2. \/ First(p, NewLine) = 0
        \/ /\ First(p, NewLine) \in 1..Len(p) /\ p[First(p, NewLine)] = NewLine
           /\ \A i \in 1..First(p, NewLine) - 1 : p[i] # NewLine
    BY <2>1, FirstIs
  <2>3. q = First(p, NewLine)
    BY <1>2
  <2>4. QED
    BY <1>4, <2>2, <2>3
<1>6. PICK s : s = SubSeq(p, 1, q - 1)
  OBVIOUS
<1>7. s \in Seq(Chars) /\ Len(s) = q - 1 /\ \A i \in 1..q - 1 : s[i] = p[i]
  <2>1. q - 1 \in 0..Len(p) /\ q - 1 \in Int
    BY <1>4, <1>5
  <2>2. QED
    BY <1>4, <1>6, <2>1
<1>8. \A i \in 1..n : k + i \in 1..Len(t) /\ p[i] = t[k + i]
  BY <1>1, <1>2, <1>4
<1>9. PICK r : r = k + q
  OBVIOUS
<1>10. r \in 1..Len(t) /\ k < r /\ t[r] = NewLine
  BY <1>5, <1>8, <1>9
<1>11. ASSUME NEW i \in k + 1..r - 1 PROVE t[i] # NewLine
  <2>1. i - k \in 1..q - 1 /\ k + (i - k) = i /\ i - k \in 1..n
    BY <1>5, <1>9
  <2>2. QED
    BY <1>5, <1>8, <2>1
<1> DEFINE At(m, d) ==
      /\ EndOf(Texts(sent), m - 1) \in Nat /\ k = EndOf(Texts(sent), m - 1) + d
      /\ r = EndOf(Texts(sent), m) /\ r - k - 1 = Len(Body(sent[m])) - d
      /\ \A j \in 1..r - k - 1 : TextOf(sent)[k + j] = Body(sent[m])[d + j]
<1>12. PICK m \in 1..Len(sent) : \E d \in 0..Len(Body(sent[m])) : At(m, d)
  <2>1. sent \in Seq(Lines)
    BY SentIs
  <2>2. r \in 1..Len(TextOf(sent)) /\ TextOf(sent)[r] = NewLine
    BY <1>2, <1>10
  <2>3. \A i \in k + 1..r - 1 : TextOf(sent)[i] # NewLine
    BY <1>2, <1>11
  <2>4. QED
    BY <1>10, <2>1, <2>2, <2>3, CutLine
<1>13. PICK d \in 0..Len(Body(sent[m])) : At(m, d)
  BY <1>12
<1>14. PICK b : b = Body(sent[m])
  OBVIOUS
<1>15. /\ r - k - 1 = q - 1 /\ r - k - 1 = Len(b) - d
       /\ \A j \in 1..r - k - 1 : t[k + j] = b[d + j]
  BY <1>2, <1>5, <1>9, <1>13, <1>14
<1>16. Len(s) = Len(b) - d /\ \A j \in 1..Len(s) : s[j] = b[d + j]
  <2>1. Len(s) = Len(b) - d /\ Len(s) = r - k - 1
    BY <1>7, <1>15
  <2>2. ASSUME NEW j \in 1..Len(s) PROVE s[j] = b[d + j]
    <3>1. j \in 1..q - 1 /\ j \in 1..n
      BY <1>5, <1>7
    <3>2. t[k + j] = b[d + j]
      BY <1>15, <2>1
    <3>3. QED
      BY <1>7, <1>8, <3>1, <3>2
  <2>3. QED
    BY <2>1, <2>2
<1>17. m \in 1..MaxLines /\ m - 1 \in 0..MaxLines /\ m \in 0..MaxLines
  BY SentIs
<1>18. Len(wire) = After(m - 1) - d /\ Len(wire) - q = After(m)
  <2>1. PICK e, f : e = EndOf(Texts(sent), m - 1) /\ f = EndOf(Texts(sent), m)
    OBVIOUS
  <2>2. After(m - 1) = Len(t) - e /\ After(m) = Len(t) - f
    BY <1>2, <1>17, <2>1, AfterIs
  <2>3. Len(t) \in Nat
    BY <1>2, SentIs
  <2>4. e \in Nat /\ k = e + d /\ r = f
    BY <1>13, <2>1
  <2>5. PICK u \in Nat : u = Len(wire) /\ k = Len(t) - u
    BY <1>1, <1>2
  <2>6. PICK x \in Nat, c \in Int : x = Len(t) /\ c = d
    BY <2>3
  <2>7. u = x - k /\ k = e + c /\ f = k + q /\ q \in Int
    BY <1>5, <1>9, <2>4, <2>5, <2>6
  <2>8. e \in Int /\ u \in Int /\ x \in Int /\ k \in Int
    BY <2>4, <2>5, <2>6
  <2>9. u = x - e - c /\ u - q = x - (k + q)
    BY ONLY <2>7, <2>8, c \in Int
  <2>10. QED
    BY <2>2, <2>5, <2>6, <2>7, <2>9
<1>19. CompletedAs(n, q, s, m, d)
  BY <1>5, <1>7, <1>14, <1>16, <1>17, <1>18 DEF CompletedAs
<1>20. QED
  BY <1>2, <1>6, <1>19

Command == [line : 1..MaxLines, code : {M10, M1, G1},
            angle : Int, x : Int, y : Int, temp : Seq(Chars)]

(* what the history keeps of the memory that a command was read with *)
Used(line, temp) == IF Read(line) = G1 THEN temp ELSE <<>>

(* The types of the variables, strong enough for a step to keep them. *)
TypeInv ==
  /\ Arriving
  /\ buffStr \in Seq(Chars) /\ Len(buffStr) <= MaxPacket
  /\ angle_ \in Int /\ xCoord_ \in Int /\ yCoord_ \in Int
  /\ commands \in Seq(Command)

(* CommandsWereSent, and the line of the last command is over. *)
Queued ==
  /\ \A i \in 1..Len(commands) : commands[i].code = sent[commands[i].line].code
  /\ \A i \in 2..Len(commands) : commands[i - 1].line < commands[i].line
  /\ \A i \in 1..Len(commands) :
       i = Len(commands) => Len(wire) <= After(commands[i].line)

LEMMA WireStep ==
  ASSUME Arriving, NEW n \in 1..Len(wire),
         wire' = SubSeq(wire, n + 1, Len(wire)), sent' = sent
  PROVE  Arriving' /\ Len(wire') = Len(wire) - n /\ Len(wire) \in Nat
<1>1. PICK k \in Nat :
        /\ k = Len(TextOf(sent)) - Len(wire)
        /\ wire \in Seq(Chars) /\ Len(wire) \in Nat
        /\ \A i \in 1..Len(wire) : k + i \in 1..Len(TextOf(sent))
                                  /\ wire[i] = TextOf(sent)[k + i]
  BY WireIs
<1>2. PICK t, w, u : t = TextOf(sent) /\ w = wire /\ u = wire'
  OBVIOUS
<1>3. t \in Seq(Chars) /\ Len(t) \in Nat
  BY <1>2, SentIs
<1>4. w \in Seq(Chars) /\ Len(w) \in Nat /\ n \in 1..Len(w) /\ u = SubSeq(w, n + 1, Len(w))
  BY <1>1, <1>2
<1>5. /\ u \in Seq(Chars) /\ Len(u) = Len(w) - n
      /\ \A i \in 1..Len(w) - n : u[i] = w[n + i]
  BY <1>4
<1>6. \A i \in 1..Len(w) : k + i \in 1..Len(t) /\ w[i] = t[k + i]
  BY <1>1, <1>2
<1>7. Len(w) = Len(t) - k
  BY <1>1, <1>2, <1>3, <1>4
<1>8. PICK a : a = Len(t) - Len(u) + 1
  OBVIOUS
<1>9. a = k + n + 1 /\ Len(u) \in 0..Len(t)
  <2>1. PICK x \in Nat, y \in Nat : x = Len(t) /\ y = Len(w)
    BY <1>3, <1>4
  <2>2. n \in 1..y /\ Len(u) = y - n /\ y = x - k /\ a = x - Len(u) + 1
    BY <1>4, <1>5, <1>7, <1>8, <2>1
  <2>3. a = k + n + 1 /\ Len(u) \in 0..x
    BY <2>2
  <2>4. QED
    BY <2>1, <2>3
<1>10. u = SubSeq(t, a, Len(t))
  <2>1. a \in Int /\ a >= 1 /\ a <= Len(t) + 1 /\ Len(t) - a + 1 = Len(u)
    BY <1>3, <1>4, <1>5, <1>7, <1>9
  <2>2. /\ SubSeq(t, a, Len(t)) \in Seq(Chars)
        /\ Len(SubSeq(t, a, Len(t))) = Len(u)
        /\ \A i \in 1..Len(u) : SubSeq(t, a, Len(t))[i] = t[a + i - 1]
    <3>1. \A j \in a..Len(t) : t[j] \in Chars
      BY <1>3, <2>1
    <3>2. /\ SubSeq(t, a, Len(t)) \in Seq(Chars)
          /\ Len(SubSeq(t, a, Len(t))) = IF a <= Len(t) THEN Len(t) - a + 1 ELSE 0
          /\ \A i \in 1..Len(t) - a + 1 : SubSeq(t, a, Len(t))[i] = t[a + i - 1]
      BY <1>3, <2>1, <3>1, SubSeqProperties
    <3>3. QED
      BY <1>3, <2>1, <3>2
  <2>3. ASSUME NEW i \in 1..Len(u) PROVE u[i] = SubSeq(t, a, Len(t))[i]
    <3>1. i \in 1..Len(w) - n /\ n + i \in 1..Len(w) /\ k + (n + i) = a + i - 1
      BY <1>4, <1>5, <1>9
    <3>2. u[i] = w[n + i] /\ w[n + i] = t[k + (n + i)]
      BY <1>5, <1>6, <3>1
    <3>3. QED
      BY <2>2, <3>1, <3>2
  <2>4. QED
    BY <1>5, <2>2, <2>3, SeqEqual
<1>11. TextOf(sent)' = t
  BY <1>2
<1>12. Arriving'
  <2>1. sent' \in [1..MaxLines -> Lines]
    BY DEF Arriving
  <2>2. Len(wire') \in 0..Len(TextOf(sent)')
    BY <1>2, <1>9, <1>11
  <2>3. wire' = SubSeq(TextOf(sent)', Len(TextOf(sent)') - Len(wire') + 1,
                       Len(TextOf(sent)'))
    BY <1>2, <1>8, <1>10, <1>11
  <2>4. QED
    BY <2>1, <2>2, <2>3 DEF Arriving
<1>13. QED
  BY <1>2, <1>4, <1>5, <1>12

(* All that a packet does that completes a line. *)
Completes(n, q, line, m, d, temp) ==
  /\ CompletedAs(n, q, line, m, d)
  /\ temp \in Stack /\ Parse(line, temp) /\ buffStr' = line
  /\ wire' = SubSeq(wire, n + 1, Len(wire)) /\ sent' = sent
  /\ commands' = IF Read(line) = None THEN commands
                  ELSE Append(commands, [line |-> m, code |-> Read(line),
                                         angle |-> angle_', x |-> xCoord_',
                                         y |-> yCoord_',
                                         temp |-> Used(line, temp)])

LEMMA LineNumberIs ==
  ASSUME Arriving, NEW m \in 1..MaxLines, NEW rest, Len(rest) = After(m)
  PROVE  LineNumber(rest) = m
<1>1. \A n \in 1..MaxLines : Len(rest) = After(n) => n = m
  <2> SUFFICES ASSUME NEW n \in 1..MaxLines, After(n) = After(m) PROVE n = m
    OBVIOUS
  <2>1. n \in 0..MaxLines /\ m \in 0..MaxLines /\ MaxLines \in Nat
    BY GCodeAssumption
  <2>2. After(n) \in Int /\ After(m) \in Int
    BY <2>1, AfterIs, SentIs
  <2>3. ~ (n < m) /\ ~ (m < n)
    BY <2>1, <2>2, AfterIs
  <2>4. QED
    BY <2>1, <2>3
<1>2. QED
  BY <1>1 DEF LineNumber

LEMMA CompleteStep ==
  ASSUME Arriving, NEW n \in 1..Len(wire), NEW temp \in Stack,
         Complete(SubSeq(wire, 1, n), temp)
  PROVE  \E q, line, m, d : Completes(n, q, line, m, d, temp)
<1>1. PICK w, p : w = wire /\ p = SubSeq(w, 1, n)
  OBVIOUS
<1>2. w \in Seq(Chars) /\ Len(w) \in Nat
  BY <1>1, WireIs
<1>3. Len(p) = n
  BY <1>1, <1>2
<1>4. PICK q : q = First(p, NewLine)
  OBVIOUS
<1>5. PICK line : line = SubSeq(p, 1, q - 1)
  OBVIOUS
<1>6. /\ q # 0 /\ Parse(line, temp) /\ buffStr' = line
      /\ wire' = SubSeq(wire, Len(p) + 1, Len(wire)) /\ sent' = sent
      /\ commands' =
           IF Read(line) = None THEN commands
           ELSE Append(commands,
                  [line |-> LineNumber(SubSeq(wire, q + 1, Len(wire))),
                   code |-> Read(line), angle |-> angle_',
                   x |-> xCoord_', y |-> yCoord_', temp |-> Used(line, temp)])
  BY <1>1, <1>4, <1>5 DEF Complete, First, SelectInSeq, Assembled, Used
<1>7. PICK m, d : CompletedAs(n, q, line, m, d)
  BY <1>1, <1>4, <1>5, <1>6, Completed
<1>8. LineNumber(SubSeq(wire, q + 1, Len(wire))) = m
  <2>1. q \in 1..n /\ Len(w) - q = After(m) /\ m \in 1..MaxLines
    BY <1>1, <1>7 DEF CompletedAs
  <2>2. Len(SubSeq(w, q + 1, Len(w))) = Len(w) - q
    BY <1>1, <1>2, <2>1
  <2>3. QED
    BY <1>1, <2>1, <2>2, LineNumberIs
<1>9. QED
  BY <1>3, <1>6, <1>7, <1>8 DEF Completes

(* What each command sets. *)
LEMMA ParseIs ==
  ASSUME NEW line, NEW temp, Parse(line, temp)
  PROVE  /\ Read(line) = M1 =>
              angle_' \in Angles(line) /\ xCoord_' = xCoord_ /\ yCoord_' = yCoord_
         /\ Read(line) = G1 => /\ xCoord_' = ParseCoords(line, temp).x
                              /\ yCoord_' = ParseCoords(line, temp).y
                              /\ angle_' = angle_
         /\ Read(line) \notin {M1, G1} =>
              angle_' = angle_ /\ xCoord_' = xCoord_ /\ yCoord_' = yCoord_
<1>1. PICK r : r = Read(line)
  OBVIOUS
<1>2. PICK M, G : M = M1 /\ G = G1
  OBVIOUS
<1>3. CASE r = M
  <2>1. Read(line) = M1 /\ M1 # G1
    BY <1>1, <1>2, <1>3, CommandsDiffer
  <2>2. angle_' \in Angles(line) /\ UNCHANGED <<xCoord_, yCoord_>>
    BY <2>1 DEF Parse
  <2>3. QED
    BY <1>1, <1>2, <1>3, <2>2, CommandsDiffer
<1>4. CASE r = G
  <2>1. /\ xCoord_' = ParseCoords(line, temp).x
        /\ yCoord_' = ParseCoords(line, temp).y /\ angle_' = angle_
    BY <1>1, <1>2, <1>4, CommandsDiffer DEF Parse
  <2>2. QED
    BY <1>1, <1>2, <1>4, <2>1, CommandsDiffer
<1>5. CASE r \notin {M, G}
  <2>1. UNCHANGED members
    BY <1>1, <1>2, <1>5 DEF Parse
  <2>2. QED
    BY <1>1, <1>2, <1>5, <2>1 DEF members
<1>6. QED
  BY <1>3, <1>4, <1>5

LEMMA StackTemps == Stack \subseteq Temps
<1> SUFFICES ASSUME NEW temp \in Stack PROVE temp \in Temps
  OBVIOUS
<1>1. temp \in Seq(STRING) /\ Len(temp) > 8
  BY StackAssumption
<1>2. STRING \subseteq Chars
  BY DEF Chars
<1>3. temp \in Seq(Chars)
  <2>1. PICK z \in Nat : z = Len(temp) /\ DOMAIN temp = 1..z
                         /\ \A j \in 1..z : temp[j] \in STRING
    BY <1>1, LenProperties
  <2>2. temp \in [1..z -> Chars]
    <3>1. temp = [j \in 1..z |-> temp[j]]
      BY <1>1, <2>1
    <3>2. QED
      BY <1>2, <2>1, <3>1
  <2>3. QED
    BY <2>2, FunctionIsSeq
<1>4. QED
  BY <1>1, <1>3 DEF Temps

LEMMA ParseType ==
  ASSUME TypeInv, NEW line \in Seq(Chars), NEW temp \in Stack, Parse(line, temp)
  PROVE  /\ angle_' \in Int /\ xCoord_' \in Int /\ yCoord_' \in Int
         /\ Read(line) # G1 => UNCHANGED <<xCoord_, yCoord_>>
<1>1. angle_ \in Int /\ xCoord_ \in Int /\ yCoord_ \in Int
  BY DEF TypeInv
<1>2. CASE Read(line) = M1
  <2>1. angle_' \in Angles(line) /\ xCoord_' = xCoord_ /\ yCoord_' = yCoord_
    BY <1>2, ParseIs
  <2>2. PICK i : i = First(line, Space)
    OBVIOUS
  <2>3. PICK word : word = WordAfter(line, i)
    OBVIOUS
  <2>4. Angles(line) = IF LeadingDigits(word) = <<>> THEN Garbage
                       ELSE {Reading(LeadingDigits(word))}
    BY <2>2, <2>3 DEF Angles, First
  <2>5. Reading(LeadingDigits(word)) \in Int
    <3>1. Len(line) \in Nat
      BY LenProperties
    <3>2. First(line, Space) = 0 \/ First(line, Space) \in 1..Len(line)
      BY <3>1, FirstIs
    <3>3. i \in 0..Len(line)
      BY <2>2, <3>1, <3>2
    <3>4. word \in Seq(Chars)
      BY <2>3, <3>3, WordIs
    <3>5. PICK j \in 0..Len(word) : LeadingDigits(word) = SubSeq(word, 1, j)
      BY <3>4, LenProperties, LeadingDigitsIs
    <3>6. Len(SubSeq(word, 1, j)) \in Nat
      BY <3>4, <3>5, LenProperties
    <3>7. QED
      BY <3>5, <3>6, ReadingType
  <2>6. angle_' \in Int
    BY <2>1, <2>4, <2>5, GCodeAssumption
  <2>7. QED
    BY <1>1, <2>1, <2>6
<1>3. CASE Read(line) = G1
  <2>1. /\ xCoord_' = ParseCoords(line, temp).x
        /\ yCoord_' = ParseCoords(line, temp).y /\ angle_' = angle_
    BY <1>3, ParseIs
  <2>2. temp \in Temps
    BY StackTemps
  <2>3. ParseCoords(line, temp) \in ParseStates
    <3>0. xCoord_ \in Int /\ yCoord_ \in Int
      BY <1>1
    <3>1. PICK f :
            /\ f \in [0..Len(line) -> ParseStates]
            /\ f[0] = [temp |-> temp, index |-> 0, x |-> xCoord_, y |-> yCoord_]
            /\ \A i \in 1..Len(line) : f[i] = ParseChar(line, f[i - 1], i)
            /\ ParseCoords(line, temp) = f[Len(line)]
      <4>1. xCoord_ \in Int
        BY <3>0
      <4>2. yCoord_ \in Int
        BY <3>0
      <4>3. QED
        BY ONLY <2>2, <4>1, <4>2, line \in Seq(Chars), ParsedSequence
    <3>2. Len(line) \in 0..Len(line)
      BY LenProperties
    <3>3. QED
      BY <3>1, <3>2
  <2>4. QED
    BY <1>1, <1>3, <2>1, <2>3 DEF ParseStates
<1>4. CASE Read(line) \notin {M1, G1}
  <2>1. angle_' = angle_ /\ xCoord_' = xCoord_ /\ yCoord_' = yCoord_
    BY <1>4, ParseIs
  <2>2. QED
    BY <1>1, <2>1
<1>5. QED
  BY <1>2, <1>3, <1>4

(* The command of a completed line. *)
LEMMA CompletedCommand ==
  ASSUME Arriving, NEW n, NEW q, NEW line, NEW m, NEW d,
         CompletedAs(n, q, line, m, d), Read(line) # None
  PROVE  /\ d = 0 /\ line = Body(sent[m]) /\ Read(line) = sent[m].code
         /\ Read(line) \in {M10, M1, G1}
<1>1. sent[m] \in Lines
  BY DEF CompletedAs, Arriving
<1>2. PICK l : l = sent[m]
  OBVIOUS
<1>3. /\ d \in 0..Len(Body(l)) /\ line \in Seq(Chars)
      /\ Len(line) = Len(Body(l)) - d
      /\ \A j \in 1..Len(line) : line[j] = Body(l)[d + j]
  BY <1>2 DEF CompletedAs
<1>4. QED
  BY <1>1, <1>2, <1>3, ReadTail

(* A packet that completes no line. *)
LEMMA FragmentStep ==
  ASSUME TypeInv, NEW n \in 1..MaxPacket, n <= Len(wire), Fragment(SubSeq(wire, 1, n))
  PROVE  /\ n \in 1..Len(wire) /\ wire' = SubSeq(wire, n + 1, Len(wire))
         /\ \A i \in 1..n : wire[i] # NewLine
         /\ buffStr' \in Seq(Chars) /\ Len(buffStr') <= MaxPacket
         /\ UNCHANGED <<sent, members, commands>>
<1>1. PICK w, p : w = wire /\ p = SubSeq(w, 1, n)
  OBVIOUS
<1>2. w \in Seq(Chars) /\ Len(w) \in Nat
  BY <1>1, WireIs DEF TypeInv
<1>3. n \in 1..Len(w) /\ n <= MaxPacket
  BY <1>1, <1>2, GCodeAssumption
<1>4. p \in Seq(Chars) /\ Len(p) = n
  BY <1>1, <1>2, <1>3
<1>5. /\ buffStr' = p /\ wire' = SubSeq(wire, Len(p) + 1, Len(wire))
      /\ UNCHANGED <<sent, members, commands>>
  BY <1>1 DEF Fragment, Assembled
<1>6. \A i \in 1..n : w[i] # NewLine
  <2>1. ~ Contains(p, NewLine)
    BY <1>1 DEF Fragment
  <2>2. \A i \in 1..n : p[i] = w[i] /\ p[i] # NewLine
    BY <1>1, <1>2, <1>3, <1>4, <2>1 DEF Contains
  <2>3. QED
    BY <2>2
<1>7. QED
  BY <1>1, <1>3, <1>4, <1>5, <1>6

LEMMA TypeStep ==
  ASSUME TypeInv, [Next]_vars
  PROVE  TypeInv'
<1>1. CASE UNCHANGED vars
  <2>1. UNCHANGED <<sent, wire, buffStr, angle_, xCoord_, yCoord_, commands>>
    BY <1>1 DEF vars, members
  <2>2. QED
    BY <2>1 DEF TypeInv, Arriving
<1>2. ASSUME NEW n \in 1..MaxPacket, n <= Len(wire), Fragment(SubSeq(wire, 1, n))
      PROVE  TypeInv'
  <2>1. /\ n \in 1..Len(wire) /\ wire' = SubSeq(wire, n + 1, Len(wire))
        /\ buffStr' \in Seq(Chars) /\ Len(buffStr') <= MaxPacket
        /\ sent' = sent /\ angle_' = angle_ /\ xCoord_' = xCoord_
        /\ yCoord_' = yCoord_ /\ commands' = commands
    BY <1>2, FragmentStep DEF members
  <2>2. Arriving'
    BY <2>1, WireStep DEF TypeInv
  <2>3. QED
    BY <2>1, <2>2 DEF TypeInv
<1>3. ASSUME NEW n \in 1..MaxPacket, n <= Len(wire), NEW temp \in Stack,
             Complete(SubSeq(wire, 1, n), temp)
      PROVE  TypeInv'
  <2>1. n \in 1..Len(wire)
    <3>1. Len(wire) \in Nat
      BY WireIs DEF TypeInv
    <3>2. QED
      BY <1>3, <3>1, GCodeAssumption
  <2>2. PICK q, line, m, d : Completes(n, q, line, m, d, temp)
    BY <1>3, <2>1, CompleteStep DEF TypeInv
  <2>3. Arriving'
    BY <2>1, <2>2, WireStep DEF TypeInv, Completes
  <2>4. /\ line \in Seq(Chars) /\ Parse(line, temp) /\ buffStr' = line
        /\ Len(line) <= MaxPacket /\ m \in 1..MaxLines
    <3>1. line \in Seq(Chars) /\ Len(line) = q - 1 /\ q \in 1..n /\ m \in 1..MaxLines
      BY <2>2 DEF Completes, CompletedAs
    <3>2. Len(line) <= MaxPacket
      BY <3>1, GCodeAssumption
    <3>3. QED
      BY <2>2, <3>1, <3>2 DEF Completes
  <2>5. angle_' \in Int /\ xCoord_' \in Int /\ yCoord_' \in Int
    BY <2>4, ParseType
  <2>6. commands' \in Seq(Command)
    <3>1. commands \in Seq(Command)
      BY DEF TypeInv
    <3>2. CASE Read(line) = None
      BY <2>2, <3>1, <3>2 DEF Completes
    <3>3. CASE Read(line) # None
      <4>1. PICK c : c = [line |-> m, code |-> Read(line), angle |-> angle_',
                          x |-> xCoord_', y |-> yCoord_', temp |-> Used(line, temp)]
        OBVIOUS
      <4>2. Read(line) \in {M10, M1, G1}
        BY <2>2, <3>3, CompletedCommand DEF TypeInv, Completes
      <4>3. Used(line, temp) \in Seq(Chars)
        BY StackTemps DEF Used, Temps
      <4>4. c \in Command
        BY <2>4, <2>5, <4>1, <4>2, <4>3 DEF Command
      <4>5. commands' = Append(commands, c)
        BY <2>2, <3>3, <4>1 DEF Completes
      <4>6. QED
        BY <3>1, <4>4, <4>5
    <3>4. QED
      BY <3>2, <3>3
  <2>7. QED
    BY <2>3, <2>4, <2>5, <2>6 DEF TypeInv
<1>4. QED
  BY <1>1, <1>2, <1>3 DEF Next

LEMMA TypeInit ==
  ASSUME Init
  PROVE  TypeInv
<1>1. sent \in [1..MaxLines -> Lines] /\ wire = TextOf(sent)
  BY DEF Init
<1>2. TextOf(sent) \in Seq(Chars) /\ Len(TextOf(sent)) \in Nat
  <2>1. sent \in Seq(Lines)
    <3>1. MaxLines \in Nat
      BY GCodeAssumption
    <3>2. QED
      BY ONLY <1>1, <3>1, FunctionIsSeq
  <2>2. PICK tt : tt = Texts(sent)
    OBVIOUS
  <2>3. tt \in Seq(Seq(Chars)) /\ TextOf(sent) = FlattenSeq(tt)
    BY <2>1, <2>2, TextsAre
  <2>4. QED
    BY <2>3, FlattenSeqType, LenProperties
<1>3. Arriving
  <2>1. PICK t : t = TextOf(sent)
    OBVIOUS
  <2>2. t \in Seq(Chars) /\ Len(t) \in Nat /\ wire = t
    BY <1>1, <1>2, <2>1
  <2>3. Len(t) - Len(t) + 1 = 1
    BY <2>2
  <2>4. SubSeq(t, Len(t) - Len(t) + 1, Len(t)) = t
    BY <2>2, <2>3
  <2>5. QED
    BY <1>1, <2>1, <2>2, <2>4 DEF Arriving
<1>4. buffStr \in Seq(Chars) /\ Len(buffStr) <= MaxPacket
  BY GCodeAssumption DEF Init
<1>5. angle_ \in Int /\ xCoord_ \in Int /\ yCoord_ \in Int
  BY GCodeAssumption DEF Init
<1>6. commands \in Seq(Command)
  BY DEF Init
<1>7. QED
  BY <1>3, <1>4, <1>5, <1>6 DEF TypeInv

(* The variables keep their types, and an assembled line is never longer     *)
(* than a packet, for all lines that LinesAssumption admits.               *)
THEOREM GCodeTypeCorrect == Spec => []TypeOK
<1>1. TypeInv => TypeOK
  <2> SUFFICES ASSUME TypeInv PROVE TypeOK
    OBVIOUS
  <2>1. /\ commands \in Seq(Command) /\ sent \in [1..MaxLines -> Lines]
        /\ Len(buffStr) <= MaxPacket
        /\ angle_ \in Int /\ xCoord_ \in Int /\ yCoord_ \in Int
    BY DEF TypeInv, Arriving
  <2>2. ASSUME NEW i \in DOMAIN commands
        PROVE  commands[i].line \in 1..MaxLines /\ commands[i].code \in {M10, M1, G1}
    <3>1. commands[i] \in Command
      BY <2>1
    <3>2. QED
      BY <3>1 DEF Command
  <2>3. QED
    BY <2>1, <2>2 DEF TypeOK
<1>2. QED
  BY <1>1, TypeInit, TypeStep, PTL DEF Spec

-----------------------------------------------------------------------------
(* The commands are lines of the host.                                     *)

(* A step leaves the commands alone, or completes a line. *)
LEMMA NextIs ==
  ASSUME TypeInv, Next
  PROVE  \E n \in 1..Len(wire) :
           \/ /\ \A i \in 1..n : wire[i] # NewLine
              /\ wire' = SubSeq(wire, n + 1, Len(wire)) /\ sent' = sent
              /\ xCoord_' = xCoord_ /\ yCoord_' = yCoord_ /\ commands' = commands
           \/ \E q, line, m, d, temp : Completes(n, q, line, m, d, temp)
<1>1. ASSUME NEW n \in 1..MaxPacket, n <= Len(wire) PROVE n \in 1..Len(wire)
  <2>1. Len(wire) \in Nat
    BY WireIs DEF TypeInv
  <2>2. QED
    BY <1>1, <2>1, GCodeAssumption
<1>2. PICK n \in 1..MaxPacket :
        /\ n <= Len(wire)
        /\ \/ Fragment(SubSeq(wire, 1, n))
           \/ \E temp \in Stack : Complete(SubSeq(wire, 1, n), temp)
  BY DEF Next
<1>3. n \in 1..Len(wire)
  BY <1>1, <1>2
<1>4. CASE Fragment(SubSeq(wire, 1, n))
  <2>1. /\ wire' = SubSeq(wire, n + 1, Len(wire))
        /\ \A i \in 1..n : wire[i] # NewLine
        /\ UNCHANGED <<sent, members, commands>>
    BY <1>2, <1>4, FragmentStep
  <2>2. QED
    BY <1>3, <2>1 DEF members
<1>5. CASE \E temp \in Stack : Complete(SubSeq(wire, 1, n), temp)
  <2>1. \E q, line, m, d, temp : Completes(n, q, line, m, d, temp)
    BY <1>3, <1>5, CompleteStep DEF TypeInv
  <2>2. QED
    BY <1>3, <2>1
<1>6. QED
  BY <1>2, <1>4, <1>5

(* A completed line is queued as the command that it is, after all before it. *)
LEMMA QueuedComplete ==
  ASSUME TypeInv, Queued, NEW n \in 1..Len(wire), NEW q, NEW line, NEW m, NEW d,
         NEW temp, Completes(n, q, line, m, d, temp), Read(line) # None
  PROVE  Queued'
<1>1. PICK c : c = [line |-> m, code |-> Read(line), angle |-> angle_',
                    x |-> xCoord_', y |-> yCoord_', temp |-> Used(line, temp)]
  OBVIOUS
<1>2. commands' = Append(commands, c) /\ sent' = sent
  BY <1>1 DEF Completes
<1>3. c.line = m /\ c.code = sent[m].code
  BY <1>1, CompletedCommand DEF TypeInv, Completes
<1>4. commands \in Seq(Command) /\ Len(commands) \in Nat
  BY DEF TypeInv
<1>5. PICK k \in Nat : k = Len(commands)
  BY <1>4
<1>6. /\ Len(commands') = k + 1 /\ commands'[k + 1] = c
      /\ \A i \in 1..k : commands'[i] = commands[i]
  BY <1>2, <1>4, <1>5
<1>7. /\ m \in 1..MaxLines /\ q \in 1..n /\ Len(wire) - q = After(m)
      /\ n \in Nat /\ Len(wire) \in Nat /\ After(m) \in Int
  BY WireIs DEF TypeInv, Completes, CompletedAs
<1>8. Len(wire') = Len(wire) - n
  BY WireStep DEF TypeInv, Completes
<1>9. Len(wire') <= After(m)
  BY <1>7, <1>8
<1>10. ASSUME k > 0 PROVE commands[k].line < m
  <2>1. k \in 1..Len(commands) /\ Len(wire) <= After(commands[k].line)
    BY <1>5, <1>10 DEF Queued
  <2>2. commands[k] \in Command
    BY <1>4, <2>1
  <2>3. PICK j : j = commands[k].line
    OBVIOUS
  <2>4. j \in 1..MaxLines
    BY <2>2, <2>3 DEF Command
  <2>5. MaxLines \in Nat
    BY GCodeAssumption
  <2>6. j \in 0..MaxLines /\ m \in 0..MaxLines
    BY <1>7, <2>4, <2>5
  <2>7. m < j => After(j) < After(m)
    BY <2>6, AfterIs DEF TypeInv
  <2>8. After(j) \in Int
    BY <2>6, AfterIs, SentIs DEF TypeInv
  <2>9. ~(j = m) /\ ~(m < j)
    <3>1. PICK a \in Int, b \in Int, w \in Int :
            a = After(m) /\ b = After(j) /\ w = Len(wire)
      BY <1>7, <2>8
    <3>2. w - q = a /\ w <= b /\ q \in Int /\ q >= 1
      BY <1>7, <2>1, <2>3, <3>1
    <3>3. a < b
      BY ONLY <3>1, <3>2
    <3>4. j = m => a = b
      BY <3>1
    <3>5. m < j => b < a
      BY <2>7, <3>1
    <3>6. QED
      BY <3>3, <3>4, <3>5, a \in Int, b \in Int
  <2>10. QED
    BY <1>7, <2>3, <2>4, <2>5, <2>9
<1>11. \A i \in 1..Len(commands') :
         commands'[i].code = sent'[commands'[i].line].code
  <2> SUFFICES ASSUME NEW i \in 1..(k + 1)
               PROVE  commands'[i].code = sent[commands'[i].line].code
    BY <1>2, <1>6
  <2>1. CASE i = k + 1
    BY <1>3, <1>6, <2>1
  <2>2. CASE i \in 1..k
    BY <1>5, <1>6, <2>2 DEF Queued
  <2>3. QED
    BY <2>1, <2>2
<1>12. \A i \in 2..Len(commands') : commands'[i - 1].line < commands'[i].line
  <2> SUFFICES ASSUME NEW i \in 2..(k + 1)
               PROVE  commands'[i - 1].line < commands'[i].line
    BY <1>6
  <2>1. PICK j \in 1..k : j = i - 1
    OBVIOUS
  <2>2. commands'[j] = commands[j]
    BY <1>6
  <2>3. CASE i = k + 1
    <3>1. j = k /\ k > 0
      BY <2>1, <2>3
    <3>2. QED
      BY <1>3, <1>6, <1>10, <2>1, <2>2, <2>3, <3>1
  <2>4. CASE i \in 2..k
    <3>1. commands[i - 1].line < commands[i].line
      BY <1>5, <2>4 DEF Queued
    <3>2. commands'[i] = commands[i]
      BY <1>6, <2>4
    <3>3. QED
      BY <2>1, <2>2, <3>1, <3>2
  <2>5. QED
    BY <2>3, <2>4
<1>13. ASSUME NEW i \in 1..Len(commands'), i = Len(commands')
       PROVE  (Len(wire) <= After(commands[i].line))'
  <2>1. commands'[i].line = m
    BY <1>3, <1>6, <1>13
  <2>2. After(commands[i].line)' = After(m)
    BY <1>2, <2>1 DEF After
  <2>3. QED
    BY <1>9, <2>2
<1>14. QED
  BY <1>11, <1>12, <1>13 DEF Queued

LEMMA QueuedStep ==
  ASSUME TypeInv, Queued, [Next]_vars
  PROVE  Queued'
<1>1. CASE UNCHANGED vars
  <2>1. sent' = sent /\ wire' = wire /\ commands' = commands
    BY <1>1 DEF vars
  <2>2. QED
    BY <2>1 DEF Queued, After
<1>2. ASSUME NEW n \in 1..Len(wire), wire' = SubSeq(wire, n + 1, Len(wire)),
             sent' = sent, commands' = commands
      PROVE  Queued'
  <2>1. Len(wire') = Len(wire) - n /\ Len(wire) \in Nat
    BY <1>2, WireStep DEF TypeInv
  <2>2. ASSUME NEW i \in 1..Len(commands'), i = Len(commands')
        PROVE  (Len(wire) <= After(commands[i].line))'
    <3>1. Len(wire) <= After(commands[i].line)
      BY <1>2, <2>2 DEF Queued
    <3>2. After(commands[i].line) \in Int
      <4>1. commands[i] \in Command
        BY <1>2 DEF TypeInv
      <4>2. commands[i].line \in 0..MaxLines
        BY <4>1, GCodeAssumption DEF Command
      <4>3. QED
        BY <4>2, AfterIs, SentIs DEF TypeInv
    <3>3. n \in Int /\ n >= 1
      BY <2>1
    <3>4. After(commands[i].line)' = After(commands[i].line)
      BY <1>2 DEF After
    <3>5. QED
      BY <2>1, <3>1, <3>2, <3>3, <3>4
  <2>3. QED
    BY <1>2, <2>2 DEF Queued
<1>3. ASSUME NEW n \in 1..Len(wire), NEW q, NEW line, NEW m, NEW d,
             NEW temp, Completes(n, q, line, m, d, temp)
      PROVE  Queued'
  <2>1. CASE Read(line) = None
    <3>1. /\ wire' = SubSeq(wire, n + 1, Len(wire))
          /\ sent' = sent /\ commands' = commands
      BY <1>3, <2>1 DEF Completes
    <3>2. QED
      BY <1>2, <3>1
  <2>2. CASE Read(line) # None
    BY <1>3, <2>2, QueuedComplete
  <2>3. QED
    BY <2>1, <2>2
<1>4. CASE Next
  <2>1. PICK n \in 1..Len(wire) :
          \/ /\ \A i \in 1..n : wire[i] # NewLine
             /\ wire' = SubSeq(wire, n + 1, Len(wire)) /\ sent' = sent
             /\ xCoord_' = xCoord_ /\ yCoord_' = yCoord_ /\ commands' = commands
          \/ \E q, line, m, d, temp : Completes(n, q, line, m, d, temp)
    BY <1>4, NextIs
  <2>2. QED
    BY <1>2, <1>3, <2>1
<1>5. QED
  BY <1>1, <1>4

(* However the packets cut the lines, what is queued are lines of the host,   *)
(* in their order, each at most once and as the command it is: the end of a  *)
(* line whose start is lost never reads as a command, because M and G occur  *)
(* nowhere but at the start of a line.                                     *)
THEOREM GCodeCommandsWereSent == Spec => []CommandsWereSent
<1>1. Init => Queued
  BY DEF Init, Queued
<1>2. TypeInv /\ Queued => CommandsWereSent
  <2> SUFFICES ASSUME TypeInv, Queued PROVE CommandsWereSent
    OBVIOUS
  <2>1. commands \in Seq(Command) /\ DOMAIN commands = 1..Len(commands)
        /\ Len(commands) \in Nat
    BY DEF TypeInv
  <2>2. \A i \in 1..Len(commands) : i > 1 => i \in 2..Len(commands)
    BY <2>1
  <2>3. QED
    BY <2>1, <2>2 DEF Queued, CommandsWereSent
<1>3. QED
  BY <1>1, <1>2, TypeInit, TypeStep, QueuedStep, PTL DEF Spec

-----------------------------------------------------------------------------
(* atof reads on behind a number.                                          *)

LEMMA PowerSum ==
  ASSUME NEW a \in Nat, NEW b \in Nat
  PROVE  Power(a + b) = Power(a) * Power(b)
<1> DEFINE P == {n \in Nat : Power(a + n) = Power(a) * Power(n)}
<1>1. 0 \in P
  <2>1. a + 0 = a /\ Power(0) = 1 /\ Power(a) \in Nat
    BY PowerIs
  <2>2. QED
    BY <2>1
<1>2. ASSUME NEW n \in P PROVE n + 1 \in P
  <2>1. PICK m \in Nat : m = a + n
    OBVIOUS
  <2>2. Power(m + 1) = 10 * Power(m) /\ Power(n + 1) = 10 * Power(n)
    BY <2>1, PowerIs
  <2>3. PICK x \in Nat, y \in Nat : x = Power(a) /\ y = Power(n)
    BY PowerIs
  <2>4. Power(m) = x * y
    BY <2>1, <2>3
  <2>5. 10 * (x * y) = x * (10 * y)
    BY ONLY x \in Nat, y \in Nat
  <2>6. PICK k \in Nat, l \in Nat : k = a + (n + 1) /\ k = m + 1 /\ l = n + 1
    BY <2>1
  <2>7. Power(k) = 10 * (x * y) /\ Power(l) = 10 * y
    BY <2>2, <2>3, <2>4, <2>6
  <2>8. Power(k) = Power(a) * Power(l)
    BY <2>3, <2>5, <2>7
  <2>9. QED
    BY <2>6, <2>8
<1>3. P = Nat
  <2> HIDE DEF P
  <2>1. P \in SUBSET Nat
    BY DEF P
  <2>2. QED
    BY <1>1, <1>2, <2>1, NatSetInduction
<1>4. QED
  BY <1>3

(* what digits behind a number add to its reading *)
ReadsOn(v, r, m) ==
  \E x \in Nat : x < Power(m) /\ v = r * Power(m) + x

LEMMA ReadsOnStep ==
  ASSUME NEW v, NEW r \in Int, NEW m \in Nat, ReadsOn(v, r, m),
         NEW c, Contains(Digits, c)
  PROVE  ReadsOn(ReadOn(v, c), r, m + 1)
<1>1. PICK x \in Nat : x < Power(m) /\ v = r * Power(m) + x
  BY DEF ReadsOn
<1>2. PICK d \in 0..9 : d = DigitOf(c)
  BY DigitIs
<1>3. PICK p \in Nat : p = Power(m) /\ Power(m + 1) = 10 * p
  BY PowerIs
<1>4. ReadOn(v, c) = 10 * v + d
  BY <1>2, DigitIs DEF ReadOn
<1>5. PICK y \in Nat : y = 10 * x + d
  OBVIOUS
<1>6. y < 10 * p
  BY <1>1, <1>3, <1>5
<1>7. 10 * (r * p + x) + d = r * (10 * p) + y
  BY ONLY <1>5, r \in Int, p \in Nat, x \in Nat, y \in Nat, d \in 0..9
<1>8. QED
  BY <1>1, <1>3, <1>4, <1>6, <1>7 DEF ReadsOn

(* w is how t starts, and only digits follow. *)
Continues(t, w) ==
  /\ Len(t) \in Nat /\ Len(w) \in 0..Len(t)
  /\ \A j \in 1..Len(w) : t[j] = w[j]
  /\ \A j \in Len(w) + 1..Len(t) : Contains(Digits, t[j])

LEMMA ReadingContinues ==
  ASSUME NEW t, NEW w, Continues(t, w)
  PROVE  Reading(w) \in Int /\ ReadsOn(Reading(t), Reading(w), Len(t) - Len(w))
<1>1. PICK n \in Nat, k \in Nat : n = Len(t) /\ k = Len(w)
  BY DEF Continues
<1>2. PICK f : /\ f \in [0..n -> Int] /\ f[0] = 0 /\ Reading(t) = f[n]
               /\ \A i \in 1..n : f[i] = ReadOn(f[i - 1], t[i])
  BY <1>1, ReadingSequence
<1>3. PICK g : /\ g \in [0..k -> Int] /\ g[0] = 0 /\ Reading(w) = g[k]
               /\ \A i \in 1..k : g[i] = ReadOn(g[i - 1], w[i])
  BY <1>1, ReadingSequence
<1>4. k <= n /\ (\A j \in 1..k : t[j] = w[j])
      /\ \A j \in k + 1..n : Contains(Digits, t[j])
  BY <1>1 DEF Continues
<1>5. f[k] = g[k]
  <2>1. \A i \in 1..k : f[i - 1] = g[i - 1] => f[i] = g[i]
    BY <1>2, <1>3, <1>4
  <2>2. f[0] = g[0]
    BY <1>2, <1>3
  <2>3. QED
    BY <2>1, <2>2, IteratesAgree
<1>6. PICK r \in Int : r = f[k]
  BY <1>2, <1>4
<1> DEFINE P == {m \in Nat : k + m <= n => ReadsOn(f[k + m], r, m)}
<1>7. 0 \in P
  <2>1. f[k + 0] = r
    BY <1>6
  <2>2. 0 < Power(0) /\ r = r * Power(0) + 0
    BY PowerIs
  <2>3. ReadsOn(r, r, 0)
    BY <2>2 DEF ReadsOn
  <2>4. QED
    BY <2>1, <2>3
<1>8. ASSUME NEW m \in P PROVE m + 1 \in P
  <2>1. SUFFICES ASSUME k + (m + 1) <= n PROVE ReadsOn(f[k + (m + 1)], r, m + 1)
    OBVIOUS
  <2>2. PICK i \in 1..n : i = k + (m + 1) /\ i - 1 = k + m /\ i \in k + 1..n
    BY <2>1
  <2>3. ReadsOn(f[k + m], r, m) /\ m \in Nat
    BY <2>1
  <2>4. f[i] = ReadOn(f[k + m], t[i])
    BY <1>2, <2>2
  <2>5. Contains(Digits, t[i])
    BY <1>4, <2>2
  <2>6. ReadsOn(ReadOn(f[k + m], t[i]), r, m + 1)
    BY <2>3, <2>5, ReadsOnStep
  <2>7. QED
    BY <2>2, <2>4, <2>6
<1>9. P = Nat
  <2> HIDE DEF P
  <2>1. P \in SUBSET Nat
    BY DEF P
  <2>2. QED
    BY <1>7, <1>8, <2>1, NatSetInduction
<1>10. PICK m \in Nat : m = n - k /\ k + m = n
  BY <1>4
<1>11. m \in P
  BY <1>9
<1>12. ReadsOn(f[n], r, m)
  BY <1>10, <1>11
<1>13. QED
  BY <1>1, <1>2, <1>3, <1>5, <1>6, <1>10, <1>12

LEMMA DecimalsContinue ==
  ASSUME NEW t, NEW w, Continues(t, w), Contains(w, ".")
  PROVE  Decimals(t) = Decimals(w) + (Len(t) - Len(w)) /\ Decimals(w) \in Nat
<1>1. PICK n \in Nat, k \in Nat : n = Len(t) /\ k = Len(w) /\ k <= n
  BY DEF Continues
<1>2. PICK a, b : a = First(t, ".") /\ b = First(w, ".")
  OBVIOUS
<1>3. /\ Decimals(t) = IF a = 0 THEN 0 ELSE n - a
      /\ Decimals(w) = IF b = 0 THEN 0 ELSE k - b
  BY <1>1, <1>2 DEF Decimals, First, SelectInSeq
<1>4. \A j \in 1..k : t[j] = w[j]
  BY <1>1 DEF Continues
<1>5. PICK i \in 1..k : w[i] = "."
  BY <1>1 DEF Contains
<1>6. b \in 1..k /\ w[b] = "." /\ \A j \in 1..b - 1 : w[j] # "."
  BY <1>1, <1>2, <1>5, FirstIs
<1>7. a \in 1..n /\ t[a] = "." /\ \A j \in 1..a - 1 : t[j] # "."
  <2>1. b \in 1..n /\ t[b] = "."
    BY <1>1, <1>4, <1>6
  <2>2. QED
    BY <1>1, <1>2, <2>1, FirstIs
<1>8. a = b
  <2>1. ~(b \in 1..a - 1)
    BY <1>4, <1>6, <1>7
  <2>2. a < b => a \in 1..k /\ a \in 1..b - 1
    BY <1>6, <1>7
  <2>3. ~(a < b)
    BY <1>4, <1>6, <1>7, <2>2
  <2>4. QED
    BY <1>6, <1>7, <2>1, <2>3
<1>9. QED
  BY <1>1, <1>3, <1>6, <1>7, <1>8

(* A multiple of b and a rest below m times b, divided by b. *)
LEMMA Quotient ==
  ASSUME NEW b \in Nat, b > 0, NEW z \in Int, NEW m \in Nat,
         NEW y \in Nat, y < b * m
  PROVE  (b * z + y) \div b - z \in 0..m - 1
<1>1. PICK a \in Int : a = b * z + y
  OBVIOUS
<1>2. PICK q \in Int : q = a \div b /\ b * q <= a /\ a < b * (q + 1)
  BY <1>1
<1>3. b * (q + 1) = b * q + b
  OBVIOUS
<1>4. z < q + 1
  <2>1. b * z < b * (q + 1)
    BY <1>1, <1>2
  <2>2. PICK x \in Int : x = q + 1
    OBVIOUS
  <2>3. b * z < b * x
    BY <2>1, <2>2
  <2>4. z < x
    BY ONLY <2>3, b \in Nat, b > 0, z \in Int, x \in Int
  <2>5. QED
    BY <2>2, <2>4
<1>5. q < z + m
  <2>1. b * q < b * z + b * m
    BY <1>1, <1>2
  <2>2. PICK x \in Int : x = z + m
    OBVIOUS
  <2>3. b * x = b * z + b * m
    BY ONLY <2>2, b \in Nat, z \in Int, m \in Nat
  <2>4. b * q < b * x
    BY <2>1, <2>3
  <2>5. q < x
    BY ONLY <2>4, b \in Nat, b > 0, q \in Int, x \in Int
  <2>6. QED
    BY <2>2, <2>5
<1>6. QED
  BY <1>1, <1>2, <1>4, <1>5

(* Digits that follow a number with a point change less than its last place. *)
LEMMA ValueContinues ==
  ASSUME NEW t, NEW w, Continues(t, w), Contains(w, "."), Decimals(w) <= Places
  PROVE  Value(t) - Value(w) \in 0..Power(Places - Decimals(w)) - 1
<1>1. PICK e \in Nat : e = Len(t) - Len(w)
  BY DEF Continues
<1>2. PICK d \in Nat : d = Decimals(w)
  BY DecimalsContinue
<1>3. PICK c \in Nat : c = Places - d /\ Places = d + c
  BY <1>2, GCodeAssumption
<1>4. PICK r \in Int : r = Reading(w) /\ ReadsOn(Reading(t), r, e)
  BY <1>1, ReadingContinues
<1>5. PICK x \in Nat : x < Power(e) /\ Reading(t) = r * Power(e) + x
  BY <1>4 DEF ReadsOn
<1>6. PICK pe \in Nat, pd \in Nat, pc \in Nat :
        /\ pe = Power(e) /\ pd = Power(d) /\ pc = Power(c)
        /\ pe > 0 /\ pd > 0 /\ pc > 0
  BY PowerIs
<1>7. Power(Places) = pd * pc
  BY <1>3, <1>6, PowerSum
<1>8. Decimals(t) = d + e
  BY <1>1, <1>2, DecimalsContinue
<1>9. Power(Decimals(t)) = pd * pe
  BY <1>6, <1>8, PowerSum
<1>10. Value(w) = r * pc
  <2>1. Value(w) = (r * (pd * pc)) \div pd
    BY <1>2, <1>4, <1>6, <1>7 DEF Value
  <2>2. PICK z \in Int : z = r * pc
    OBVIOUS
  <2>3. r * (pd * pc) = pd * z + 0
    BY ONLY <2>2, r \in Int, pd \in Nat, pc \in Nat
  <2>4. 0 < pd * 1
    BY <1>6
  <2>5. (pd * z + 0) \div pd - z \in 0..1 - 1
    BY <1>6, <2>4, Quotient
  <2>6. PICK v \in Int : v = (pd * z + 0) \div pd
    BY <1>6
  <2>7. v = z
    BY <2>5, <2>6
  <2>8. QED
    BY <2>1, <2>2, <2>3, <2>6, <2>7
<1>11. Value(t) = ((r * pe + x) * (pd * pc)) \div (pd * pe)
  BY <1>5, <1>6, <1>7, <1>9 DEF Value
<1>12. PICK b \in Nat, z \in Int, y \in Nat :
         b = pd * pe /\ z = r * pc /\ y = x * (pd * pc)
  OBVIOUS
<1>13. (r * pe + x) * (pd * pc) = b * z + y
  BY ONLY <1>12, r \in Int, pe \in Nat, x \in Nat, pd \in Nat, pc \in Nat
<1>14. b > 0 /\ y < b * pc
  <2>1. b > 0
    BY <1>6, <1>12
  <2>2. PICK u \in Nat : u = pd * pc /\ u > 0
    BY <1>6
  <2>3. x < pe
    BY <1>5, <1>6
  <2>4. x * u < pe * u
    BY ONLY <2>2, <2>3, x \in Nat, pe \in Nat, u \in Nat
  <2>5. b * pc = pe * u
    BY ONLY <1>12, <2>2, pd \in Nat, pe \in Nat, pc \in Nat, u \in Nat
  <2>6. QED
    BY <1>12, <2>1, <2>2, <2>4, <2>5
<1>15. (b * z + y) \div b - z \in 0..pc - 1
  BY <1>14, Quotient
<1>16. QED
  BY <1>2, <1>3, <1>6, <1>10, <1>11, <1>12, <1>13, <1>15

(* The start of a sequence. *)
LEMMA StartIs ==
  ASSUME NEW s \in Seq(Chars), NEW n \in Nat, n <= Len(s)
  PROVE  /\ SubSeq(s, 1, n) \in Seq(Chars) /\ Len(SubSeq(s, 1, n)) = n
         /\ \A j \in 1..n : SubSeq(s, 1, n)[j] = s[j]
<1>1. PICK k \in Nat : k = Len(s) /\ \A j \in 1..k : s[j] \in Chars
  BY LenProperties
<1>2. \A j \in 1..n : s[j] \in Chars
  BY <1>1
<1>3. 1 \in Int /\ n \in Int /\ n - 1 + 1 = n /\ \A j \in 1..n : 1 + j - 1 = j
  OBVIOUS
<1>4. PICK u : u = SubSeq(s, 1, n)
  OBVIOUS
<1>5. /\ u \in Seq(Chars) /\ Len(u) = IF 1 <= n THEN n - 1 + 1 ELSE 0
      /\ \A j \in 1..n - 1 + 1 : u[j] = s[1 + j - 1]
  BY <1>2, <1>3, <1>4, SubSeqProperties
<1>6. Len(u) = n
  BY <1>5
<1>7. \A j \in 1..n : u[j] = s[j]
  BY <1>3, <1>5
<1>8. QED
  BY <1>4, <1>5, <1>6, <1>7

(* The digits before the point are the whole part of a number. *)
LEMMA WholePart ==
  ASSUME NEW t \in Seq(Chars), IsNumber(t), t # <<>>, t[1] # ".",
         Decimals(t) <= Places
  PROVE  /\ LeadingDigits(t) # <<>>
         /\ Reading(LeadingDigits(t)) = Value(t) \div Power(Places)
<1>1. PICK k \in Nat : k = Len(t) /\ k > 0
  BY LenProperties
<1>2. PICK n \in 0..k :
        /\ LeadingDigits(t) = SubSeq(t, 1, n)
        /\ \A i \in 1..n : Contains(Digits, t[i])
        /\ \A m \in 0..k : (\A i \in 1..m : Contains(Digits, t[i])) => m <= n
  BY <1>1, LeadingDigitsIs
<1>3. \A i \in 1..k : Contains(Digits, t[i]) \/ t[i] = "."
  BY <1>1 DEF IsNumber
<1>4. n >= 1
  <2>1. \A i \in 1..1 : Contains(Digits, t[i])
    BY <1>1, <1>3
  <2>2. 1 \in 0..k
    BY <1>1
  <2>3. QED
    BY <1>2, <2>1, <2>2
<1>5. PICK f : f = SubSeq(t, 1, n)
  OBVIOUS
<1>6. f \in Seq(Chars) /\ Len(f) = n /\ \A j \in 1..n : f[j] = t[j]
  BY <1>1, <1>5
<1>7. f # <<>>
  BY <1>4, <1>6
<1>8. PICK p \in Nat : p = Power(Places) /\ p > 0
  BY PowerIs, GCodeAssumption
<1>9. PICK r \in Int : r = Reading(f)
  BY <1>6, ReadingType
<1>10. PICK v \in Int : v = Value(t)
  BY <1>1, ValueType
<1>11. v - r * p \in 0..p - 1
  <2>1. CASE n = k
    <3>1. Len(f) = Len(t) /\ \A j \in 1..Len(f) : f[j] = t[j]
      BY <1>1, <1>6, <2>1
    <3>2. f = t
      BY <1>6, <3>1, SeqEqual
    <3>3. ~Contains(t, ".")
      <4>1. ASSUME NEW i \in 1..k, t[i] = "." PROVE FALSE
        <5>1. Contains(Digits, ".")
          BY <1>2, <2>1, <4>1
        <5>2. ~Contains(Digits, ".")
          BY DEF Contains, Digits
        <5>3. QED
          BY <5>1, <5>2
      <4>2. QED
        BY <1>1, <4>1 DEF Contains
    <3>4. Decimals(t) = 0
      <4>1. PICK i : i = First(t, ".")
        OBVIOUS
      <4>2. i = 0
        BY <1>1, <3>3, <4>1, FirstIs DEF Contains
      <4>3. QED
        BY <4>1, <4>2 DEF Decimals, First, SelectInSeq
    <3>5. Power(0) = 1
      BY PowerIs
    <3>6. v = (r * p) \div 1
      BY <1>8, <1>9, <1>10, <3>2, <3>4, <3>5 DEF Value
    <3>7. PICK z \in Int : z = r * p
      OBVIOUS
    <3>8. z \div 1 = z
      OBVIOUS
    <3>9. QED
      BY <1>8, <3>6, <3>7, <3>8
  <2>2. CASE n < k
    <3>1. t[n + 1] = "."
      <4>1. n + 1 \in 1..k /\ n + 1 \in 0..k
        BY <2>2
      <4>2. ~Contains(Digits, t[n + 1])
        <5>1. ASSUME Contains(Digits, t[n + 1]) PROVE FALSE
          <6>1. \A i \in 1..n + 1 : Contains(Digits, t[i])
            BY <1>2, <5>1
          <6>2. n + 1 <= n
            BY <1>2, <4>1, <6>1
          <6>3. QED
            BY <6>2
        <5>2. QED
          BY <5>1
      <4>3. QED
        BY <1>3, <4>1, <4>2
    <3>2. PICK h \in Nat : h = n + 1 /\ h \in 1..k
      BY <2>2
    <3>3. PICK w : w = SubSeq(t, 1, h)
      OBVIOUS
    <3>4. w \in Seq(Chars) /\ Len(w) = h /\ \A j \in 1..h : w[j] = t[j]
      BY <1>1, <3>2, <3>3
    <3>5. w[h] = "." /\ Contains(w, ".")
      BY <3>1, <3>2, <3>4 DEF Contains
    <3>6. Continues(t, w)
      <4>1. ASSUME NEW j \in h + 1..k PROVE Contains(Digits, t[j])
        <5>1. j \in 1..k /\ h \in 1..k /\ j # h /\ t[h] = "."
          BY <3>1, <3>2
        <5>2. t[j] # "."
          BY <1>1, <5>1 DEF IsNumber
        <5>3. QED
          BY <1>3, <5>1, <5>2
      <4>2. QED
        BY <1>1, <3>2, <3>4, <4>1 DEF Continues
    <3>7. Decimals(w) = 0
      <4>1. PICK i : i = First(w, ".")
        OBVIOUS
      <4>2. i \in 1..h /\ w[i] = "."
        BY <3>2, <3>4, <3>5, <4>1, FirstIs
      <4>3. ~(i \in 1..n)
        <5>1. \A j \in 1..n : w[j] = t[j] /\ Contains(Digits, t[j])
          BY <1>2, <3>2, <3>4
        <5>2. ~Contains(Digits, ".")
          BY DEF Contains, Digits
        <5>3. QED
          BY <4>2, <5>1, <5>2
      <4>4. i = h
        BY <3>2, <4>2, <4>3
      <4>5. QED
        BY <3>4, <4>1, <4>4 DEF Decimals, First, SelectInSeq
    <3>8. Reading(w) = r
      <4>1. PICK g : /\ g \in [0..h -> Int] /\ g[0] = 0 /\ Reading(w) = g[h]
                     /\ \A i \in 1..h : g[i] = ReadOn(g[i - 1], w[i])
        BY <3>4, ReadingSequence
      <4>2. PICK e : /\ e \in [0..n -> Int] /\ e[0] = 0 /\ Reading(f) = e[n]
                     /\ \A i \in 1..n : e[i] = ReadOn(e[i - 1], f[i])
        BY <1>6, ReadingSequence
      <4>3. ASSUME NEW i \in 1..n, g[i - 1] = e[i - 1] PROVE g[i] = e[i]
        <5>1. w[i] = t[i] /\ f[i] = t[i] /\ i \in 1..h
          BY <1>6, <3>2, <3>4
        <5>2. g[i] = ReadOn(g[i - 1], t[i]) /\ e[i] = ReadOn(e[i - 1], t[i])
          BY <4>1, <4>2, <5>1
        <5>3. QED
          BY <4>3, <5>2
      <4>4. g[0] = e[0]
        BY <4>1, <4>2
      <4>5. g[n] = e[n]
        <5>1. n \in Nat
          OBVIOUS
        <5>2. QED
          BY ONLY <4>3, <4>4, <5>1, IteratesAgree
      <4>6. h \in 1..h /\ h - 1 = n
        BY <3>2
      <4>7. g[h] = g[n]
        BY <3>5, <4>1, <4>6 DEF ReadOn
      <4>8. QED
        BY <1>9, <4>1, <4>2, <4>5, <4>7
    <3>9. Value(w) = r * p
      <4>1. Power(0) = 1
        BY PowerIs
      <4>2. Value(w) = (r * p) \div 1
        BY <1>8, <3>7, <3>8, <4>1 DEF Value
      <4>3. PICK z \in Int : z = r * p
        OBVIOUS
      <4>4. z \div 1 = z
        OBVIOUS
      <4>5. QED
        BY <4>2, <4>3, <4>4
    <3>10. Places - 0 = Places /\ 0 <= Places
      BY GCodeAssumption
    <3>11. Value(t) - Value(w) \in 0..Power(Places - 0) - 1
      BY <3>5, <3>6, <3>7, <3>10, ValueContinues
    <3>12. QED
      BY <1>8, <1>10, <3>9, <3>10, <3>11
  <2>3. QED
    BY <2>1, <2>2
<1>12. v \div p = r
  <2>1. PICK y \in Nat, z \in Int : z = p * r /\ z = r * p /\ y = v - z
    BY <1>11
  <2>2. y < p * 1 /\ v = p * r + y
    <3>1. y < p
      BY <1>11, <2>1
    <3>2. QED
      BY ONLY <2>1, <3>1, p \in Nat, v \in Int, y \in Nat, z \in Int
  <2>3. (p * r + y) \div p - r \in 0..1 - 1
    BY <1>8, <2>2, Quotient
  <2>4. PICK x \in Int : x = v \div p
    BY <1>8
  <2>5. QED
    BY <2>2, <2>3, <2>4
<1>13. QED
  BY <1>2, <1>5, <1>7, <1>8, <1>9, <1>10, <1>12

(* A word stored from the start of temp on. *)
LEMMA StoredAt ==
  ASSUME NEW temp \in Temps, NEW w \in Seq(Chars), Len(w) \in 0..8
  PROVE  /\ Stored(temp, 0, w) \in Temps /\ Len(Stored(temp, 0, w)) = Len(temp)
         /\ \A j \in 1..Len(w) : Stored(temp, 0, w)[j] = w[j]
         /\ \A j \in Len(w) + 1..Len(temp) : Stored(temp, 0, w)[j] = temp[j]
<1>1. PICK k \in 0..8 : k = Len(w)
  OBVIOUS
<1>2. PICK z \in Nat : z = Len(temp) /\ z > 8
  BY LenProperties DEF Temps
<1>3. DOMAIN temp = 1..z /\ DOMAIN w = 1..k
  BY <1>1, <1>2 DEF Temps
<1>4. \A j \in 1..k : j \in DOMAIN temp /\ j - 0 \in DOMAIN w /\ j - 0 = j
  BY <1>2, <1>3
<1>5. \A j \in k + 1..z : j \in DOMAIN temp /\ j - 0 \notin DOMAIN w
  BY <1>2, <1>3
<1>6. \A j \in 1..k : Stored(temp, 0, w)[j] = w[j]
  BY <1>4 DEF Stored
<1>7. \A j \in k + 1..z : Stored(temp, 0, w)[j] = temp[j]
  BY <1>5 DEF Stored
<1>8. QED
  BY <1>1, <1>2, <1>6, <1>7, StoredType

(* No exponent without an e behind the number. *)
LEMMA NoExponent ==
  ASSUME NEW st \in Seq(Chars), NEW n \in 0..Len(st),
         n < Len(st) => st[n + 1] \notin ExponentLetters
  PROVE  Exponent(SubSeq(st, n + 1, Len(st))) = 0
<1>1. PICK t : t = SubSeq(st, n + 1, Len(st))
  OBVIOUS
<1>2. CASE n = Len(st)
  <2>1. t = <<>>
    BY <1>1, <1>2
  <2>2. QED
    BY <1>1, <2>1 DEF Exponent
<1>3. CASE n < Len(st)
  <2>1. t[1] = st[n + 1]
    BY <1>1, <1>3
  <2>2. QED
    BY <1>1, <1>3, <2>1 DEF Exponent
<1>4. QED
  BY <1>2, <1>3

LEMMA NumberLetters ==
  ASSUME NEW w, IsNumber(w), NEW j \in DOMAIN w
  PROVE  w[j] \notin ExponentLetters
<1>1. Contains(Digits, w[j]) \/ w[j] = "."
  BY DEF IsNumber
<1>2. ~Contains(Digits, "e") /\ ~Contains(Digits, "E")
  BY DEF Contains, Digits
<1>3. QED
  BY <1>1, <1>2 DEF ExponentLetters

(* A number with a point is read to within its last place, if no exponent    *)
(* stands in temp.                                                         *)
LEMMA AtofStored ==
  ASSUME NEW temp \in Temps, NEW w \in Seq(Chars), Len(w) \in 0..8,
         IsNumber(w), Contains(w, "."), Decimals(w) <= Places,
         \A j \in 1..Len(temp) : temp[j] \notin ExponentLetters
  PROVE  Atof(Stored(temp, 0, w)) - Value(w) \in 0..Power(Places - Decimals(w)) - 1
<1>1. PICK k \in 0..8 : k = Len(w)
  OBVIOUS
<1>2. PICK st \in Temps : st = Stored(temp, 0, w)
  BY StoredType
<1>3. PICK z \in Nat : st \in Seq(Chars) /\ z = Len(st) /\ z > 8 /\ z = Len(temp)
  BY <1>2, StoredAt, LenProperties DEF Temps
<1>4. /\ \A j \in 1..k : st[j] = w[j]
      /\ \A j \in k + 1..z : st[j] = temp[j]
  <2>1. /\ \A j \in 1..Len(w) : Stored(temp, 0, w)[j] = w[j]
        /\ \A j \in Len(w) + 1..Len(temp) : Stored(temp, 0, w)[j] = temp[j]
    BY StoredAt
  <2>2. QED
    BY <1>1, <1>2, <1>3, <2>1
<1>5. PICK n \in 0..z :
        /\ Atof(st) = Scaled(SubSeq(st, 1, n), Exponent(SubSeq(st, n + 1, z)))
        /\ IsNumber(SubSeq(st, 1, n))
        /\ \A m \in 0..z : IsNumber(SubSeq(st, 1, m)) => m <= n
  BY <1>3, AtofIs
<1>6. PICK t : t = SubSeq(st, 1, n)
  OBVIOUS
<1>7. t \in Seq(Chars) /\ Len(t) = n /\ \A j \in 1..n : t[j] = st[j]
  <2>1. n \in Nat /\ n <= Len(st)
    BY <1>3
  <2>2. QED
    BY <1>3, <1>6, <2>1, StartIs
<1>8. k <= n
  <2>1. PICK u : u = SubSeq(st, 1, k)
    OBVIOUS
  <2>2. u \in Seq(Chars) /\ Len(u) = k /\ \A j \in 1..k : u[j] = st[j]
    <3>1. k \in Nat /\ k <= Len(st)
      BY <1>3
    <3>2. QED
      BY <1>3, <2>1, <3>1, StartIs
  <2>3. u = w
    <3>1. Len(u) = Len(w) /\ \A j \in 1..Len(u) : u[j] = w[j]
      BY <1>1, <1>4, <2>2
    <3>2. QED
      BY <2>2, <3>1, SeqEqual
  <2>4. k \in 0..z
    BY <1>3
  <2>5. QED
    BY <1>5, <2>1, <2>3, <2>4
<1>9. Continues(t, w)
  <2>1. PICK p \in 1..k : w[p] = "."
    BY <1>1 DEF Contains
  <2>2. t[p] = "." /\ p \in DOMAIN t
    BY <1>4, <1>7, <1>8, <2>1
  <2>3. ASSUME NEW j \in k + 1..n PROVE Contains(Digits, t[j])
    <3>1. j \in DOMAIN t /\ j # p
      BY <1>7
    <3>2. t[j] # "."
      BY <1>5, <1>6, <2>2, <3>1 DEF IsNumber
    <3>3. QED
      BY <1>5, <1>6, <3>1, <3>2 DEF IsNumber
  <2>4. \A j \in 1..k : t[j] = w[j]
    BY <1>4, <1>7, <1>8
  <2>5. QED
    BY <1>1, <1>7, <1>8, <2>3, <2>4 DEF Continues
<1>10. Atof(st) = Value(t)
  <2>1. ASSUME n < z PROVE st[n + 1] \notin ExponentLetters
    <3>1. n + 1 \in k + 1..z /\ n + 1 \in 1..Len(temp)
      BY <1>3, <1>8, <2>1
    <3>2. QED
      BY <1>4, <3>1
  <2>2. Exponent(SubSeq(st, n + 1, z)) = 0
    BY <1>3, <2>1, NoExponent
  <2>3. QED
    BY <1>5, <1>6, <2>2, Unscaled
<1>11. QED
  BY <1>2, <1>9, <1>10, ValueContinues

(* Any number is read exactly, if what stands behind it does not go on with it. *)
LEMMA AtofExact ==
  ASSUME NEW temp \in Temps, NEW w \in Seq(Chars), Len(w) \in 0..8,
         IsNumber(w), ~GoesOn(temp[Len(w) + 1])
  PROVE  Atof(Stored(temp, 0, w)) = Value(w)
<1>1. PICK k \in 0..8 : k = Len(w)
  OBVIOUS
<1>2. PICK st \in Temps : st = Stored(temp, 0, w)
  BY StoredType
<1>3. PICK z \in Nat : st \in Seq(Chars) /\ z = Len(st) /\ z > 8 /\ z = Len(temp)
  BY <1>2, StoredAt, LenProperties DEF Temps
<1>4. /\ \A j \in 1..k : st[j] = w[j]
      /\ st[k + 1] = temp[k + 1]
  <2>1. /\ \A j \in 1..Len(w) : Stored(temp, 0, w)[j] = w[j]
        /\ \A j \in Len(w) + 1..Len(temp) : Stored(temp, 0, w)[j] = temp[j]
    BY StoredAt
  <2>2. k + 1 \in k + 1..z
    BY <1>3
  <2>3. QED
    BY <1>1, <1>2, <1>3, <2>1, <2>2
<1>5. PICK n \in 0..z :
        /\ Atof(st) = Scaled(SubSeq(st, 1, n), Exponent(SubSeq(st, n + 1, z)))
        /\ IsNumber(SubSeq(st, 1, n))
        /\ \A m \in 0..z : IsNumber(SubSeq(st, 1, m)) => m <= n
  BY <1>3, AtofIs
<1>6. PICK u : u = SubSeq(st, 1, k)
  OBVIOUS
<1>7. u = w
  <2>1. u \in Seq(Chars) /\ Len(u) = k /\ \A j \in 1..k : u[j] = st[j]
    <3>1. k \in Nat /\ k <= Len(st)
      BY <1>3
    <3>2. QED
      BY <1>3, <1>6, <3>1, StartIs
  <2>2. Len(u) = Len(w) /\ \A j \in 1..Len(u) : u[j] = w[j]
    BY <1>1, <1>4, <2>1
  <2>3. QED
    BY <2>1, <2>2, SeqEqual
<1>8. k <= n
  <2>1. k \in 0..z
    BY <1>3
  <2>2. QED
    BY <1>5, <1>6, <1>7, <2>1
<1>9. ~(k < n)
  <2>1. ASSUME k < n PROVE FALSE
    <3>1. PICK t : t = SubSeq(st, 1, n)
      OBVIOUS
    <3>2. k + 1 \in DOMAIN t /\ t[k + 1] = st[k + 1]
      BY <1>3, <2>1, <3>1
    <3>3. Contains(Digits, t[k + 1]) \/ t[k + 1] = "."
      BY <1>5, <3>1, <3>2 DEF IsNumber
    <3>4. QED
      BY <1>1, <1>4, <3>2, <3>3 DEF GoesOn
  <2>2. QED
    BY <2>1
<1>10. n = k
  BY <1>8, <1>9
<1>11. Exponent(SubSeq(st, k + 1, z)) = 0
  <2>1. st[k + 1] \notin ExponentLetters
    BY <1>1, <1>4 DEF GoesOn
  <2>2. k \in 0..Len(st)
    BY <1>3
  <2>3. QED
    BY <1>3, <2>1, <2>2, NoExponent
<1>12. QED
  BY <1>2, <1>5, <1>6, <1>7, <1>10, <1>11, Unscaled

-----------------------------------------------------------------------------
(* A line that comes in a packet of its own.                               *)

(* where the letter of an argument ends in a line, and its number starts *)
LetterEnd(l, i) == Len(l.code) + (EndOf(Parts(l), i - 1) + (1 + Len(l.args[i].letter)))

(* The characters of an argument are those of its part of the line. *)
LEMMA ArgumentAt ==
  ASSUME NEW l \in Lines, NEW i \in 1..Len(l.args)
  PROVE  /\ EndOf(Parts(l), i - 1) \in Nat
         /\ EndOf(Parts(l), i) = EndOf(Parts(l), i - 1) + Len(Parts(l)[i])
         /\ Len(Parts(l)[i]) \in Nat /\ EndOf(Parts(l), i) <= Len(Rest(l))
         /\ \A j \in 1..Len(Parts(l)[i]) :
              Body(l)[Len(l.code) + (EndOf(Parts(l), i - 1) + j)] = Parts(l)[i][j]
<1>1. PICK pp, r : pp = Parts(l) /\ r = Rest(l)
  OBVIOUS
<1>2. pp \in Seq(Seq(Inner)) /\ Len(pp) = Len(l.args) /\ FlattenSeq(pp) = r
  BY <1>1, RestIs DEF Rest
<1>3. i \in 1..Len(pp)
  BY <1>2
<1>4. PICK e, f : e = EndOf(pp, i - 1) /\ f = EndOf(pp, i)
  OBVIOUS
<1>5. /\ e \in Nat /\ Len(pp[i]) \in Nat /\ f = e + Len(pp[i]) /\ f <= Len(r)
      /\ \A j \in 1..Len(pp[i]) : r[e + j] = pp[i][j]
  BY <1>2, <1>3, <1>4, FlattenSeqAt
<1>6. /\ Len(l.code) \in Nat /\ Len(r) \in Nat
      /\ \A j \in 1..Len(r) : Body(l)[Len(l.code) + j] = r[j]
  BY <1>1, BodyIs
<1>7. ASSUME NEW j \in 1..Len(pp[i]) PROVE Body(l)[Len(l.code) + (e + j)] = pp[i][j]
  <2>1. e + j \in 1..Len(r)
    BY <1>5, <1>6
  <2>2. QED
    BY <1>5, <1>6, <2>1
<1>8. QED
  BY <1>1, <1>4, <1>5, <1>7

(* After every argument comes a space. *)
LEMMA SpaceAfter ==
  ASSUME NEW l \in Lines, NEW i \in 1..Len(l.args)
  PROVE  Body(l)[Len(l.code) + (EndOf(Parts(l), i) + 1)] = Space
<1>1. Len(l.args) \in Nat
  BY LineIs, LenProperties
<1>2. CASE i < Len(l.args)
  <2>1. PICK k \in 1..Len(l.args) : k = i + 1 /\ k - 1 = i
    BY <1>1, <1>2
  <2>2. Parts(l)[k][1] = Space /\ Len(Parts(l)[k]) >= 1
    <3>1. /\ Len(l.args[k].letter) \in Nat /\ Len(l.args[k].number) \in Nat
          /\ Len(Parts(l)[k]) = 1 + Len(l.args[k].letter) + Len(l.args[k].number)
          /\ Parts(l)[k][1] = Space
      BY PartText
    <3>2. PICK x \in Nat, y \in Nat :
            x = Len(l.args[k].letter) /\ y = Len(l.args[k].number)
      BY <3>1
    <3>3. PICK z : z = Len(Parts(l)[k])
      OBVIOUS
    <3>4. z = 1 + x + y
      BY <3>1, <3>2, <3>3
    <3>5. z >= 1
      BY <3>4
    <3>6. QED
      BY <3>1, <3>3, <3>5
  <2>3. Len(Parts(l)[k]) \in Nat
    BY ArgumentAt
  <2>4. 1 \in 1..Len(Parts(l)[k])
    BY <2>2, <2>3
  <2>5. Body(l)[Len(l.code) + (EndOf(Parts(l), k - 1) + 1)] = Parts(l)[k][1]
    BY <2>4, ArgumentAt
  <2>6. QED
    BY <2>1, <2>2, <2>5
<1>3. CASE i = Len(l.args)
  <2>1. PICK pp : pp = Parts(l)
    OBVIOUS
  <2>2. pp \in Seq(Seq(Inner)) /\ Len(pp) = i /\ FlattenSeq(pp) = Rest(l)
    BY <1>3, <2>1, RestIs DEF Rest
  <2>3. i \in 0..Len(pp) /\ i = Len(pp)
    BY <2>2
  <2>4. EndOf(pp, i) = Len(Rest(l))
    BY <2>2, <2>3, EndOfIs
  <2>5. PICK a \in Nat, b \in Nat : a = Len(l.code) /\ b = Len(Rest(l))
    BY BodyIs
  <2>6. Body(l)[a + b + 1] = Space
    BY <2>5, BodyIs
  <2>7. a + b + 1 = a + (b + 1)
    OBVIOUS
  <2>8. QED
    BY <2>1, <2>4, <2>5, <2>6, <2>7
<1>4. QED
  BY <1>1, <1>2, <1>3

(* No character of a number is a space or a letter. *)
LEMMA NumberChars ==
  ASSUME NEW t, IsNumber(t), NEW j \in DOMAIN t
  PROVE  t[j] \notin {Space, NewLine, "M", "G", "X", "Y"}
<1>1. Contains(Digits, t[j]) \/ t[j] = "."
  BY DEF IsNumber
<1>2. QED
  BY <1>1, DigitIs DEF Space, NewLine

(* What is read after the letter of an argument, or after its space, is its   *)
(* number.                                                                 *)
LEMMA WordOfArgument ==
  ASSUME NEW l \in Lines, NEW i \in 1..Len(l.args)
  PROVE  /\ LetterEnd(l, i) \in 1..Len(Body(l))
         /\ WordAfter(Body(l), LetterEnd(l, i)) = l.args[i].number
<1>1. PICK s, p, t : s = Body(l) /\ p = Parts(l)[i] /\ t = l.args[i].number
  OBVIOUS
<1>2. PICK c \in Nat, e \in Nat, b \in Nat, n \in Nat, r \in Nat, f \in Nat :
        /\ c = Len(l.code) /\ e = EndOf(Parts(l), i - 1) /\ b = Len(l.args[i].letter)
        /\ n = Len(t) /\ r = Len(Rest(l)) /\ f = EndOf(Parts(l), i)
  <2>1. Len(l.code) \in Nat /\ Len(Rest(l)) \in Nat
    BY BodyIs
  <2>2. Len(l.args[i].letter) \in Nat /\ Len(l.args[i].number) \in Nat
    BY PartText
  <2>3. EndOf(Parts(l), i - 1) \in Nat
    BY ArgumentAt
  <2>4. EndOf(Parts(l), i) \in Nat
    BY <2>3, ArgumentAt
  <2>5. QED
    BY <1>1, <2>1, <2>2, <2>3, <2>4
<1>3. s \in Seq(Chars) /\ Len(s) = c + r + 1
  BY <1>1, <1>2, BodyIs
<1>4. Len(p) = 1 + b + n /\ f = e + Len(p) /\ f <= r
  BY <1>1, <1>2, PartText, ArgumentAt
<1>5. PICK a \in Nat : a = c + (e + (1 + b)) /\ a = LetterEnd(l, i)
  <2>1. PICK a \in Nat : a = c + (e + (1 + b))
    OBVIOUS
  <2>2. a = LetterEnd(l, i)
    BY <1>2, <2>1 DEF LetterEnd
  <2>3. QED
    BY <2>1, <2>2
<1>6. a \in 1..Len(s) /\ a + n + 1 <= Len(s) /\ a + n + 1 = c + (f + 1)
  BY <1>3, <1>4, <1>5
<1>7. ASSUME NEW j \in 1..n PROVE s[a + j] = t[j] /\ t[j] # Space
  <2>1. p[1 + b + j] = t[j]
    BY <1>1, <1>2, PartText
  <2>2. 1 + b + j \in 1..Len(p)
    BY <1>4
  <2>3. s[c + (e + (1 + b + j))] = p[1 + b + j]
    BY <1>1, <1>2, <2>2, ArgumentAt
  <2>4. a + j = c + (e + (1 + b + j))
    BY <1>5
  <2>5. IsNumber(t) /\ t \in Seq(Chars)
    BY <1>1, ArgumentIs DEF IsArgument
  <2>6. j \in DOMAIN t
    BY <1>2, <2>5
  <2>7. t[j] # Space
    BY <2>5, <2>6, NumberChars
  <2>8. QED
    BY <2>1, <2>3, <2>4, <2>7
<1>8. s[a + n + 1] = Space
  BY <1>1, <1>2, <1>6, SpaceAfter
<1>9. PICK w : w = WordAfter(s, a)
  OBVIOUS
<1>10. w \in Seq(Chars) /\ Len(w) = n /\ \A j \in 1..n : w[j] = s[a + j]
  <2>1. a \in 0..Len(s)
    BY <1>6
  <2>2. a + n + 1 <= Len(s) /\ s[a + n + 1] = Space /\ \A j \in 1..n : s[a + j] # Space
    BY <1>6, <1>7, <1>8
  <2>3. QED
    BY <1>3, <1>9, <2>1, <2>2, WordIs
<1>11. w = t
  <2>1. t \in Seq(Chars)
    BY <1>1, ArgumentIs
  <2>2. \A j \in 1..Len(w) : w[j] = t[j]
    BY <1>7, <1>10
  <2>3. QED
    BY <1>2, <1>10, <2>1, <2>2, SeqEqual
<1>12. QED
  BY <1>1, <1>5, <1>6, <1>9, <1>11

(* sscanf finds the whole part of the number of an M1 that has one. *)
LEMMA AngleOfLine ==
  ASSUME NEW l \in Lines, l.code = M1, l.args # <<>>, l.args[1].number[1] # "."
  PROVE  Angles(Body(l)) = {Value(l.args[1].number) \div Power(Places)}
<1>1. PICK s : s = Body(l)
  OBVIOUS
<1>2. l.args \in Seq([letter : Seq(Chars), number : Seq(Chars)])
  BY LineIs
<1>3. 1 \in 1..Len(l.args)
  BY <1>2
<1>4. l.args[1].letter = <<>> /\ IsArgument(l.args[1])
  BY <1>3, LineIs, ArgumentIs DEF IsLine
<1>5. LetterEnd(l, 1) = 3
  <2>1. EndOf(Parts(l), 0) = 0
    <3>1. PICK pp : pp = Parts(l)
      OBVIOUS
    <3>2. pp \in Seq(Seq(Inner))
      BY <3>1, RestIs
    <3>3. 0 \in 0..Len(pp)
      BY <3>2
    <3>4. QED
      BY <3>1, <3>2, <3>3, EndOfIs
  <2>2. Len(l.code) = 2
    BY CommandsAre
  <2>3. EndOf(Parts(l), 1 - 1) = 0 /\ Len(l.args[1].letter) = 0
    BY <1>4, <2>1
  <2>4. QED
    BY <2>2, <2>3 DEF LetterEnd
<1>6. WordAfter(s, 3) = l.args[1].number
  BY <1>1, <1>3, <1>5, WordOfArgument
<1>7. First(s, Space) = 3
  <2>1. Len(l.code) = 2 /\ l.code[1] = "M" /\ l.code[2] = "1"
    BY CommandsAre
  <2>2. /\ s \in Seq(Chars) /\ s[1] = "M" /\ s[2] = "1"
    <3>1. s \in Seq(Chars) /\ \A j \in 1..Len(l.code) : s[j] = l.code[j]
      BY <1>1, BodyIs
    <3>2. 1 \in 1..Len(l.code) /\ 2 \in 1..Len(l.code)
      BY <2>1
    <3>3. QED
      BY <2>1, <3>1, <3>2
  <2>3. 3 \in 1..Len(s) /\ s[3] = Space
    <3>1. Len(l.code) + 1 \in 1..Len(s) /\ s[Len(l.code) + 1] = Space
      BY <1>1, AfterCode
    <3>2. Len(l.code) + 1 = 3
      BY <2>1
    <3>3. QED
      BY <3>1, <3>2
  <2>4. PICK i : i = First(s, Space)
    OBVIOUS
  <2>5. Len(s) \in Nat
    BY <2>2
  <2>6. \/ i = 0 /\ \A j \in 1..Len(s) : s[j] # Space
        \/ /\ i \in 1..Len(s) /\ s[i] = Space
           /\ \A j \in 1..i - 1 : s[j] # Space
    BY <2>4, <2>5, FirstIs
  <2>7. i \in 1..Len(s) /\ s[i] = Space /\ ~(3 \in 1..i - 1)
    BY <2>3, <2>6
  <2>8. i # 1 /\ i # 2
    BY <2>2, <2>7 DEF Space
  <2>9. QED
    BY <2>4, <2>5, <2>7, <2>8
<1>8. PICK t : t = l.args[1].number
  OBVIOUS
<1>9. Angles(s) = IF LeadingDigits(t) = <<>> THEN Garbage
                  ELSE {Reading(LeadingDigits(t))}
  BY <1>6, <1>7, <1>8 DEF Angles, First
<1>10. /\ t \in Seq(Chars) /\ IsNumber(t) /\ t # <<>> /\ t[1] # "."
       /\ Decimals(t) <= Places
  BY <1>3, <1>4, <1>8, ArgumentIs DEF IsArgument
<1>11. /\ LeadingDigits(t) # <<>>
       /\ Reading(LeadingDigits(t)) = Value(t) \div Power(Places)
  BY <1>10, WholePart
<1>12. QED
  BY <1>1, <1>8, <1>9, <1>11

(* A packet that is a whole line completes that line from its first character. *)
LEMMA WholeLine ==
  ASSUME TypeInv, Next, NEW n \in 1..MaxLines,
         Len(wire) = After(n - 1), Len(wire') = After(n)
  PROVE  \E k, q, line, temp : Completes(k, q, line, n, 0, temp) /\ line = Body(sent[n])
<1>1. MaxLines \in Nat
  BY GCodeAssumption
<1>2. PICK p \in 0..MaxLines : p = n - 1 /\ n \in 0..MaxLines
  BY <1>1
<1>3. PICK v : v = Len(wire')
  OBVIOUS
<1>4. PICK a \in Int, b \in Int, w \in Nat :
        a = After(p) /\ b = After(n) /\ w = Len(wire)
  BY <1>2, AfterIs, SentIs, WireIs DEF TypeInv
<1>5. w = a /\ v = b
  BY <1>2, <1>4, <1>3
<1>6. PICK k \in 1..Len(wire) :
        \/ /\ \A i \in 1..k : wire[i] # NewLine
           /\ wire' = SubSeq(wire, k + 1, Len(wire)) /\ sent' = sent
           /\ xCoord_' = xCoord_ /\ yCoord_' = yCoord_ /\ commands' = commands
        \/ \E q, line, m, d, temp : Completes(k, q, line, m, d, temp)
  BY NextIs
<1>7. v = w - k
  <2>1. wire' = SubSeq(wire, k + 1, Len(wire)) /\ sent' = sent
    BY <1>6 DEF Completes
  <2>2. QED
    BY <1>4, <1>3, <2>1, WireStep DEF TypeInv
<1>8. wire[k] = NewLine
  <2>1. PICK tt, t : tt = Texts(sent) /\ t = TextOf(sent)
    OBVIOUS
  <2>2. /\ sent \in Seq(Lines) /\ Len(sent) = MaxLines
        /\ t \in Seq(Chars) /\ Len(t) \in Nat
    BY <2>1, SentIs DEF TypeInv
  <2>3. /\ tt \in Seq(Seq(Chars)) /\ Len(tt) = MaxLines /\ t = FlattenSeq(tt)
        /\ tt[n] = Text(sent[n])
    BY <2>1, <2>2, TextsAre
  <2>4. n \in 1..Len(tt)
    BY <2>3
  <2>5. PICK e, f : e = EndOf(tt, n - 1) /\ f = EndOf(tt, n)
    OBVIOUS
  <2>6. PICK x : x = Len(tt[n])
    OBVIOUS
  <2>7. /\ e \in Nat /\ x \in Nat /\ f = e + x
        /\ \A j \in 1..x : t[e + j] = tt[n][j]
    BY <2>3, <2>4, <2>5, <2>6, FlattenSeqAt
  <2>8. PICK y \in Nat : y = Len(t)
    BY <2>2
  <2>9. a = y - e /\ b = y - f
    BY <1>2, <1>4, <2>1, <2>5, <2>8, AfterIs DEF TypeInv
  <2>10. x = k /\ y - w = e
    <3>1. k \in Int
      BY <1>4
    <3>2. PICK g \in Int : g = f
      BY <2>7
    <3>3. /\ w = a /\ b = w - k /\ g = e + x /\ a = y - e /\ b = y - g
          /\ e \in Nat /\ x \in Nat
      BY <1>5, <1>7, <2>7, <2>9, <3>2
    <3>4. QED
      BY ONLY <3>1, <3>3, a \in Int, b \in Int, w \in Nat, y \in Nat, g \in Int
  <2>11. sent[n] \in Lines
    BY <2>2
  <2>12. tt[n][x] = NewLine /\ x >= 1
    <3>1. PICK z \in Nat : z = Len(Body(sent[n]))
      BY <2>11, BodyIs, LenProperties
    <3>2. Text(sent[n])[z + 1] = NewLine /\ Len(Text(sent[n])) = z + 1
      BY <2>11, <3>1, TextIs
    <3>3. QED
      BY <2>3, <2>6, <3>1, <3>2
  <2>13. t[e + k] = NewLine
    BY <2>7, <2>10, <2>12
  <2>14. wire[k] = t[(y - w) + k]
    BY <1>4, <2>1, <2>8, WireIs DEF TypeInv
  <2>15. QED
    BY <2>10, <2>13, <2>14
<1>9. PICK q, line, m, d, temp : Completes(k, q, line, m, d, temp)
  <2>1. k \in 1..k
    OBVIOUS
  <2>2. QED
    BY <1>6, <1>8, <2>1
<1>10. PICK r \in 0..MaxLines : r = m - 1 /\ m \in 0..MaxLines /\ m \in 1..MaxLines
  BY <1>1, <1>9 DEF Completes, CompletedAs
<1>11. PICK aa \in Int, bb \in Int : aa = After(r) /\ bb = After(m)
  <2>1. Arriving
    BY DEF TypeInv
  <2>2. Len(TextOf(sent)) \in Nat
    BY <2>1, SentIs
  <2>3. ASSUME NEW y \in 0..MaxLines PROVE After(y) \in Int
    <3>1. /\ After(y) = Len(TextOf(sent)) - EndOf(Texts(sent), y)
          /\ EndOf(Texts(sent), y) \in 0..Len(TextOf(sent))
      BY <2>1, AfterIs
    <3>2. QED
      BY <2>2, <3>1
  <2>4. QED
    BY <1>10, <2>3
<1>12. q \in 1..k /\ w = aa - d /\ w - q = bb
  BY <1>4, <1>9, <1>10, <1>11 DEF Completes, CompletedAs
<1>13. m = n
  <2>1. n < m => bb < b
    BY <1>2, <1>4, <1>10, <1>11, AfterIs DEF TypeInv
  <2>2. ~(n < m)
    BY <1>5, <1>7, <1>12, <2>1
  <2>3. m < p => a < bb
    BY <1>2, <1>4, <1>10, <1>11, AfterIs DEF TypeInv
  <2>4. m = p => a = bb
    BY <1>4, <1>11
  <2>5. ~(m < p) /\ ~(m = p)
    BY <1>5, <1>12, <2>3, <2>4
  <2>6. QED
    BY <1>1, <1>2, <1>10, <2>2, <2>5
<1>14. d = 0
  <2>1. aa = a
    BY <1>2, <1>4, <1>10, <1>11, <1>13
  <2>2. d \in Int
    <3>1. d \in 0..Len(Body(sent[m]))
      BY <1>9 DEF Completes, CompletedAs
    <3>2. QED
      BY <3>1
  <2>3. QED
    BY <1>5, <1>12, <2>1, <2>2
<1>15. line = Body(sent[n])
  <2>1. /\ line \in Seq(Chars) /\ Len(line) = Len(Body(sent[n])) - d
        /\ \A j \in 1..Len(line) : line[j] = Body(sent[n])[d + j]
    BY <1>9, <1>13 DEF Completes, CompletedAs
  <2>2. sent[n] \in Lines
    BY DEF TypeInv, Arriving
  <2>3. PICK s : s = Body(sent[n])
    OBVIOUS
  <2>4. s \in Seq(Chars) /\ Len(s) \in Nat
    BY <2>2, <2>3, BodyIs, LenProperties
  <2>5. Len(line) = Len(s) /\ \A j \in 1..Len(line) : line[j] = s[j]
    BY <1>14, <2>1, <2>3, <2>4
  <2>6. QED
    BY <2>1, <2>3, <2>4, <2>5, SeqEqual
<1>16. QED
  BY <1>9, <1>13, <1>14, <1>15

(* A line that comes in a packet of its own is read as the command that it    *)
(* is, whatever fragments buffStr held before, and an M1 with the whole part *)
(* of its own number, if a digit stands before the point of that.          *)
THEOREM GCodeWholeLineRead == Spec => WholeLineRead
<1>1. ASSUME TypeInv, Next, NEW n \in 1..MaxLines,
             Len(wire) = After(n - 1), Len(wire') = After(n),
             Read(sent[n].code) # None
      PROVE  LET c == Last(commands')
                 args == sent[n].args
             IN  /\ Len(commands') = Len(commands) + 1 /\ c.line = n
                 /\ c.code = M1 /\ args # <<>> /\ args[1].number[1] # "." =>
                      c.angle = Value(args[1].number) \div Power(Places)
  <2>1. PICK k, q, line, temp : Completes(k, q, line, n, 0, temp) /\ line = Body(sent[n])
    BY <1>1, WholeLine
  <2>2. PICK l \in Lines : l = sent[n]
    BY <1>1 DEF TypeInv, Arriving
  <2>3. Read(line) = Read(l.code) /\ Read(l.code) # None /\ Read(l.code) = l.code
    BY <1>1, <2>1, <2>2, ReadBody
  <2>4. PICK c : c = [line |-> n, code |-> Read(line), angle |-> angle_',
                      x |-> xCoord_', y |-> yCoord_', temp |-> Used(line, temp)]
    OBVIOUS
  <2>5. /\ commands' = Append(commands, c) /\ commands \in Seq(Command)
        /\ Parse(line, temp)
    BY <1>1, <2>1, <2>3, <2>4 DEF Completes, TypeInv
  <2>6. c.line = n /\ c.code = Read(line) /\ c.angle = angle_'
    BY <2>4
  <2>7. Last(commands') = c /\ Len(commands') = Len(commands) + 1
    <3>1. PICK z \in Nat : z = Len(commands)
      BY <2>5
    <3>2. Len(commands') = z + 1 /\ commands'[z + 1] = c
      BY <2>5, <3>1
    <3>3. QED
      BY <3>1, <3>2 DEF Last
  <2>8. ASSUME c.code = M1, l.args # <<>>, l.args[1].number[1] # "."
        PROVE  c.angle = Value(l.args[1].number) \div Power(Places)
    <3>1. Read(line) = M1 /\ l.code = M1
      BY <2>3, <2>6, <2>8
    <3>2. angle_' \in Angles(line)
      BY <2>5, <3>1, ParseIs
    <3>3. QED
      BY <2>1, <2>2, <2>6, <2>8, <3>1, <3>2, AngleOfLine
  <2>9. QED
    BY <2>2, <2>6, <2>7, <2>8
<1>2. ASSUME TypeInv, [Next]_vars
      PROVE  [\A n \in 1..MaxLines :
                /\ Len(wire) = After(n - 1) /\ Len(wire') = After(n)
                /\ Read(sent[n].code) # None
                => LET c == Last(commands')
                       args == sent[n].args
                   IN  /\ Len(commands') = Len(commands) + 1 /\ c.line = n
                       /\ c.code = M1 /\ args # <<>> /\ args[1].number[1] # "." =>
                            c.angle = Value(args[1].number) \div Power(Places)]_vars
  BY <1>1, <1>2
<1>3. QED
  BY <1>2, TypeInit, TypeStep, PTL DEF Spec, WholeLineRead

-----------------------------------------------------------------------------
(* The letters of a line.                                                  *)

FirstArgument(l, letter) == SelectInSeq(l.args, LAMBDA a : a.letter = letter)

LEMMA FirstArgumentIs ==
  ASSUME NEW l, Len(l.args) \in Nat, NEW letter
  PROVE  \/ /\ FirstArgument(l, letter) = 0
            /\ \A i \in 1..Len(l.args) : l.args[i].letter # letter
         \/ /\ FirstArgument(l, letter) \in 1..Len(l.args)
            /\ l.args[FirstArgument(l, letter)].letter = letter
<1> DEFINE I == {i \in 1..Len(l.args) : l.args[i].letter = letter}
<1>1. FirstArgument(l, letter) = IF I # {} THEN Min(I) ELSE 0
  BY DEF FirstArgument, SelectInSeq
<1>2. CASE I = {}
  BY <1>1, <1>2
<1>3. CASE I # {}
  <2>1. I \in SUBSET Nat
    OBVIOUS
  <2>2. Min(I) \in I
    <3> HIDE DEF I
    <3>1. QED
      BY <1>3, <2>1, MinInSet
  <2>3. QED
    BY <1>1, <1>3, <2>2
<1>4. QED
  BY <1>2, <1>3

(* A letter in a part of a line is the letter of its argument. *)
LEMMA LetterInPart ==
  ASSUME NEW l \in Lines, NEW i \in 1..Len(l.args), NEW c \in {"X", "Y"},
         NEW j \in 1..Len(Parts(l)[i]), Parts(l)[i][j] = c
  PROVE  /\ l.args[i].letter = <<c>> /\ Len(l.args[i].letter) = 1
         /\ j = 1 + Len(l.args[i].letter)
<1>1. PICK p, t, u : p = Parts(l)[i] /\ t = l.args[i].letter /\ u = l.args[i].number
  OBVIOUS
<1>2. PICK b \in Nat, n \in Nat : b = Len(t) /\ n = Len(u)
  BY <1>1, PartText
<1>3. /\ Len(p) = 1 + b + n /\ p[1] = Space
      /\ \A k \in 1..b : p[1 + k] = t[k]
      /\ \A k \in 1..n : p[1 + b + k] = u[k]
  BY <1>1, <1>2, PartText
<1>4. j \in Nat /\ j \in 1..1 + b + n /\ p[j] = c
  <2>1. PICK m \in Nat : m = 1 + b + n
    OBVIOUS
  <2>2. Len(Parts(l)[i]) = m
    BY <1>1, <1>3, <2>1
  <2>3. j \in 1..m
    BY <2>2
  <2>4. QED
    BY <1>1, <2>1, <2>3
<1>5. j # 1
  BY <1>3, <1>4 DEF Space
<1>6. ~(j > 1 + b)
  <2> SUFFICES ASSUME j > 1 + b PROVE FALSE
    OBVIOUS
  <2>1. PICK k \in 1..n : j = 1 + b + k
    <3>1. j - (1 + b) \in 1..n /\ j = 1 + b + (j - (1 + b))
      BY <1>4
    <3>2. QED
      BY <3>1
  <2>2. u[k] = c
    BY <1>3, <1>4, <2>1
  <2>3. IsNumber(u) /\ u \in Seq(Chars)
    BY <1>1, ArgumentIs DEF IsArgument
  <2>4. k \in DOMAIN u
    BY <1>2, <2>3
  <2>5. u[k] # c
    BY <2>3, <2>4, NumberChars
  <2>6. QED
    BY <2>2, <2>5
<1>7. t \in {<<>>, <<"X">>, <<"Y">>}
  BY <1>1, ArgumentIs DEF IsArgument
<1>8. b <= 1 /\ (b = 1 => t = <<t[1]>>)
  <2>1. CASE t = <<>>
    BY <1>2, <2>1
  <2>2. CASE t = <<"X">>
    BY <1>2, <2>2
  <2>3. CASE t = <<"Y">>
    BY <1>2, <2>3
  <2>4. QED
    BY <1>7, <2>1, <2>2, <2>3
<1>9. b = 1 /\ j = 2
  BY <1>4, <1>5, <1>6, <1>8
<1>10. t[1] = c
  BY <1>3, <1>4, <1>9
<1>11. QED
  BY <1>1, <1>2, <1>8, <1>9, <1>10

(* Where a G1 has a coordinate's letter, an argument has it. *)
LEMMA LetterWhere ==
  ASSUME NEW l \in Lines, l.code = G1, NEW c \in {"X", "Y"},
         NEW j \in 1..Len(Body(l)), Body(l)[j] = c
  PROVE  \E i \in 1..Len(l.args) : l.args[i].letter = <<c>> /\ j = LetterEnd(l, i)
<1>1. PICK r \in Nat : r = Len(Rest(l))
  BY BodyIs
<1>2. Len(l.code) = 2 /\ l.code[1] = "G" /\ l.code[2] = "1"
  BY CommandsAre
<1>3. /\ Len(Body(l)) = 2 + r + 1
      /\ \A k \in 1..2 : Body(l)[k] = l.code[k]
      /\ \A k \in 1..r : Body(l)[2 + k] = Rest(l)[k]
      /\ Body(l)[2 + r + 1] = Space
  BY <1>1, <1>2, BodyIs
<1>4. j \in 1..2 + r + 1 /\ j \in Nat
  BY <1>3
<1>5. j # 1 /\ j # 2 /\ j # 2 + r + 1
  <2>1. Body(l)[1] = "G" /\ Body(l)[2] = "1"
    BY <1>2, <1>3
  <2>2. QED
    BY <1>3, <2>1 DEF Space
<1>6. PICK k \in 1..r : j = 2 + k
  <2>1. j - 2 \in 1..r /\ j = 2 + (j - 2)
    BY <1>4, <1>5
  <2>2. QED
    BY <2>1
<1>7. PICK pp : pp = Parts(l)
  OBVIOUS
<1>8. pp \in Seq(Seq(Inner)) /\ Len(pp) = Len(l.args) /\ FlattenSeq(pp) = Rest(l)
  BY <1>7, RestIs DEF Rest
<1>9. PICK i \in 1..Len(pp) : EndOf(pp, i - 1) < k /\ k <= EndOf(pp, i)
  BY <1>1, <1>8, FlattenSeqWhere
<1>10. i \in 1..Len(l.args)
  BY <1>8, <1>9
<1>11. PICK e, f, z : /\ e = EndOf(Parts(l), i - 1) /\ f = EndOf(Parts(l), i)
                     /\ z = Len(Parts(l)[i])
  OBVIOUS
<1>12. /\ e \in Nat /\ z \in Nat /\ f = e + z
       /\ \A m \in 1..z : Body(l)[Len(l.code) + (e + m)] = Parts(l)[i][m]
  BY <1>10, <1>11, ArgumentAt
<1>13. PICK m \in 1..z : k = e + m
  <2>1. e < k /\ k <= e + z
    BY <1>7, <1>9, <1>11, <1>12
  <2>2. k - e \in 1..z /\ k = e + (k - e)
    BY <1>12, <2>1
  <2>3. QED
    BY <2>2
<1>14. j = Len(l.code) + (e + m)
  BY <1>2, <1>6, <1>13
<1>15. Parts(l)[i][m] = c
  BY <1>12, <1>14
<1>16. l.args[i].letter = <<c>> /\ m = 1 + Len(l.args[i].letter)
  BY <1>10, <1>11, <1>15, LetterInPart
<1>17. j = LetterEnd(l, i)
  BY <1>11, <1>14, <1>16 DEF LetterEnd
<1>18. QED
  BY <1>10, <1>16, <1>17

(* It is there only once, and its argument is the first that has it. *)
LEMMA LetterIs ==
  ASSUME NEW l \in Lines, l.code = G1, NEW c \in {"X", "Y"},
         NEW i, i = FirstArgument(l, <<c>>)
  PROVE  \/ i = 0 /\ \A j \in 1..Len(Body(l)) : Body(l)[j] # c
         \/ /\ i \in 1..Len(l.args) /\ LetterEnd(l, i) \in 1..Len(Body(l))
            /\ \A j \in 1..Len(Body(l)) : Body(l)[j] = c <=> j = LetterEnd(l, i)
<1>1. Len(l.args) \in Nat
  BY LineIs, LenProperties
<1>2. \/ i = 0 /\ \A k \in 1..Len(l.args) : l.args[k].letter # <<c>>
      \/ i \in 1..Len(l.args) /\ l.args[i].letter = <<c>>
  BY <1>1, FirstArgumentIs
<1>3. CASE i = 0 /\ \A k \in 1..Len(l.args) : l.args[k].letter # <<c>>
  BY <1>3, LetterWhere
<1>4. CASE i \in 1..Len(l.args) /\ l.args[i].letter = <<c>>
  <2>1. LetterEnd(l, i) \in 1..Len(Body(l))
    BY <1>4, WordOfArgument
  <2>2. ASSUME NEW j \in 1..Len(Body(l)), Body(l)[j] = c PROVE j = LetterEnd(l, i)
    <3>1. PICK k \in 1..Len(l.args) : l.args[k].letter = <<c>> /\ j = LetterEnd(l, k)
      BY <2>2, LetterWhere
    <3>2. k = i
      <4>1. k \in DOMAIN l.args /\ i \in DOMAIN l.args
        BY <1>4, <3>1, ArgumentIs
      <4>2. l.args[k].letter = l.args[i].letter /\ l.args[i].letter # <<>>
        BY <1>4, <3>1
      <4>3. QED
        BY <4>1, <4>2, LineIs DEF IsLine
    <3>3. QED
      BY <3>1, <3>2
  <2>3. Body(l)[LetterEnd(l, i)] = c
    <3>1. PICK e : e = EndOf(Parts(l), i - 1)
      OBVIOUS
    <3>2. Len(l.args[i].letter) = 1 /\ l.args[i].letter[1] = c
      BY <1>4
    <3>3. Parts(l)[i][1 + 1] = c /\ 1 + 1 \in 1..Len(Parts(l)[i])
      <4>1. 1 \in 1..Len(l.args[i].letter)
        BY <3>2
      <4>2. Parts(l)[i][1 + 1] = l.args[i].letter[1]
        BY <1>4, <4>1, PartText
      <4>3. PICK y \in Nat : y = Len(l.args[i].number)
        BY <1>4, PartText
      <4>4. Len(Parts(l)[i]) = 1 + 1 + y
        BY <1>4, <3>2, <4>3, PartText
      <4>5. QED
        BY <3>2, <4>2, <4>3, <4>4
    <3>4. Body(l)[Len(l.code) + (e + (1 + 1))] = c
      BY <1>4, <3>1, <3>3, ArgumentAt
    <3>5. QED
      BY <3>1, <3>2, <3>4 DEF LetterEnd
  <2>4. QED
    BY <1>4, <2>1, <2>2, <2>3
<1>5. QED
  BY <1>2, <1>3, <1>4

-----------------------------------------------------------------------------
(* The loop of parseCoords, and what it leaves in the coordinates.         *)

LEMMA ParseCharIs ==
  ASSUME NEW s, NEW p \in ParseStates, NEW i
  PROVE  /\ s[i] = "X" =>
              /\ ParseChar(s, p, i).temp = Stored(p.temp, p.index, WordAfter(s, i))
              /\ ParseChar(s, p, i).x = Atof(Stored(p.temp, p.index, WordAfter(s, i)))
              /\ ParseChar(s, p, i).y = p.y
         /\ s[i] = "Y" =>
              /\ ParseChar(s, p, i).temp = Stored(p.temp, 0, WordAfter(s, i))
              /\ ParseChar(s, p, i).y = Atof(Stored(p.temp, 0, WordAfter(s, i)))
              /\ ParseChar(s, p, i).x = p.x /\ ParseChar(s, p, i).index = p.index
         /\ s[i] \notin {"X", "Y"} => ParseChar(s, p, i) = p
<1>1. PICK word : word = WordAfter(s, i)
  OBVIOUS
<1>2. PICK forX, forY : forX = Stored(p.temp, p.index, word)
                       /\ forY = Stored(p.temp, 0, word)
  OBVIOUS
<1>3. PICK vx, vy, n : vx = Atof(forX) /\ vy = Atof(forY) /\ n = p.index + Len(word)
  OBVIOUS
<1>4. CASE s[i] = "X"
  <2>1. ParseChar(s, p, i) = [p EXCEPT !.temp = forX, !.x = vx, !.index = n]
    BY <1>1, <1>2, <1>3, <1>4 DEF ParseChar
  <2>2. /\ ParseChar(s, p, i).temp = forX
        /\ ParseChar(s, p, i).x = vx /\ ParseChar(s, p, i).y = p.y
    BY <2>1 DEF ParseStates
  <2>3. QED
    BY <1>1, <1>2, <1>3, <1>4, <2>2
<1>5. CASE s[i] = "Y"
  <2>1. ParseChar(s, p, i) = [p EXCEPT !.temp = forY, !.y = vy]
    BY <1>1, <1>2, <1>3, <1>5 DEF ParseChar, YIndex
  <2>2. /\ ParseChar(s, p, i).temp = forY /\ ParseChar(s, p, i).y = vy
        /\ ParseChar(s, p, i).x = p.x /\ ParseChar(s, p, i).index = p.index
    BY <2>1 DEF ParseStates
  <2>3. QED
    BY <1>1, <1>2, <1>3, <1>5, <2>2
<1>6. CASE s[i] \notin {"X", "Y"}
  BY <1>6 DEF ParseChar
<1>7. QED
  BY <1>4, <1>5, <1>6

(* tm is temp, with characters of w from its start on *)
Left(tm, temp, w) ==
  /\ tm \in Temps /\ Len(tm) = Len(temp)
  /\ \A j \in 1..Len(temp) : tm[j] = temp[j] \/ (j \in 1..Len(w) /\ tm[j] = w[j])

LEMMA LeftStored ==
  ASSUME NEW temp \in Temps, NEW tm, NEW w \in Seq(Chars), Len(w) \in 0..8,
         Left(tm, temp, w)
  PROVE  Left(Stored(tm, 0, w), temp, w)
<1>1. PICK k \in 0..8 : k = Len(w)
  OBVIOUS
<1>2. PICK z \in Nat : z = Len(temp) /\ z = Len(tm) /\ z > 8 /\ tm \in Temps
  BY LenProperties DEF Temps, Left
<1>3. PICK st : st = Stored(tm, 0, w)
  OBVIOUS
<1>4. /\ st \in Temps /\ Len(st) = z
      /\ \A j \in 1..k : st[j] = w[j]
      /\ \A j \in k + 1..z : st[j] = tm[j]
  BY <1>1, <1>2, <1>3, StoredAt
<1>5. ASSUME NEW j \in 1..z PROVE st[j] = temp[j] \/ (j \in 1..k /\ st[j] = w[j])
  <2>1. j \in 1..k \/ j \in k + 1..z
    BY <1>2
  <2>2. tm[j] = temp[j] \/ (j \in 1..k /\ tm[j] = w[j])
    BY <1>1, <1>2 DEF Left
  <2>3. QED
    BY <1>4, <2>1, <2>2
<1>6. QED
  BY <1>1, <1>2, <1>3, <1>4, <1>5 DEF Left

(* what the loop has made of a coordinate, and of temp, when it has seen i     *)
(* characters: a is the place of the letter, w the number of the other one   *)
SoFar(v, st, i, a, temp, w, old, new) ==
  IF i < a THEN v = old /\ Left(st.temp, temp, w) ELSE v = new

(* a is the only place of the letter c in s, or is behind s if there is none, *)
(* and w is what is read after it                                          *)
LetterAt(s, c, a, w) ==
  /\ a \in 1..Len(s) + 1
  /\ \A j \in 1..Len(s) : s[j] = c <=> j = a
  /\ w \in Seq(Chars) /\ Len(w) \in 0..8
  /\ IF a = Len(s) + 1 THEN w = <<>> ELSE w # <<>> /\ WordAfter(s, a) = w

(* v is what atof reads for the word w, after the loop may have stored other   *)
Looped(v, temp, w, other, old) ==
  IF w = <<>> THEN v = old
  ELSE \E tm : Left(tm, temp, other) /\ v = Atof(Stored(tm, 0, w))

LEMMA Loop ==
  ASSUME NEW s \in Seq(Chars), NEW temp \in Temps, xCoord_ \in Int, yCoord_ \in Int,
         NEW a, NEW wx, LetterAt(s, "X", a, wx),
         NEW b, NEW wy, LetterAt(s, "Y", b, wy)
  PROVE  /\ Looped(ParseCoords(s, temp).x, temp, wx, wy, xCoord_)
         /\ Looped(ParseCoords(s, temp).y, temp, wy, wx, yCoord_)
<1>0. /\ a \in 1..Len(s) + 1 /\ b \in 1..Len(s) + 1
      /\ \A k \in 1..Len(s) : s[k] = "X" <=> k = a
      /\ \A k \in 1..Len(s) : s[k] = "Y" <=> k = b
      /\ a = Len(s) + 1 <=> wx = <<>>
      /\ b = Len(s) + 1 <=> wy = <<>>
      /\ a # Len(s) + 1 => WordAfter(s, a) = wx
      /\ b # Len(s) + 1 => WordAfter(s, b) = wy
      /\ wx \in Seq(Chars) /\ Len(wx) \in 0..8
      /\ wy \in Seq(Chars) /\ Len(wy) \in 0..8
  BY DEF LetterAt
<1>1. PICK n \in Nat : n = Len(s)
  BY LenProperties
<1>2. PICK f : /\ f \in [0..n -> ParseStates]
               /\ f[0] = [temp |-> temp, index |-> 0, x |-> xCoord_, y |-> yCoord_]
               /\ \A i \in 1..n : f[i] = ParseChar(s, f[i - 1], i)
               /\ ParseCoords(s, temp) = f[n]
  BY <1>1, ParsedSequence
<1>3. PICK vx, vy : /\ vx = Atof(Stored(f[a - 1].temp, 0, wx))
                    /\ vy = Atof(Stored(f[b - 1].temp, 0, wy))
  OBVIOUS
<1>4. PICK x0, y0 : x0 = xCoord_ /\ y0 = yCoord_
  OBVIOUS
<1>5. /\ a \in 1..n + 1 /\ b \in 1..n + 1
      /\ \A j \in 1..n : s[j] = "X" <=> j = a
      /\ \A j \in 1..n : s[j] = "Y" <=> j = b
      /\ \A j \in 1..n : j = a => WordAfter(s, j) = wx
      /\ \A j \in 1..n : j = b => WordAfter(s, j) = wy
      /\ a = n + 1 <=> wx = <<>>
      /\ b = n + 1 <=> wy = <<>>
  <2>1. n + 1 \notin 1..n
    OBVIOUS
  <2>2. QED
    BY <1>0, <1>1, <2>1
<1> DEFINE Q(i) == /\ i < a => f[i].index = 0
                   /\ SoFar(f[i].x, f[i], i, a, temp, wy, x0, vx)
                   /\ SoFar(f[i].y, f[i], i, b, temp, wx, y0, vy)
           P == {i \in Nat : i <= n => Q(i)}
<1>6. 0 \in P
  <2>1. f[0].index = 0 /\ f[0].x = x0 /\ f[0].y = y0 /\ f[0].temp = temp
    BY <1>2, <1>4
  <2>2. 0 < a /\ 0 < b
    BY <1>5
  <2>3. Left(temp, temp, wx) /\ Left(temp, temp, wy)
    BY DEF Left
  <2>4. QED
    BY <2>1, <2>2, <2>3 DEF SoFar
<1>7. ASSUME NEW m \in P PROVE m + 1 \in P
  <2>1. SUFFICES ASSUME m + 1 <= n PROVE Q(m + 1)
    OBVIOUS
  <2>2. PICK i \in 1..n : i = m + 1 /\ i - 1 = m /\ m \in 0..n
    BY <2>1
  <2>3. PICK st \in ParseStates : st = f[m]
    BY <1>2, <2>2
  <2>4. PICK nx : nx = f[i] /\ nx = ParseChar(s, st, i)
    BY <1>2, <2>2, <2>3
  <2>5. /\ m < a => st.index = 0
        /\ SoFar(st.x, st, m, a, temp, wy, x0, vx)
        /\ SoFar(st.y, st, m, b, temp, wx, y0, vy)
    BY <2>2, <2>3
  <2>6. /\ m < a => st.index = 0 /\ st.x = x0 /\ Left(st.temp, temp, wy)
        /\ ~(m < a) => st.x = vx
        /\ m < b => st.y = y0 /\ Left(st.temp, temp, wx)
        /\ ~(m < b) => st.y = vy
    BY <2>5 DEF SoFar
  <2>7. /\ i # a => (i < a <=> m < a)
        /\ i # b => (i < b <=> m < b)
        /\ i = a => m < a /\ ~(i < a) /\ m = a - 1
        /\ i = b => m < b /\ ~(i < b) /\ m = b - 1
    BY <1>5, <2>2
  <2>8. /\ i < a => nx.index = 0 /\ nx.x = x0 /\ Left(nx.temp, temp, wy)
        /\ ~(i < a) => nx.x = vx
        /\ i < b => nx.y = y0 /\ Left(nx.temp, temp, wx)
        /\ ~(i < b) => nx.y = vy
    <3>1. CASE s[i] = "X"
      <4>1. i = a /\ i # b /\ WordAfter(s, i) = wx
        BY <1>5, <3>1
      <4>2. st.index = 0
        BY <2>6, <2>7, <4>1
      <4>3. nx.temp = Stored(st.temp, 0, wx) /\ nx.x = Atof(Stored(st.temp, 0, wx))
            /\ nx.y = st.y
        BY <2>4, <3>1, <4>1, <4>2, ParseCharIs
      <4>4. nx.x = vx
        BY <1>3, <2>3, <2>7, <4>1, <4>3
      <4>5. Left(st.temp, temp, wx) => Left(nx.temp, temp, wx)
        BY <1>0, <4>3, LeftStored
      <4>6. QED
        BY <2>6, <2>7, <4>1, <4>3, <4>4, <4>5
    <3>2. CASE s[i] = "Y"
      <4>1. i = b /\ i # a /\ WordAfter(s, i) = wy
        BY <1>5, <3>2
      <4>2. /\ nx.temp = Stored(st.temp, 0, wy) /\ nx.y = Atof(Stored(st.temp, 0, wy))
            /\ nx.x = st.x /\ nx.index = st.index
        BY <2>4, <3>2, <4>1, ParseCharIs
      <4>3. nx.y = vy
        BY <1>3, <2>3, <2>7, <4>1, <4>2
      <4>4. Left(st.temp, temp, wy) => Left(nx.temp, temp, wy)
        BY <1>0, <4>2, LeftStored
      <4>5. QED
        BY <2>6, <2>7, <4>1, <4>2, <4>3, <4>4
    <3>3. CASE s[i] \notin {"X", "Y"}
      <4>1. nx = st
        BY <2>4, <3>3, ParseCharIs
      <4>2. i # a /\ i # b
        BY <1>5, <3>3
      <4>3. QED
        BY <2>6, <2>7, <4>1, <4>2
    <3>4. QED
      BY <3>1, <3>2, <3>3
  <2>9. QED
    BY <2>2, <2>4, <2>8 DEF SoFar
<1>8. P = Nat
  <2> HIDE DEF P
  <2>1. P \in SUBSET Nat
    BY DEF P
  <2>2. QED
    BY <1>6, <1>7, <2>1, NatSetInduction
<1>9. SoFar(f[n].x, f[n], n, a, temp, wy, x0, vx)
      /\ SoFar(f[n].y, f[n], n, b, temp, wx, y0, vy)
  BY <1>8
<1>10. ASSUME NEW k \in P, k < n + 1
       PROVE  /\ k < a => Left(f[k].temp, temp, wy)
              /\ k < b => Left(f[k].temp, temp, wx)
  BY <1>10 DEF SoFar
<1>11. Looped(f[n].x, temp, wx, wy, x0)
  <2>1. CASE a = n + 1
    <3>1. n < a /\ wx = <<>>
      BY <1>5, <2>1
    <3>2. QED
      BY <1>9, <3>1 DEF SoFar, Looped
  <2>2. CASE a # n + 1
    <3>1. ~(n < a) /\ a - 1 \in Nat /\ a - 1 < n + 1 /\ a - 1 < a
      BY <1>5, <2>2
    <3>2. f[n].x = vx /\ wx # <<>>
      BY <1>5, <1>9, <2>2, <3>1 DEF SoFar
    <3>3. Left(f[a - 1].temp, temp, wy)
      BY <1>8, <1>10, <3>1
    <3>4. QED
      BY <1>3, <3>2, <3>3 DEF Looped
  <2>3. QED
    BY <2>1, <2>2
<1>12. Looped(f[n].y, temp, wy, wx, y0)
  <2>1. CASE b = n + 1
    <3>1. n < b /\ wy = <<>>
      BY <1>5, <2>1
    <3>2. QED
      BY <1>9, <3>1 DEF SoFar, Looped
  <2>2. CASE b # n + 1
    <3>1. ~(n < b) /\ b - 1 \in Nat /\ b - 1 < n + 1 /\ b - 1 < b
      BY <1>5, <2>2
    <3>2. f[n].y = vy /\ wy # <<>>
      BY <1>5, <1>9, <2>2, <3>1 DEF SoFar
    <3>3. Left(f[b - 1].temp, temp, wx)
      BY <1>8, <1>10, <3>1
    <3>4. QED
      BY <1>3, <3>2, <3>3 DEF Looped
  <2>3. QED
    BY <2>1, <2>2
<1>13. QED
  BY <1>2, <1>4, <1>11, <1>12

(* a number, or none, that a line may have after a letter *)
Fits(t) == /\ t \in Seq(Chars) /\ IsNumber(t) /\ Len(t) \in 0..8
           /\ t # <<>> => Decimals(t) <= Places

(* Where a letter is in a G1, and what is read after it. *)
LEMMA ArgumentWord ==
  ASSUME NEW l \in Lines, l.code = G1, NEW c \in {"X", "Y"},
         NEW s, s = Body(l), NEW n \in Nat, n = Len(s),
         NEW t, t = Argument(l, <<c>>)
  PROVE  Fits(t) /\ \E a : LetterAt(s, c, a, t)
<1>1. PICK i : i = FirstArgument(l, <<c>>)
  OBVIOUS
<1>2. t = IF i = 0 THEN <<>> ELSE l.args[i].number
  BY <1>1 DEF Argument, FirstArgument, SelectInSeq
<1>3. \/ i = 0 /\ \A j \in 1..n : s[j] # c
      \/ /\ i \in 1..Len(l.args) /\ LetterEnd(l, i) \in 1..n
         /\ \A j \in 1..n : s[j] = c <=> j = LetterEnd(l, i)
  BY <1>1, LetterIs
<1>4. CASE i = 0 /\ \A j \in 1..n : s[j] # c
  <2>1. t = <<>>
    BY <1>2, <1>4
  <2>2. Fits(t)
    <3>1. <<>> \in Seq(Chars) /\ Len(<<>>) = 0 /\ IsNumber(<<>>)
      BY DEF IsNumber
    <3>2. QED
      BY <2>1, <3>1 DEF Fits
  <2>3. PICK a \in 1..n + 1 : a = n + 1
    OBVIOUS
  <2>4. \A j \in 1..n : s[j] = c <=> j = a
    BY <1>4, <2>3
  <2>5. t \in Seq(Chars) /\ Len(t) \in 0..8
    BY <2>2 DEF Fits
  <2>6. LetterAt(s, c, a, t)
    BY <2>1, <2>3, <2>4, <2>5 DEF LetterAt
  <2>7. QED
    BY <2>2, <2>6
<1>5. CASE /\ i \in 1..Len(l.args) /\ LetterEnd(l, i) \in 1..n
           /\ \A j \in 1..n : s[j] = c <=> j = LetterEnd(l, i)
  <2>1. i # 0 /\ t = l.args[i].number
    BY <1>2, <1>5
  <2>2. t \in Seq(Chars) /\ IsArgument(l.args[i])
    BY <1>5, <2>1, ArgumentIs
  <2>3. t # <<>> /\ IsNumber(t) /\ Len(t) <= 8 /\ Decimals(t) <= Places
    BY <2>1, <2>2 DEF IsArgument
  <2>4. Len(t) \in 0..8
    <3>1. PICK k \in Nat : k = Len(t)
      BY <2>2, LenProperties
    <3>2. k <= 8
      BY <2>3, <3>1
    <3>3. k \in 0..8
      BY <3>2
    <3>4. QED
      BY ONLY <3>1, <3>3
  <2>5. PICK a \in 1..n + 1 : a = LetterEnd(l, i) /\ a # n + 1
    BY <1>5
  <2>6. \A j \in 1..n : s[j] = c <=> j = a
    BY <1>5, <2>5
  <2>7. WordAfter(s, a) = t
    BY <1>5, <2>1, <2>5, WordOfArgument
  <2>8. Fits(t)
    BY <2>2, <2>3, <2>4 DEF Fits
  <2>9. LetterAt(s, c, a, t)
    BY <2>2, <2>3, <2>4, <2>5, <2>6, <2>7 DEF LetterAt
  <2>10. QED
    BY <2>8, <2>9
<1>6. QED
  BY <1>3, <1>4, <1>5

(* A coordinate with the number t, beside one with the number other, becomes v *)
(* when temp was in memory; old is what it was.                            *)
ReadAs(t, other, temp, v, old) ==
  IF t = <<>> THEN v = old
  ELSE /\ Contains(t, ".") /\ (\A k \in DOMAIN temp : temp[k] \notin ExponentLetters)
          => v - Value(t) \in 0..Power(Places - Decimals(t)) - 1
       /\ Len(other) <= Len(t) /\ ~GoesOn(temp[Len(t) + 1]) => v = Value(t)

LEMMA NumberRead ==
  ASSUME NEW t, Fits(t), t # <<>>, NEW other, Fits(other), NEW temp \in Temps,
         NEW tm, Left(tm, temp, other), NEW old
  PROVE  ReadAs(t, other, temp, Atof(Stored(tm, 0, t)), old)
<1>1. /\ t \in Seq(Chars) /\ IsNumber(t) /\ Len(t) \in 0..8 /\ Decimals(t) <= Places
      /\ other \in Seq(Chars) /\ IsNumber(other) /\ Len(other) \in 0..8
  BY DEF Fits
<1>2. PICK z \in Nat : z = Len(temp) /\ z = Len(tm) /\ z > 8
  BY LenProperties DEF Temps, Left
<1>3. /\ tm \in Temps /\ DOMAIN temp = 1..z
      /\ \A j \in 1..z : tm[j] = temp[j] \/ (j \in 1..Len(other) /\ tm[j] = other[j])
  BY <1>2 DEF Left, Temps
<1>4. ASSUME Contains(t, "."), \A k \in DOMAIN temp : temp[k] \notin ExponentLetters
      PROVE  Atof(Stored(tm, 0, t)) - Value(t) \in 0..Power(Places - Decimals(t)) - 1
  <2>1. ASSUME NEW j \in 1..z PROVE tm[j] \notin ExponentLetters
    <3>1. CASE tm[j] = temp[j]
      BY <1>3, <1>4, <3>1
    <3>2. CASE j \in 1..Len(other) /\ tm[j] = other[j]
      <4>1. j \in DOMAIN other
        BY <1>1, <3>2
      <4>2. QED
        BY <1>1, <3>2, <4>1, NumberLetters
    <3>3. QED
      BY <1>3, <3>1, <3>2
  <2>2. QED
    BY <1>1, <1>2, <1>3, <1>4, <2>1, AtofStored
<1>5. ASSUME Len(other) <= Len(t), ~GoesOn(temp[Len(t) + 1])
      PROVE  Atof(Stored(tm, 0, t)) = Value(t)
  <2>1. PICK k \in 0..8 : k = Len(t)
    BY <1>1
  <2>2. PICK o \in 0..8 : o = Len(other)
    BY <1>1
  <2>3. k + 1 \in 1..z /\ ~(k + 1 \in 1..o)
    <3>1. o <= k
      BY <1>5, <2>1, <2>2
    <3>2. QED
      BY ONLY <1>2, <3>1, k \in 0..8, o \in 0..8, z \in Nat
  <2>4. tm[k + 1] = temp[k + 1]
    BY <1>3, <2>2, <2>3
  <2>5. ~GoesOn(tm[k + 1])
    BY <1>5, <2>1, <2>4
  <2>6. QED
    BY <1>1, <1>3, <2>1, <2>5, AtofExact
<1>6. QED
  BY <1>4, <1>5 DEF ReadAs

(* What a G1 leaves in the coordinates. *)
LEMMA CoordsOfLine ==
  ASSUME NEW l \in Lines, l.code = G1, NEW temp \in Temps,
         xCoord_ \in Int, yCoord_ \in Int,
         NEW tx, tx = Argument(l, <<"X">>), NEW ty, ty = Argument(l, <<"Y">>)
  PROVE  /\ ReadAs(tx, ty, temp, ParseCoords(Body(l), temp).x, xCoord_)
         /\ ReadAs(ty, tx, temp, ParseCoords(Body(l), temp).y, yCoord_)
<1>1. PICK s \in Seq(Chars) : s = Body(l)
  BY BodyIs
<1>2. PICK n \in Nat : n = Len(s)
  BY <1>1, LenProperties
<1>3. PICK p : p = ParseCoords(s, temp)
  OBVIOUS
<1>4. Fits(tx) /\ Fits(ty)
  BY <1>1, <1>2, ArgumentWord
<1>5. PICK a : LetterAt(s, "X", a, tx)
  BY <1>1, <1>2, ArgumentWord
<1>6. PICK b : LetterAt(s, "Y", b, ty)
  BY <1>1, <1>2, ArgumentWord
<1>7. Looped(p.x, temp, tx, ty, xCoord_) /\ Looped(p.y, temp, ty, tx, yCoord_)
  BY <1>3, <1>5, <1>6, Loop
<1>8. ReadAs(tx, ty, temp, p.x, xCoord_)
  BY <1>4, <1>7, NumberRead DEF Looped, ReadAs
<1>9. ReadAs(ty, tx, temp, p.y, yCoord_)
  BY <1>4, <1>7, NumberRead DEF Looped, ReadAs
<1>10. QED
  BY <1>1, <1>3, <1>8, <1>9

-----------------------------------------------------------------------------
(* The coordinates that are queued.                                        *)

(* the number that a command names a coordinate with, <<>> if it does not *)
Named(c, letter) == IF c.code = G1 THEN Argument(sent[c.line], letter) ELSE <<>>

(* a command c, after those before it *)
ReadAfter(c, before) ==
  LET tx == Named(c, <<"X">>)
      ty == Named(c, <<"Y">>)
  IN  /\ tx # <<>> => ReadAs(tx, ty, c.temp, c.x, 0)
      /\ ty # <<>> => ReadAs(ty, tx, c.temp, c.y, 0)
      /\ before # <<>> /\ tx = <<>> => c.x = Last(before).x
      /\ before # <<>> /\ ty = <<>> => c.y = Last(before).y

(* CoordinatesRead, and the members are as the last command left them. *)
AllRead ==
  /\ \A i \in 1..Len(commands) : ReadAfter(commands[i], SubSeq(commands, 1, i - 1))
  /\ commands # <<>> => Last(commands).x = xCoord_ /\ Last(commands).y = yCoord_

LEMMA AllReadComplete ==
  ASSUME TypeInv, AllRead, NEW n \in 1..Len(wire), NEW q, NEW line, NEW m, NEW d,
         NEW temp, Completes(n, q, line, m, d, temp), Read(line) # None
  PROVE  AllRead'
<1>1. PICK c : c = [line |-> m, code |-> Read(line), angle |-> angle_',
                    x |-> xCoord_', y |-> yCoord_', temp |-> Used(line, temp)]
  OBVIOUS
<1>2. /\ commands' = Append(commands, c) /\ sent' = sent /\ Parse(line, temp)
      /\ c.line = m /\ c.code = Read(line) /\ c.x = xCoord_' /\ c.y = yCoord_'
      /\ c.temp = Used(line, temp) /\ temp \in Stack
  BY <1>1 DEF Completes
<1>3. PICK l \in Lines : l = sent[m]
  BY DEF TypeInv, Arriving, Completes, CompletedAs
<1>4. line = Body(l) /\ Read(line) = l.code
  BY <1>3, CompletedCommand DEF TypeInv, Completes
<1>5. commands \in Seq(Command) /\ xCoord_ \in Int /\ yCoord_ \in Int
  BY DEF TypeInv
<1>6. PICK k \in Nat : k = Len(commands)
  BY <1>5
<1>7. PICK com : com = commands'
  OBVIOUS
<1>8. /\ Len(com) = k + 1 /\ com[k + 1] = c /\ SubSeq(com, 1, k) = commands
      /\ \A i \in 1..k : com[i] = commands[i]
                        /\ SubSeq(com, 1, i - 1) = SubSeq(commands, 1, i - 1)
  <2>1. /\ Len(com) = k + 1 /\ com[k + 1] = c
        /\ \A i \in 1..k : com[i] = commands[i]
    BY <1>2, <1>5, <1>6, <1>7
  <2>2. com \in Seq(Command \cup {c})
    BY <1>2, <1>5, <1>7
  <2>3. ASSUME NEW i \in 0..k PROVE SubSeq(com, 1, i) = SubSeq(commands, 1, i)
    <3>1. PICK S : S = Command \cup {c}
      OBVIOUS
    <3>2. (\A j \in 1..i : com[j] \in S) /\ (\A j \in 1..i : commands[j] \in S)
      BY <1>5, <1>6, <2>1, <3>1
    <3>3. PICK u, v : u = SubSeq(com, 1, i) /\ v = SubSeq(commands, 1, i)
      OBVIOUS
    <3>4. i - 1 + 1 = i /\ i \in Int
      OBVIOUS
    <3>5. /\ u \in Seq(S) /\ Len(u) = IF 1 <= i THEN i - 1 + 1 ELSE 0
          /\ \A j \in 1..i - 1 + 1 : u[j] = com[1 + j - 1]
      BY <3>2, <3>3, <3>4, SubSeqProperties
    <3>6. /\ v \in Seq(S) /\ Len(v) = IF 1 <= i THEN i - 1 + 1 ELSE 0
          /\ \A j \in 1..i - 1 + 1 : v[j] = commands[1 + j - 1]
      BY <3>2, <3>3, <3>4, SubSeqProperties
    <3>7. Len(u) = Len(v) /\ \A j \in 1..Len(u) : u[j] = v[j]
      <4>1. \A j \in 1..i : 1 + j - 1 = j /\ j \in 1..k
        OBVIOUS
      <4>2. (1 <= i => Len(u) = i) /\ (~(1 <= i) => Len(u) = 0)
        BY <3>4, <3>5
      <4>3. \A j \in 1..i : u[j] = v[j]
        BY <2>1, <3>4, <3>5, <3>6, <4>1
      <4>4. QED
        BY <3>5, <3>6, <4>2, <4>3
    <3>8. QED
      BY <3>3, <3>5, <3>6, <3>7, SeqEqual
  <2>4. SubSeq(commands, 1, k) = commands
    BY <1>5, <1>6
  <2>5. \A i \in 1..k : i - 1 \in 0..k
    OBVIOUS
  <2>6. QED
    BY <2>1, <2>3, <2>4, <2>5
<1>9. ReadAfter(c, commands)
  <2>1. commands # <<>> => Last(commands).x = xCoord_ /\ Last(commands).y = yCoord_
    BY DEF AllRead
  <2>2. sent[c.line] = l
    BY <1>2, <1>3
  <2>3. CASE c.code = G1
    <3>1. /\ c.x = ParseCoords(line, temp).x /\ c.y = ParseCoords(line, temp).y
          /\ c.temp = temp
      BY <1>2, <2>3, ParseIs DEF Used
    <3>2. temp \in Temps
      BY <1>2, StackTemps
    <3>3. PICK tx, ty : tx = Argument(l, <<"X">>) /\ ty = Argument(l, <<"Y">>)
      OBVIOUS
    <3>4. /\ ReadAs(tx, ty, c.temp, c.x, xCoord_)
          /\ ReadAs(ty, tx, c.temp, c.y, yCoord_)
      BY <1>2, <1>4, <1>5, <2>3, <3>1, <3>2, <3>3, CoordsOfLine
    <3>5. Named(c, <<"X">>) = tx /\ Named(c, <<"Y">>) = ty
      BY <2>2, <2>3, <3>3 DEF Named
    <3>6. QED
      BY <2>1, <3>4, <3>5 DEF ReadAfter, ReadAs
  <2>4. CASE c.code # G1
    <3>1. c.x = xCoord_ /\ c.y = yCoord_
      BY <1>2, <2>4, ParseIs
    <3>2. Named(c, <<"X">>) = <<>> /\ Named(c, <<"Y">>) = <<>>
      BY <2>4 DEF Named
    <3>3. QED
      BY <2>1, <3>1, <3>2 DEF ReadAfter
  <2>5. QED
    BY <2>3, <2>4
<1>10. ASSUME NEW i \in 1..k + 1 PROVE ReadAfter(com[i], SubSeq(com, 1, i - 1))
  <2>1. CASE i = k + 1
    <3>1. i - 1 = k
      BY <2>1
    <3>2. QED
      BY <1>8, <1>9, <2>1, <3>1
  <2>2. CASE i \in 1..k
    BY <1>6, <1>8, <2>2 DEF AllRead
  <2>3. QED
    BY <2>1, <2>2
<1>11. Last(com).x = xCoord_' /\ Last(com).y = yCoord_'
  BY <1>2, <1>8 DEF Last
<1>12. (\A i \in 1..Len(commands) :
          ReadAfter(commands[i], SubSeq(commands, 1, i - 1)))'
  <2>1. \A i \in 1..k + 1 : (ReadAfter(com[i], SubSeq(com, 1, i - 1)))'
    BY <1>2, <1>10 DEF ReadAfter, Named
  <2>2. QED
    BY <1>7, <1>8, <2>1
<1>13. QED
  BY <1>7, <1>11, <1>12 DEF AllRead

LEMMA AllReadStep ==
  ASSUME TypeInv, AllRead, [Next]_vars
  PROVE  AllRead'
<1>1. ASSUME sent' = sent, xCoord_' = xCoord_, yCoord_' = yCoord_,
             commands' = commands
      PROVE  AllRead'
  BY <1>1 DEF AllRead, ReadAfter, Named
<1>2. CASE UNCHANGED vars
  BY <1>1, <1>2 DEF vars, members
<1>3. ASSUME NEW n \in 1..Len(wire), NEW q, NEW line, NEW m, NEW d,
             NEW temp, Completes(n, q, line, m, d, temp)
      PROVE  AllRead'
  <2>1. CASE Read(line) = None
    <3>1. sent' = sent /\ commands' = commands /\ Parse(line, temp)
      BY <1>3, <2>1 DEF Completes
    <3>2. xCoord_' = xCoord_ /\ yCoord_' = yCoord_
      BY <2>1, <3>1, ParseIs, CommandsDiffer
    <3>3. QED
      BY <1>1, <3>1, <3>2
  <2>2. CASE Read(line) # None
    BY <1>3, <2>2, AllReadComplete
  <2>3. QED
    BY <2>1, <2>2
<1>4. CASE Next
  <2>1. PICK n \in 1..Len(wire) :
          \/ /\ \A i \in 1..n : wire[i] # NewLine
             /\ wire' = SubSeq(wire, n + 1, Len(wire)) /\ sent' = sent
             /\ xCoord_' = xCoord_ /\ yCoord_' = yCoord_ /\ commands' = commands
          \/ \E q, line, m, d, temp : Completes(n, q, line, m, d, temp)
    BY <1>4, NextIs
  <2>2. QED
    BY <1>1, <1>3, <2>1
<1>5. QED
  BY <1>2, <1>4

(* A G1's coordinate with a decimal point is read to within its last place,   *)
(* whatever digits stood in memory from temp on and whatever the other one   *)
(* left there, if no e did; any coordinate is read exactly, if the other is  *)
(* no longer and the character behind it does not go on with the number.  One *)
(* that a command does not name stays as the command before left it.       *)
THEOREM GCodeCoordinatesRead == Spec => []CoordinatesRead
<1>1. Init => AllRead
  BY DEF Init, AllRead
<1>2. TypeInv /\ AllRead => CoordinatesRead
  <2> SUFFICES ASSUME TypeInv, AllRead, NEW i \in DOMAIN commands
               PROVE  /\ CoordinateRead(i, <<"X">>, <<"Y">>, LAMBDA c : c.x)
                      /\ CoordinateRead(i, <<"Y">>, <<"X">>, LAMBDA c : c.y)
    BY DEF CoordinatesRead
  <2>1. commands \in Seq(Command) /\ i \in 1..Len(commands)
    BY DEF TypeInv
  <2>2. PICK c, before : c = commands[i] /\ before = SubSeq(commands, 1, i - 1)
    OBVIOUS
  <2>3. PICK l, tx, ty : /\ l = sent[c.line]
                         /\ tx = Argument(l, <<"X">>) /\ ty = Argument(l, <<"Y">>)
    OBVIOUS
  <2>4. PICK nx, ny : nx = Named(c, <<"X">>) /\ ny = Named(c, <<"Y">>)
    OBVIOUS
  <2>5. /\ nx # <<>> => ReadAs(nx, ny, c.temp, c.x, 0)
        /\ ny # <<>> => ReadAs(ny, nx, c.temp, c.y, 0)
        /\ before # <<>> /\ nx = <<>> => c.x = Last(before).x
        /\ before # <<>> /\ ny = <<>> => c.y = Last(before).y
    BY <2>1, <2>2, <2>4 DEF AllRead, ReadAfter
  <2>6. i > 1 => before # <<>> /\ Last(before) = commands[i - 1]
    <3> SUFFICES ASSUME i > 1 PROVE before # <<>> /\ Last(before) = commands[i - 1]
      OBVIOUS
    <3>1. PICK k \in 1..Len(commands) : k = i - 1
      BY <2>1
    <3>2. Len(before) = k /\ before[k] = commands[k]
      BY <2>1, <2>2, <3>1
    <3>3. QED
      BY <3>1, <3>2 DEF Last
  <2>7. CASE c.code = G1
    <3>1. nx = tx /\ ny = ty
      BY <2>3, <2>4, <2>7 DEF Named
    <3>2. CoordinateRead(i, <<"X">>, <<"Y">>, LAMBDA a : a.x)
      BY <2>2, <2>3, <2>5, <2>6, <2>7, <3>1 DEF CoordinateRead, ReadAs
    <3>3. CoordinateRead(i, <<"Y">>, <<"X">>, LAMBDA a : a.y)
      BY <2>2, <2>3, <2>5, <2>6, <2>7, <3>1 DEF CoordinateRead, ReadAs
    <3>4. QED
      BY <3>2, <3>3
  <2>8. CASE c.code # G1
    <3>1. nx = <<>> /\ ny = <<>>
      BY <2>4, <2>8 DEF Named
    <3>2. QED
      BY <2>2, <2>5, <2>6, <2>8, <3>1 DEF CoordinateRead
  <2>9. QED
    BY <2>7, <2>8
<1>3. QED
  BY <1>1, <1>2, TypeInit, TypeStep, AllReadStep, PTL DEF Spec

=============================================================================

------------------------- MODULE DifficultyProofs -------------------------
(***************************************************************************)
(* Lemmas about the operators of Difficulty, for every configuration.      *)
(***************************************************************************)
EXTENDS Difficulty, WellFoundedInduction, TLAPS

-----------------------------------------------------------------------------
(* Natural numbers.                                                         *)

\* Every non-empty set of naturals has a least element.
LEMMA LeastNat ==
  ASSUME NEW T, T \subseteq Nat, T # {}
  PROVE  \E x \in T : \A y \in T : x <= y
<1> DEFINE R == OpToRel(<, Nat)
<1>1. IsWellFoundedOn(R, Nat)
  BY NatLessThanWellFounded, Zenon
<1> HIDE DEF R
<1>2. \E x \in T : \A y \in T : ~ (<<y, x>> \in R)
  BY <1>1, WFMin
<1>3. PICK x \in T : \A y \in T : ~ (<<y, x>> \in R)
  BY <1>2
<1>4. \A y \in Nat, z \in Nat : y < z => <<y, z>> \in R
  BY DEF R, OpToRel
<1>5. \A y \in T : x \in Nat /\ y \in Nat /\ ~(y < x)
  BY <1>3, <1>4
<1>6. \A y \in T : x <= y
  BY <1>5
<1> QED
  BY <1>6

\* Induction over the natural numbers, for membership in a set.
LEMMA SetInduction ==
  ASSUME NEW S, 0 \in S, \A n \in Nat : n \in S => n + 1 \in S
  PROVE  \A n \in Nat : n \in S
<1> SUFFICES ASSUME Nat \ S # {} PROVE FALSE
  OBVIOUS
<1>1. PICK x \in Nat \ S : \A y \in Nat \ S : x <= y
  BY LeastNat
<1>2. x - 1 \in Nat /\ x - 1 \in S
  BY <1>1
<1> QED
  BY <1>1, <1>2

-----------------------------------------------------------------------------
(* Arithmetic.                                                              *)

\* A product of positive numbers is positive.
LEMMA MulPositive ==
  ASSUME NEW a \in Nat \ {0}, NEW b \in Nat \ {0}
  PROVE  a * b \in Nat \ {0}
BY SMT

\* Multiplication by a natural number is monotone.
LEMMA MulMonotone ==
  ASSUME NEW a \in Int, NEW b \in Int, NEW c \in Nat, a <= b
  PROVE  a * c <= b * c
BY SMT

\* Multiplication can be regrouped.
LEMMA MulRegroup ==
  ASSUME NEW a \in Int, NEW b \in Int, NEW c \in Int, NEW d \in Int
  PROVE  (a * b) * (c * d) = (a * c) * (b * d)
BY SMT

\* The expected duration of a window is positive.
LEMMA ExpectedPositive == TotalTimeExpected \in Nat \ {0}
BY ConfigAssumption, MulPositive DEF TotalTimeExpected

-----------------------------------------------------------------------------
(* The factor of an adjustment.                                             *)

\* The factor of DifficultyAdjuster::adjust is a positive number between
\* 1 / limit and limit, and exceeds 1 only if the window was too short.
LEMMA FactorBounded ==
  ASSUME NEW actual \in Int
  PROVE  LET f == AdjustFactor(actual)
         IN  /\ f \in Positive
             /\ f.num <= FactorLimit * f.den
             /\ f.den <= FactorLimit * f.num
             /\ f.num > f.den => actual < TotalTimeExpected
<1> DEFINE e == TotalTimeExpected
           f == AdjustFactor(actual)
<1>1. e \in Nat \ {0} /\ FactorLimit \in Nat \ {0}
  BY ExpectedPositive, ConfigAssumption
<1>2. e * FactorLimit \in Nat /\ actual * FactorLimit \in Int
  BY <1>1, SMT
<1>3. CASE actual < 0 \/ e * FactorLimit < actual
  <2>1. f = [num |-> 1, den |-> FactorLimit]
    BY <1>3 DEF AdjustFactor, Frac
  <2>2. FactorLimit * FactorLimit >= 1
    BY <1>1, MulPositive
  <2> QED
    BY <1>1, <2>1, <2>2 DEF Positive
<1>4. CASE ~(actual < 0 \/ e * FactorLimit < actual) /\ actual * FactorLimit < e
  <2>1. f = [num |-> FactorLimit, den |-> 1]
    BY <1>4 DEF AdjustFactor, Frac
  <2>2. FactorLimit * FactorLimit >= 1
    BY <1>1, MulPositive
  <2>3. actual * 1 <= actual * FactorLimit
    BY <1>1, <1>4
  <2> QED
    BY <1>1, <1>2, <1>4, <2>1, <2>2, <2>3 DEF Positive
<1>5. CASE ~(actual < 0 \/ e * FactorLimit < actual) /\ ~(actual * FactorLimit < e)
  <2>1. f = [num |-> e, den |-> actual]
    BY <1>5 DEF AdjustFactor, Frac
  <2>2. actual # 0
    BY <1>1, <1>5
  <2> QED
    BY <1>1, <1>2, <1>5, <2>1, <2>2 DEF Positive
<1> QED
  BY <1>3, <1>4, <1>5

-----------------------------------------------------------------------------
(* The adjuster.                                                            *)

\* A product of positive fractions, and a sum of a nonnegative and a positive
\* one, have the expected signs.
LEMMA FracTyped ==
  ASSUME NEW x \in Positive, NEW y \in Positive, NEW z \in NonNegative
  PROVE  FracMul(x, y) \in Positive /\ FracAdd(z, x) \in NonNegative
<1>1. /\ x.num * y.num \in Nat \ {0} /\ x.den * y.den \in Nat \ {0}
      /\ z.den * x.den \in Nat \ {0}
  BY MulPositive DEF Positive, NonNegative
<1>2. z.num * x.den \in Nat /\ x.num * z.den \in Nat
  BY DEF Positive, NonNegative
<1> QED
  BY <1>1, <1>2 DEF FracMul, FracAdd, Frac, Positive, NonNegative

\* A fresh DifficultyAdjuster is well-typed.
LEMMA InitAdjusterTyped == InitAdjuster \in Adjuster
BY ConfigAssumption DEF InitAdjuster, Adjuster, Frac, Positive, NonNegative

\* An adjustment of the difficulty keeps the adjuster well-typed.
LEMMA RetargetedTyped ==
  ASSUME NEW da \in Adjuster, NEW ts \in Int
  PROVE  Retargeted(da, ts) \in Adjuster
<1> DEFINE f == AdjustFactor(ts - da.timestamp)
<1>1. ts - da.timestamp \in Int
  BY DEF Adjuster
<1>2. f \in Positive
  BY <1>1, FactorBounded
<1>3. da.difficulty \in Positive /\ da.cumulative \in NonNegative
  BY DEF Adjuster
<1> HIDE DEF f
<1>4. FracMul(da.difficulty, f) \in Positive
  BY <1>2, <1>3, FracTyped
<1>5. FracAdd(da.cumulative, FracMul(da.difficulty, f)) \in NonNegative
  BY <1>2, <1>3, <1>4, FracTyped
<1> QED
  BY <1>4, <1>5 DEF Retargeted, Adjuster, f

\* DifficultyAdjuster::adjust keeps the adjuster well-typed and counts.
LEMMA AdjustTyped ==
  ASSUME NEW da \in Adjuster, NEW ts \in Int
  PROVE  /\ Adjust(da, ts) \in Adjuster
         /\ Adjust(da, ts).counter = da.counter + 1
<1>1. CASE da.counter = 0
  BY <1>1 DEF Adjust, Started, Adjuster
<1>2. CASE da.counter # 0 /\ da.counter % AdjustAfter = 0
  <2>1. Adjust(da, ts) = Retargeted(da, ts)
    BY <1>2 DEF Adjust
  <2> QED
    BY <2>1, RetargetedTyped DEF Retargeted
<1>3. CASE da.counter # 0 /\ da.counter % AdjustAfter # 0
  BY <1>3 DEF Adjust, Adjuster
<1> QED
  BY <1>1, <1>2, <1>3

\* An adjustment changes the difficulty by at most the limit, raises it only
\* after a short window, and adds to the cumulative difficulty.
LEMMA RetargetedBounded ==
  ASSUME NEW da \in Adjuster, NEW ts \in Int
  PROVE  LET old == da.difficulty
             new == Retargeted(da, ts).difficulty
         IN  /\ FracLeq(new, FracMul(old, Frac(FactorLimit, 1)))
             /\ FracLeq(FracMul(old, Frac(1, FactorLimit)), new)
             /\ ~FracLeq(new, old) => ts - da.timestamp < TotalTimeExpected
             /\ FracLeq(da.cumulative, Retargeted(da, ts).cumulative)
<1> DEFINE f == AdjustFactor(ts - da.timestamp)
           a == da.difficulty.num
           b == da.difficulty.den
           c == da.cumulative.num
           d == da.cumulative.den
<1>1. /\ f \in Positive
      /\ f.num <= FactorLimit * f.den
      /\ f.den <= FactorLimit * f.num
      /\ f.num > f.den => ts - da.timestamp < TotalTimeExpected
  <2>1. ts - da.timestamp \in Int
    BY DEF Adjuster
  <2> QED
    BY <2>1, FactorBounded
<1>2. /\ a \in Nat \ {0} /\ b \in Nat \ {0}
      /\ c \in Nat /\ d \in Nat \ {0}
      /\ FactorLimit \in Nat \ {0}
      /\ f.num \in Nat \ {0} /\ f.den \in Nat \ {0}
  BY <1>1, ConfigAssumption DEF Adjuster, Positive, NonNegative
<1>3. /\ Retargeted(da, ts).difficulty = [num |-> a * f.num, den |-> b * f.den]
      /\ Retargeted(da, ts).cumulative
           = [num |-> c * (b * f.den) + (a * f.num) * d, den |-> d * (b * f.den)]
  BY DEF Retargeted, FracMul, FracAdd, Frac
<1> DEFINE p == f.num
           q == f.den
           L == FactorLimit
<1> HIDE DEF a, b, c, d, p, q, L, f
<1>4. (a * p) * (b * 1) <= (a * L) * (b * q)
  <2>1. (a * p) * (b * 1) = (a * b) * p
    BY <1>2 DEF p, q, L
  <2>2. (a * L) * (b * q) = (a * b) * (L * q)
    BY <1>2, MulRegroup DEF p, q, L
  <2>3. a * b \in Nat /\ p \in Int /\ L * q \in Int /\ p <= L * q
    BY <1>1, <1>2 DEF p, q, L
  <2> QED
    BY <2>1, <2>2, <2>3
<1>5. (a * 1) * (b * q) <= (a * p) * (b * L)
  <2>1. (a * 1) * (b * q) = (a * b) * q
    BY <1>2 DEF p, q, L
  <2>2. (a * p) * (b * L) = (a * b) * (L * p)
    BY <1>2, MulRegroup DEF p, q, L
  <2>3. a * b \in Nat /\ q \in Int /\ L * p \in Int /\ q <= L * p
    BY <1>1, <1>2 DEF p, q, L
  <2> QED
    BY <2>1, <2>2, <2>3
<1>6. ~((a * p) * b <= a * (b * q)) => p > q
  <2>1. (a * p) * b = (a * b) * p /\ a * (b * q) = (a * b) * q
    BY <1>2 DEF p, q
  <2>2. a * b \in Nat /\ p \in Int /\ q \in Int
    BY <1>2 DEF p, q
  <2> QED
    BY <2>1, <2>2
<1>7. c * (d * (b * q)) <= (c * (b * q) + (a * p) * d) * d
  <2> DEFINE u == b * q
             v == a * p
  <2>1. u \in Nat /\ v \in Nat
    BY <1>2 DEF p, q
  <2> HIDE DEF u, v
  <2>2. (c * u + v * d) * d = c * (d * u) + (v * d) * d
    BY <1>2, <2>1
  <2>3. (v * d) * d \in Nat /\ c * (d * u) \in Nat
    BY <1>2, <2>1
  <2>4. c * (d * u) <= (c * u + v * d) * d
    BY <2>2, <2>3
  <2> QED
    BY <2>4 DEF u, v
<1> QED
  BY <1>1, <1>3, <1>4, <1>5, <1>6, <1>7
  DEF FracLeq, FracMul, Frac, a, b, c, d, p, q, L
=============================================================================

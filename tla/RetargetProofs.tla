-------------------------- MODULE RetargetProofs --------------------------
(***************************************************************************)
(* The difficulty adjuster is correct for every configuration and every    *)
(* sequence of timestamps, including ones that go backwards.               *)
(***************************************************************************)
EXTENDS Retarget, DifficultyProofs

\* The inductive invariant: WindowStart speaks of the number of timestamps,
\* the code of its counter, and CountsBlocks relates the two.
IInv == TypeOK /\ CountsBlocks /\ WindowStart

-----------------------------------------------------------------------------
\* Start of the window of a chain with k + 1 blocks.
Start(k) == (k \div AdjustAfter) * AdjustAfter + 1

\* A new window starts exactly when the number of blocks is a multiple of
\* adjust_after, which is what DifficultyAdjuster::adjust tests.
LEMMA StartStep ==
  ASSUME NEW k \in Nat \ {0}
  PROVE  /\ k % AdjustAfter = 0 => Start(k) = k + 1
         /\ k % AdjustAfter # 0 => Start(k) = Start(k - 1)
         /\ Start(k - 1) \in 1..k
<1> DEFINE A == AdjustAfter
           q == k \div A
           r == k % A
           p == (k - 1) \div A
           s == (k - 1) % A
<1>1. A \in Nat \ {0}
  BY ConfigAssumption
<1>2. /\ q \in Nat /\ r \in 0..(A - 1) /\ k = q * A + r
      /\ p \in Nat /\ s \in 0..(A - 1) /\ k - 1 = p * A + s
  BY <1>1
<1> HIDE DEF A, q, r, p, s
<1>3. q * A \in Nat /\ p * A \in Nat
  BY <1>1, <1>2
<1>4. r # 0 => q = p
  <2> SUFFICES ASSUME r # 0 PROVE q = p
    OBVIOUS
  <2>1. q * A - p * A = s + 1 - r
    BY <1>1, <1>2, <1>3
  <2>2. CASE q > p
    <3>1. (q - p) * A >= A /\ (q - p) * A = q * A - p * A
      BY <1>1, <1>2, <2>2
    <3> QED
      BY <1>1, <1>2, <1>3, <2>1, <3>1
  <2>3. CASE q < p
    <3>1. (p - q) * A >= A /\ (p - q) * A = p * A - q * A
      BY <1>1, <1>2, <2>3
    <3> QED
      BY <1>1, <1>2, <1>3, <2>1, <3>1
  <2> QED
    BY <1>2, <2>2, <2>3
<1>5. p * A + 1 \in 1..k
  BY <1>1, <1>2, <1>3
<1> QED
  BY <1>2, <1>3, <1>4, <1>5 DEF Start, A, q, r, p, s

-----------------------------------------------------------------------------
\* One step of the adjuster preserves the invariant.
LEMMA Inductive == IInv /\ [Next]_vars => IInv'
<1> SUFFICES ASSUME IInv, [Next]_vars PROVE IInv'
  OBVIOUS
<1>1. CASE UNCHANGED vars
  BY <1>1 DEF vars, IInv, TypeOK, CountsBlocks, WindowStart
<1>2. ASSUME NEW ts \in Stamps, AdjustTo(ts) PROVE IInv'
  <2> DEFINE k == Len(stamps)
  <2>1. /\ ts \in Int /\ da \in Adjuster /\ stamps \in Seq(Int) /\ k \in Nat
        /\ da.counter = k
    BY RetargetAssumption DEF IInv, TypeOK, CountsBlocks
  <2>2. da' = Adjust(da, ts) /\ stamps' = Append(stamps, ts)
    BY <1>2 DEF AdjustTo
  <2>3. /\ stamps' \in Seq(Int) /\ Len(stamps') = k + 1 /\ stamps' # <<>>
        /\ stamps'[k + 1] = ts
        /\ \A i \in 1..k : stamps'[i] = stamps[i]
    BY <2>1, <2>2
  <2>4. TypeOK' /\ CountsBlocks'
    BY <2>1, <2>2, <2>3, AdjustTyped DEF TypeOK, CountsBlocks
  <2>5. da'.timestamp = stamps'[Start(k)]
    <3>1. CASE k = 0
      <4>1. da'.timestamp = ts
        BY <2>1, <2>2, <3>1 DEF Adjust, Started
      <4>2. Start(0) = 1
        BY ConfigAssumption DEF Start
      <4> QED
        BY <2>3, <3>1, <4>1, <4>2
    <3>2. CASE k # 0 /\ k % AdjustAfter = 0
      <4>1. da'.timestamp = ts
        BY <2>1, <2>2, <3>2 DEF Adjust, Retargeted
      <4>2. Start(k) = k + 1
        BY <2>1, <3>2, StartStep
      <4> QED
        BY <2>3, <4>1, <4>2
    <3>3. CASE k # 0 /\ k % AdjustAfter # 0
      <4>1. da' = [da EXCEPT !.counter = @ + 1]
        BY <2>1, <2>2, <3>3 DEF Adjust
      <4>2. da'.timestamp = da.timestamp
        BY <2>1, <4>1 DEF Adjuster
      <4>3. Start(k) = Start(k - 1) /\ Start(k - 1) \in 1..k
        BY <2>1, <3>3, StartStep
      <4>4. da.timestamp = stamps[Start(k - 1)]
        BY <2>1, <3>3 DEF IInv, WindowStart, Start
      <4> QED
        BY <2>3, <4>2, <4>3, <4>4
    <3> QED
      BY <3>1, <3>2, <3>3
  <2>6. WindowStart'
    BY <2>1, <2>3, <2>5 DEF WindowStart, Start
  <2> QED
    BY <2>4, <2>6 DEF IInv
<1> QED
  BY <1>1, <1>2 DEF Next

\* IInv holds after every sequence of calls of adjust.
THEOREM Invariance == Spec => []IInv
<1>1. Init => IInv
  BY InitAdjusterTyped DEF Init, IInv, TypeOK, CountsBlocks, WindowStart, InitAdjuster
<1> QED
  BY <1>1, Inductive, PTL DEF Spec

\* The fields of a DifficultyAdjuster have their types; in particular the
\* difficulty stays a positive number.
THEOREM TypeCorrect == Spec => []TypeOK
<1>1. IInv => TypeOK
  BY DEF IInv
<1> QED
  BY <1>1, Invariance, PTL

\* The window that DifficultyAdjuster::adjust measures always starts at the
\* block of the last adjustment.
THEOREM WindowCorrect == Spec => []WindowStart
<1>1. IInv => WindowStart
  BY DEF IInv
<1> QED
  BY <1>1, Invariance, PTL

-----------------------------------------------------------------------------
\* A fraction is at most itself.
LEMMA FracLeqRefl ==
  ASSUME NEW x \in NonNegative
  PROVE  FracLeq(x, x)
BY DEF FracLeq, NonNegative

\* A difficulty that stays the same is within the limit.
LEMMA SameIsBounded ==
  ASSUME NEW x \in Positive
  PROVE  /\ FracLeq(x, FracMul(x, Frac(FactorLimit, 1)))
         /\ FracLeq(FracMul(x, Frac(1, FactorLimit)), x)
<1> DEFINE a == x.num
           b == x.den
           L == FactorLimit
<1>1. a \in Nat \ {0} /\ b \in Nat \ {0} /\ L \in Nat \ {0}
  BY ConfigAssumption DEF Positive
<1> HIDE DEF a, b, L
<1>2. a * b \in Nat /\ a * b <= (a * b) * L
  BY <1>1
<1>3. /\ (a * L) * b = (a * b) * L /\ a * (b * L) = (a * b) * L
      /\ a * (b * 1) = a * b /\ (a * 1) * b = a * b
  BY <1>1
<1> QED
  BY <1>2, <1>3 DEF FracLeq, FracMul, Frac, a, b, L

\* A single call of adjust respects the limit in both directions, raises the
\* difficulty only after a window shorter than expected, and never lowers the
\* cumulative difficulty.
LEMMA StepBounded ==
  ASSUME TypeOK, [Next]_vars
  PROVE  [BoundedStep]_vars
<1>1. CASE UNCHANGED vars
  BY <1>1
<1>2. ASSUME NEW ts \in Stamps, AdjustTo(ts) PROVE BoundedStep
  <2>1. /\ ts \in Int /\ da \in Adjuster
        /\ da' = Adjust(da, ts) /\ stamps'[Len(stamps')] = ts
    BY <1>2, RetargetAssumption DEF TypeOK, AdjustTo
  <2>2. da.difficulty \in Positive /\ da.cumulative \in NonNegative
    BY <2>1 DEF Adjuster
  <2>3. CASE da.counter # 0 /\ da.counter % AdjustAfter = 0
    <3>1. da' = Retargeted(da, ts)
      BY <2>1, <2>3 DEF Adjust
    <3> QED
      BY <2>1, <3>1, RetargetedBounded DEF BoundedStep
  <2>4. CASE ~(da.counter # 0 /\ da.counter % AdjustAfter = 0)
    <3>1. da'.difficulty = da.difficulty /\ da'.cumulative = da.cumulative
      BY <2>1, <2>4 DEF Adjust, Started, Adjuster
    <3>2. da.difficulty \in NonNegative
      BY <2>2 DEF Positive, NonNegative
    <3> QED
      BY <2>2, <3>1, <3>2, SameIsBounded, FracLeqRefl DEF BoundedStep
  <2> QED
    BY <2>3, <2>4
<1> QED
  BY <1>1, <1>2 DEF Next

\* No sequence of blocks makes DifficultyAdjuster::adjust change the
\* difficulty by more than the limit, or lower the cumulative difficulty.
THEOREM AdjustmentBounded == Spec => BoundedAdjustment
<1>1. TypeOK /\ [Next]_vars => [BoundedStep]_vars
  BY StepBounded
<1> QED
  BY <1>1, TypeCorrect, PTL DEF Spec, BoundedAdjustment


-----------------------------------------------------------------------------
(* The closed form.                                                         *)

\* Fractions are equal iff their cross products are.
LEMMA FracEqIs ==
  ASSUME NEW x \in NonNegative, NEW y \in NonNegative
  PROVE  FracEq(x, y) <=> x.num * y.den = y.num * x.den
<1>1. x.num * y.den \in Int /\ y.num * x.den \in Int
  BY DEF NonNegative
<1> QED
  BY <1>1 DEF FracEq, FracLeq

\* Products of equal fractions are equal.
LEMMA FracEqMul ==
  ASSUME NEW x \in Positive, NEW y \in Positive, NEW u \in Positive, NEW v \in Positive,
         FracEq(x, y), FracEq(u, v)
  PROVE  FracEq(FracMul(x, u), FracMul(y, v))
<1> DEFINE a == x.num
           b == x.den
           c == y.num
           d == y.den
           e == u.num
           f == u.den
           g == v.num
           h == v.den
<1>1. /\ a \in Nat /\ b \in Nat /\ c \in Nat /\ d \in Nat
      /\ e \in Nat /\ f \in Nat /\ g \in Nat /\ h \in Nat
      /\ x \in NonNegative /\ y \in NonNegative /\ u \in NonNegative /\ v \in NonNegative
  BY DEF Positive, NonNegative
<1>2. a * d = c * b /\ e * h = g * f
  BY <1>1, FracEqIs
<1>3. FracMul(x, u) \in NonNegative /\ FracMul(y, v) \in NonNegative
  BY FracTyped DEF Positive, NonNegative
<1>4. /\ FracMul(x, u).num = a * e /\ FracMul(x, u).den = b * f
      /\ FracMul(y, v).num = c * g /\ FracMul(y, v).den = d * h
  BY DEF FracMul, Frac
<1> HIDE DEF a, b, c, d, e, f, g, h
<1>5. (a * e) * (d * h) = (a * d) * (e * h) /\ (c * g) * (b * f) = (c * b) * (g * f)
  BY <1>1, MulRegroup
<1> QED
  BY <1>2, <1>3, <1>4, <1>5, FracEqIs

\* Sums of equal fractions are equal.
LEMMA FracEqAdd ==
  ASSUME NEW x \in NonNegative, NEW y \in NonNegative,
         NEW u \in Positive, NEW v \in Positive, FracEq(x, y), FracEq(u, v)
  PROVE  FracEq(FracAdd(x, u), FracAdd(y, v))
<1> DEFINE a == x.num
           b == x.den
           c == y.num
           d == y.den
           e == u.num
           f == u.den
           g == v.num
           h == v.den
<1>1. /\ a \in Nat /\ b \in Nat /\ c \in Nat /\ d \in Nat
      /\ e \in Nat /\ f \in Nat /\ g \in Nat /\ h \in Nat
      /\ u \in NonNegative /\ v \in NonNegative
  BY DEF Positive, NonNegative
<1>2. a * d = c * b /\ e * h = g * f
  BY <1>1, FracEqIs
<1>3. FracAdd(x, u) \in NonNegative /\ FracAdd(y, v) \in NonNegative
  BY FracTyped
<1>4. /\ FracAdd(x, u).num = a * f + e * b /\ FracAdd(x, u).den = b * f
      /\ FracAdd(y, v).num = c * h + g * d /\ FracAdd(y, v).den = d * h
  BY DEF FracAdd, Frac
<1> HIDE DEF a, b, c, d, e, f, g, h
<1>5. /\ (a * f) * (d * h) = (a * d) * (f * h)
      /\ (e * b) * (h * d) = (e * h) * (b * d)
      /\ (c * h) * (b * f) = (c * b) * (h * f)
      /\ (g * d) * (f * b) = (g * f) * (d * b)
  BY <1>1, MulRegroup
<1>6. f * h = h * f /\ b * d = d * b /\ h * d = d * h /\ f * b = b * f
  BY <1>1
<1>7. /\ a * f \in Nat /\ e * b \in Nat /\ c * h \in Nat /\ g * d \in Nat
      /\ d * h \in Nat /\ b * f \in Nat
  BY <1>1
<1>8. /\ (a * f + e * b) * (d * h) = (a * f) * (d * h) + (e * b) * (d * h)
      /\ (c * h + g * d) * (b * f) = (c * h) * (b * f) + (g * d) * (b * f)
  <2>1. \A i, j, k \in Nat : (i + j) * k = i * k + j * k
    OBVIOUS
  <2> QED
    BY <1>7, <2>1
<1>9. (a * f + e * b) * (d * h) = (c * h + g * d) * (b * f)
  BY <1>2, <1>5, <1>6, <1>8
<1> QED
  BY <1>3, <1>4, <1>9, FracEqIs

\* The factor that adjust computes by cases is the clamped ratio.
LEMMA FactorIsClamped ==
  ASSUME NEW span \in Int
  PROVE  /\ ClampedRatio(span) \in Positive
         /\ FracEq(AdjustFactor(span), ClampedRatio(span))
<1> DEFINE E == TotalTimeExpected
           L == FactorLimit
           lo == [num |-> 1, den |-> L]
           hi == [num |-> L, den |-> 1]
           mid == [num |-> E, den |-> span]
           f == AdjustFactor(span)
           r == ClampedRatio(span)
<1>1. E \in Nat \ {0} /\ L \in Nat \ {0}
  BY ExpectedPositive, ConfigAssumption
<1>2. lo \in Positive /\ hi \in Positive /\ (span > 0 => mid \in Positive)
  BY <1>1 DEF Positive
<1>3. \A x \in Positive : x \in NonNegative
  BY DEF Positive, NonNegative
<1>4. E * L \in Nat /\ span * L \in Int
  BY <1>1
<1>5. f = IF span < 0 \/ E * L < span THEN lo
          ELSE IF span * L < E THEN hi ELSE mid
  BY DEF AdjustFactor, Frac
<1>6. CASE span <= 0
  <2>1. CASE span = 0
    <3>1. r = hi
      BY <2>1 DEF ClampedRatio, Frac
    <3>2. f = hi
      BY <1>1, <1>4, <1>5, <2>1
    <3> QED
      BY <1>2, <1>3, <3>1, <3>2, FracLeqRefl DEF FracEq
  <2>2. CASE span < 0
    <3>1. r = lo /\ f = lo
      BY <1>5, <2>2 DEF ClampedRatio, Frac
    <3> QED
      BY <1>2, <1>3, <3>1, FracLeqRefl DEF FracEq
  <2> QED
    BY <1>6, <2>1, <2>2
<1>7. CASE span > 0
  <2>1. r = FracMin(hi, FracMax(lo, mid))
    BY <1>7 DEF ClampedRatio, Frac
  <2>2. FracLeq(lo, mid) <=> span <= E * L
    BY <1>1, <1>4 DEF FracLeq
  <2>3. FracLeq(hi, mid) <=> span * L <= E
    BY <1>1, <1>4 DEF FracLeq
  <2>4. CASE E * L < span
    <3>1. f = lo
      BY <1>5, <2>4
    <3>2. FracMax(lo, mid) = lo
      BY <1>1, <1>4, <2>2, <2>4 DEF FracMax
    <3>3. FracLeq(hi, lo) => L = 1
      <4>1. FracLeq(hi, lo) => L * L <= 1
        BY <1>1 DEF FracLeq
      <4>2. L > 1 => L * L > 1
        BY <1>1
      <4> QED
        BY <1>1, <4>1, <4>2
    <3>4. r = lo
      BY <2>1, <3>2, <3>3 DEF FracMin
    <3> QED
      BY <1>2, <1>3, <3>1, <3>4, FracLeqRefl DEF FracEq
  <2>5. CASE ~(E * L < span)
    <3>1. FracMax(lo, mid) = mid
      BY <1>4, <2>2, <2>5 DEF FracMax
    <3>2. r = IF span * L <= E THEN hi ELSE mid
      BY <2>1, <2>3, <3>1 DEF FracMin
    <3>3. f = IF span * L < E THEN hi ELSE mid
      BY <1>5, <1>7, <2>5
    <3>4. CASE span * L = E
      <4>1. r = hi /\ f = mid
        BY <1>1, <1>4, <3>2, <3>3, <3>4
      <4>2. E * 1 = L * span
        BY <1>1, <3>4
      <4> QED
        BY <1>1, <1>2, <1>3, <1>7, <4>1, <4>2, FracEqIs
    <3>5. CASE span * L # E
      <4>1. r = f /\ f \in Positive
        BY <1>1, <1>2, <1>4, <1>7, <3>2, <3>3, <3>5
      <4> QED
        BY <1>3, <4>1, FracLeqRefl DEF FracEq
    <3> QED
      BY <3>4, <3>5
  <2> QED
    BY <2>4, <2>5
<1> QED
  BY <1>6, <1>7

\* f and g are the difficulties and their sums after 0, 1, ... complete windows.
Difficulties(f) ==
  /\ f \in [0..Windows -> Positive]
  /\ f[0] = Frac(DifficultyInit, 1)
  /\ \A w \in 1..Windows : f[w] = FracMul(f[w - 1], ClampedRatio(Span(w)))

Cumulatives(f, g) ==
  /\ g \in [0..Windows -> NonNegative]
  /\ g[0] = Frac(0, 1)
  /\ \A w \in 1..Windows : g[w] = FracAdd(g[w - 1], f[w])

\* What the adjuster holds, in a form that a step extends.
Referenced ==
  \E f, g : /\ Difficulties(f) /\ Cumulatives(f, g)
            /\ FracEq(da.difficulty, f[Windows]) /\ FracEq(da.cumulative, g[Windows])

\* A window is completed by the block at which the next one starts, and then its
\* span is the time that DifficultyAdjuster::adjust measures.
LEMMA WindowsStep ==
  ASSUME IInv, NEW ts \in Stamps, AdjustTo(ts)
  PROVE  LET k == Len(stamps)
         IN  /\ Windows \in Nat
             /\ \A w \in 1..Windows : Span(w)' = Span(w)
             /\ IF k # 0 /\ k % AdjustAfter = 0
                  THEN /\ Windows' = Windows + 1
                       /\ \A w : w = Windows + 1 => Span(w)' = ts - da.timestamp
                  ELSE Windows' = Windows
<1> DEFINE k == Len(stamps)
           A == AdjustAfter
           W == Windows
<1>1. A \in Nat \ {0} /\ k \in Nat /\ ts \in Int
  BY ConfigAssumption, RetargetAssumption DEF IInv, TypeOK
<1>2. /\ stamps \in Seq(Int) /\ stamps' = Append(stamps, ts)
      /\ stamps' # <<>> /\ Len(stamps') = k + 1 /\ stamps'[k + 1] = ts
      /\ \A i \in 1..k : stamps'[i] = stamps[i]
  BY <1>1 DEF IInv, TypeOK, AdjustTo
<1>3. W = (IF k = 0 THEN 0 ELSE (k - 1) \div A) /\ Windows' = k \div A
  <2>1. k = 0 <=> stamps = <<>>
    BY <1>2
  <2>2. Windows' = ((k + 1) - 1) \div A
    BY <1>2 DEF Windows
  <2> QED
    BY <1>1, <2>1, <2>2 DEF Windows
<1>4. W \in Nat
  BY <1>1, <1>3
<1>5. k # 0 => W * A + 1 \in 1..k /\ da.timestamp = stamps[W * A + 1]
  <2> SUFFICES ASSUME k # 0 PROVE W * A + 1 \in 1..k /\ da.timestamp = stamps[W * A + 1]
    OBVIOUS
  <2>1. W * A + 1 = Start(k - 1)
    BY <1>3 DEF Start
  <2>2. Start(k - 1) \in 1..k
    BY <1>1, StartStep
  <2>3. stamps # <<>>
    BY <1>2
  <2> QED
    BY <2>1, <2>2, <2>3 DEF IInv, WindowStart, Start
<1>6. ASSUME NEW w \in 1..W PROVE Span(w)' = Span(w)
  <2>1. k # 0
    BY <1>1, <1>3
  <2>2. /\ w \in Nat /\ w - 1 \in Nat /\ w * A <= W * A /\ (w - 1) * A <= W * A
        /\ w * A \in Nat /\ (w - 1) * A \in Nat /\ W * A \in Nat
    BY <1>1, <1>4, MulMonotone
  <2>3. w * A + 1 \in 1..k /\ (w - 1) * A + 1 \in 1..k
    BY <1>1, <1>5, <2>1, <2>2
  <2> QED
    BY <1>2, <2>3 DEF Span
<1>7. CASE k # 0 /\ k % A = 0
  <2>1. W + 1 = k \div A /\ (W + 1) * A = k
    <3> DEFINE q == k \div A
               s == (k - 1) % A
    <3>1. q \in Nat /\ k = q * A
      BY <1>1, <1>7
    <3>2. s \in 0..(A - 1) /\ k - 1 = W * A + s
      BY <1>1, <1>3, <1>7
    <3> HIDE DEF q, s, W
    <3>3. (q - W) * A = q * A - W * A /\ q * A \in Int /\ W * A \in Int
      BY <1>1, <1>4, <3>1 DEF W
    <3>4. (q - W) * A = s + 1
      BY <1>1, <3>1, <3>2, <3>3
    <3>5. (q - W) * A > 0 /\ (q - W) * A <= A
      BY <1>1, <3>2, <3>4
    <3>6. q - W \in Int /\ q - W > 0 /\ ~(q - W > 1)
      <4>1. q - W \in Int
        BY <1>4, <3>1 DEF W
      <4>2. q - W > 1 => (q - W) * A >= 2 * A
        BY <1>1, <4>1
      <4>3. q - W <= 0 => (q - W) * A <= 0
        BY <1>1, <4>1
      <4> QED
        BY <1>1, <3>3, <3>5, <4>1, <4>2, <4>3
    <3>7. q = W + 1
      BY <1>4, <3>1, <3>6 DEF W
    <3> QED
      BY <3>1, <3>7 DEF q
  <2>2. Windows' = W + 1
    BY <1>3, <2>1
  <2>3. ASSUME NEW w, w = W + 1 PROVE Span(w)' = ts - da.timestamp
    <3>1. w * A + 1 = k + 1 /\ (w - 1) * A + 1 = W * A + 1
      BY <1>1, <1>4, <2>1, <2>3
    <3>2. Span(w)' = stamps'[k + 1] - stamps'[W * A + 1]
      BY <3>1 DEF Span
    <3> QED
      BY <1>2, <1>5, <1>7, <3>2
  <2> QED
    BY <1>4, <1>6, <1>7, <2>2, <2>3
<1>8. CASE ~(k # 0 /\ k % A = 0)
  <2>1. CASE k = 0
    <3>1. 0 \div A = 0
      BY <1>1
    <3> QED
      BY <1>3, <1>4, <1>6, <2>1, <3>1
  <2>2. CASE k # 0 /\ k % A # 0
    <3>1. Start(k) = Start(k - 1)
      BY <1>1, <2>2, StartStep
    <3>2. (k \div A) * A = W * A /\ k \div A \in Int
      BY <1>1, <1>3, <1>4, <2>2, <3>1 DEF Start
    <3> DEFINE q == k \div A
    <3> HIDE DEF q, W
    <3>3. q = W
      <4>1. q \in Int /\ W \in Int /\ q * A = W * A
        BY <1>4, <3>2 DEF q, W
      <4> QED
        BY <1>1, <4>1
    <3> QED
      BY <1>3, <1>4, <1>6, <2>2, <3>3 DEF q, W
  <2> QED
    BY <1>8, <2>1, <2>2
<1> QED
  BY <1>7, <1>8

\* A call of adjust extends the difficulties and their sums if it completes a
\* window, and leaves them alone otherwise.
LEMMA ReferencedStep == IInv /\ Referenced /\ [Next]_vars => Referenced'
<1> SUFFICES ASSUME IInv, Referenced, [Next]_vars PROVE Referenced'
  OBVIOUS
<1>1. CASE UNCHANGED vars
  BY <1>1 DEF vars, Referenced, Difficulties, Cumulatives, Windows, Span
<1>2. ASSUME NEW ts \in Stamps, AdjustTo(ts) PROVE Referenced'
  <2> DEFINE k == Len(stamps)
             W == Windows
  <2>1. PICK f, g : /\ Difficulties(f) /\ Cumulatives(f, g)
                    /\ FracEq(da.difficulty, f[W]) /\ FracEq(da.cumulative, g[W])
    BY DEF Referenced
  <2>2. /\ ts \in Int /\ da \in Adjuster /\ da' = Adjust(da, ts)
        /\ da.difficulty \in Positive /\ da.cumulative \in NonNegative
        /\ ts - da.timestamp \in Int /\ da.counter = k
    BY <1>2, RetargetAssumption DEF IInv, TypeOK, CountsBlocks, AdjustTo, Adjuster
  <2>3. /\ W \in Nat
        /\ \A w \in 1..W : Span(w)' = Span(w)
        /\ IF k # 0 /\ k % AdjustAfter = 0
             THEN /\ Windows' = W + 1
                  /\ \A w : w = W + 1 => Span(w)' = ts - da.timestamp
             ELSE Windows' = W
    BY <1>2, WindowsStep
  <2>4. CASE ~(k # 0 /\ k % AdjustAfter = 0)
    <3>1. Difficulties(f)' /\ Cumulatives(f, g)'
      BY <2>1, <2>3, <2>4 DEF Difficulties, Cumulatives
    <3>2. da'.difficulty = da.difficulty /\ da'.cumulative = da.cumulative
      BY <2>2, <2>4 DEF Adjust, Started, Adjuster
    <3> QED
      BY <2>1, <2>3, <2>4, <3>1, <3>2 DEF Referenced
  <2>5. CASE k # 0 /\ k % AdjustAfter = 0
    <3>1. PICK x : x = FracMul(f[W], ClampedRatio(ts - da.timestamp))
      OBVIOUS
    <3>2. PICK y : y = FracAdd(g[W], x)
      OBVIOUS
    <3>3. PICK f2 : f2 = [w \in 0..(W + 1) |-> IF w = W + 1 THEN x ELSE f[w]]
      OBVIOUS
    <3>4. PICK g2 : g2 = [w \in 0..(W + 1) |-> IF w = W + 1 THEN y ELSE g[w]]
      OBVIOUS
    <3>5. f[W] \in Positive /\ g[W] \in NonNegative
      BY <2>1, <2>3 DEF Difficulties, Cumulatives
    <3>6. /\ ClampedRatio(ts - da.timestamp) \in Positive
          /\ AdjustFactor(ts - da.timestamp) \in Positive
          /\ FracEq(AdjustFactor(ts - da.timestamp), ClampedRatio(ts - da.timestamp))
      BY <2>2, FactorIsClamped, FactorBounded
    <3>7. x \in Positive
      BY <3>1, <3>5, <3>6, FracTyped
    <3>8. y \in NonNegative
      BY <3>2, <3>5, <3>7, FracTyped
    <3>9. /\ f2[W + 1] = x /\ g2[W + 1] = y
          /\ \A w \in 0..W : f2[w] = f[w] /\ g2[w] = g[w]
      BY <2>3, <3>3, <3>4
    <3>10. Windows' = W + 1 /\ \A w : w = W + 1 => Span(w)' = ts - da.timestamp
      BY <2>3, <2>5
    <3>11. f2 \in [0..(W + 1) -> Positive] /\ g2 \in [0..(W + 1) -> NonNegative]
      BY <2>1, <2>3, <3>3, <3>4, <3>7, <3>8 DEF Difficulties, Cumulatives
    <3>12. f2[0] = Frac(DifficultyInit, 1) /\ g2[0] = Frac(0, 1)
      BY <2>1, <2>3, <3>9 DEF Difficulties, Cumulatives
    <3>13. ASSUME NEW w \in 1..(W + 1)
           PROVE  /\ f2[w] = FracMul(f2[w - 1], ClampedRatio(Span(w)'))
                  /\ g2[w] = FracAdd(g2[w - 1], f2[w])
      <4>1. CASE w = W + 1
        <5>1. w - 1 = W /\ W \in 0..W
          BY <2>3, <4>1
        <5>2. f2[w - 1] = f[W] /\ g2[w - 1] = g[W] /\ Span(w)' = ts - da.timestamp
          BY <3>9, <3>10, <4>1, <5>1
        <5> QED
          BY <3>1, <3>2, <3>9, <4>1, <5>2
      <4>2. CASE w # W + 1
        <5>1. w \in 1..W /\ w \in 0..W /\ w - 1 \in 0..W
          BY <2>3, <4>2
        <5>2. /\ f[w] = FracMul(f[w - 1], ClampedRatio(Span(w)))
              /\ g[w] = FracAdd(g[w - 1], f[w])
          BY <2>1, <5>1 DEF Difficulties, Cumulatives
        <5> QED
          BY <2>3, <3>9, <5>1, <5>2
      <4> QED
        BY <4>1, <4>2
    <3>14. Difficulties(f2)' /\ Cumulatives(f2, g2)'
      BY <3>10, <3>11, <3>12, <3>13 DEF Difficulties, Cumulatives
    <3>15. /\ da'.difficulty = FracMul(da.difficulty, AdjustFactor(ts - da.timestamp))
           /\ da'.cumulative = FracAdd(da.cumulative, da'.difficulty)
      BY <2>2, <2>5 DEF Adjust, Retargeted
    <3>16. FracEq(da'.difficulty, x) /\ da'.difficulty \in Positive
      BY <2>1, <2>2, <3>1, <3>5, <3>6, <3>15, FracEqMul, FracTyped
    <3>17. FracEq(da'.cumulative, y)
      BY <2>1, <2>2, <3>2, <3>5, <3>7, <3>15, <3>16, FracEqAdd
    <3> QED
      BY <3>9, <3>10, <3>14, <3>16, <3>17 DEF Referenced
  <2> QED
    BY <2>4, <2>5
<1> QED
  BY <1>1, <1>2 DEF Next

\* The recursive definitions of the closed form have solutions, namely the f and
\* the g of Referenced, and no other.
LEMMA ReferencedMatches ==
  ASSUME Referenced, Windows \in Nat
  PROVE  MatchesReference
<1> DEFINE W == Windows
           d == DifficultyAfter
           c == CumulativeAfter
<1>1. PICK f, g : /\ Difficulties(f) /\ Cumulatives(f, g)
                  /\ FracEq(da.difficulty, f[W]) /\ FracEq(da.cumulative, g[W])
  BY DEF Referenced
<1>2. d = [w \in 0..W |-> IF w = 0 THEN Frac(DifficultyInit, 1)
                          ELSE FracMul(d[w - 1], ClampedRatio(Span(w)))]
  <2>1. f = [w \in 0..W |-> IF w = 0 THEN Frac(DifficultyInit, 1)
                            ELSE FracMul(f[w - 1], ClampedRatio(Span(w)))]
    <3> HIDE DEF W
    <3>1. /\ f \in [0..W -> Positive]
          /\ \A w \in 0..W : f[w] = IF w = 0 THEN Frac(DifficultyInit, 1)
                                    ELSE FracMul(f[w - 1], ClampedRatio(Span(w)))
      BY <1>1 DEF Difficulties, W
    <3> QED
      BY <3>1
  <2> QED
    BY <2>1 DEF DifficultyAfter
<1> HIDE DEF d
<1>3. ASSUME NEW w \in Nat PROVE w \in {n \in Nat : n \in 0..W => d[n] = f[n]}
  <2> DEFINE S == {n \in Nat : n \in 0..W => d[n] = f[n]}
  <2>1. 0 \in S
    BY <1>1, <1>2 DEF Difficulties
  <2>2. ASSUME NEW n \in Nat, n \in S PROVE n + 1 \in S
    <3> SUFFICES ASSUME n + 1 \in 0..W PROVE d[n + 1] = f[n + 1]
      OBVIOUS
    <3>1. n \in 0..W /\ n + 1 \in 1..W /\ n + 1 # 0 /\ (n + 1) - 1 = n
      OBVIOUS
    <3>2. d[n] = f[n]
      BY <2>2, <3>1
    <3>3. f[n + 1] = FracMul(f[(n + 1) - 1], ClampedRatio(Span(n + 1)))
      BY <1>1, <3>1 DEF Difficulties
    <3>4. d[n + 1] = FracMul(d[(n + 1) - 1], ClampedRatio(Span(n + 1)))
      BY <1>2, <3>1
    <3> QED
      BY <3>1, <3>2, <3>3, <3>4
  <2> HIDE DEF S
  <2>3. \A n \in Nat : n \in S
    BY <2>1, <2>2, SetInduction
  <2> QED
    BY <2>3 DEF S
<1>4. \A w \in 0..W : d[w] = f[w]
  BY <1>3
<1>5. c = [w \in 0..W |-> IF w = 0 THEN Frac(0, 1) ELSE FracAdd(c[w - 1], d[w])]
  <2>1. g = [w \in 0..W |-> IF w = 0 THEN Frac(0, 1) ELSE FracAdd(g[w - 1], d[w])]
    <3> HIDE DEF W
    <3>1. /\ g \in [0..W -> NonNegative]
          /\ \A w \in 0..W : g[w] = IF w = 0 THEN Frac(0, 1)
                                    ELSE FracAdd(g[w - 1], d[w])
      BY <1>1, <1>4 DEF Cumulatives, W
    <3> QED
      BY <3>1
  <2> QED
    BY <2>1 DEF CumulativeAfter, d
<1> HIDE DEF c
<1>6. ASSUME NEW w \in Nat PROVE w \in {n \in Nat : n \in 0..W => c[n] = g[n]}
  <2> DEFINE S == {n \in Nat : n \in 0..W => c[n] = g[n]}
  <2>1. 0 \in S
    BY <1>1, <1>5 DEF Cumulatives
  <2>2. ASSUME NEW n \in Nat, n \in S PROVE n + 1 \in S
    <3> SUFFICES ASSUME n + 1 \in 0..W PROVE c[n + 1] = g[n + 1]
      OBVIOUS
    <3>1. n \in 0..W /\ n + 1 \in 1..W /\ n + 1 # 0 /\ (n + 1) - 1 = n
      OBVIOUS
    <3>2. c[n] = g[n]
      BY <2>2, <3>1
    <3>3. g[n + 1] = FracAdd(g[(n + 1) - 1], f[n + 1])
      BY <1>1, <3>1 DEF Cumulatives
    <3>4. c[n + 1] = FracAdd(c[(n + 1) - 1], d[n + 1])
      BY <1>5, <3>1
    <3> QED
      BY <1>4, <3>1, <3>2, <3>3, <3>4
  <2> HIDE DEF S
  <2>3. \A n \in Nat : n \in S
    BY <2>1, <2>2, SetInduction
  <2> QED
    BY <2>3 DEF S
<1>7. W \in 0..W
  OBVIOUS
<1>8. d[W] = f[W] /\ c[W] = g[W]
  BY <1>4, <1>6, <1>7
<1> QED
  BY <1>1, <1>8 DEF MatchesReference, d, c

\* DifficultyAdjuster::adjust agrees with the closed form for every
\* configuration and every sequence of timestamps.
THEOREM AgreesWithReference == Spec => []MatchesReference
<1>1. Init => Referenced
  <2> SUFFICES ASSUME Init PROVE Referenced
    OBVIOUS
  <2>1. /\ Windows = 0 /\ da.difficulty = Frac(DifficultyInit, 1)
        /\ da.cumulative = Frac(0, 1)
    BY DEF Init, Windows, InitAdjuster
  <2>2. PICK f : f = [w \in 0..0 |-> Frac(DifficultyInit, 1)]
    OBVIOUS
  <2>3. PICK g : g = [w \in 0..0 |-> Frac(0, 1)]
    OBVIOUS
  <2>4. Frac(DifficultyInit, 1) \in Positive /\ Frac(0, 1) \in NonNegative
    BY ConfigAssumption DEF Frac, Positive, NonNegative
  <2>5. Frac(DifficultyInit, 1) \in NonNegative
    BY <2>4 DEF Positive, NonNegative
  <2>6. 0 \in 0..0 /\ 1..0 = {}
    OBVIOUS
  <2>7. Difficulties(f) /\ Cumulatives(f, g)
    BY <2>1, <2>2, <2>3, <2>4, <2>6 DEF Difficulties, Cumulatives
  <2>8. f[0] = Frac(DifficultyInit, 1) /\ g[0] = Frac(0, 1)
    BY <2>2, <2>3, <2>6
  <2>9. /\ FracEq(Frac(DifficultyInit, 1), Frac(DifficultyInit, 1))
        /\ FracEq(Frac(0, 1), Frac(0, 1))
    BY <2>4, <2>5, FracLeqRefl DEF FracEq
  <2> QED
    BY <2>1, <2>7, <2>8, <2>9 DEF Referenced
<1>2. IInv => Windows \in Nat
  <2> SUFFICES ASSUME IInv, stamps # <<>> PROVE (Len(stamps) - 1) \div AdjustAfter \in Nat
    BY DEF Windows
  <2>1. AdjustAfter \in Nat \ {0} /\ Len(stamps) - 1 \in Nat
    BY ConfigAssumption DEF IInv, TypeOK
  <2> QED
    BY <2>1
<1>3. IInv /\ Referenced => MatchesReference
  BY <1>2, ReferencedMatches
<1> QED
  BY <1>1, <1>3, ReferencedStep, Invariance, PTL DEF Spec

=============================================================================

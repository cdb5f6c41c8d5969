---------------------------- MODULE Difficulty ----------------------------
(***************************************************************************)
(* The difficulty adjuster of include/difficulty.h and the conversion of a *)
(* difficulty into a number of leading zero bits done by                   *)
(* Block::adjust_difficulty.  The code computes with doubles; the model    *)
(* computes with exact, unnormalised fractions, so that it never agrees    *)
(* or disagrees with the code because of a rounding error.                 *)
(***************************************************************************)
EXTENDS Integers

CONSTANTS
  TimeExpected,    \* config().blockgen_time_expected, in clock ticks
  DifficultyInit,  \* config().blockgen_difficulty_init
  AdjustAfter,     \* config().blockgen_difficulty_adjust_after
  FactorLimit      \* config().blockgen_difficulty_adjust_factor_limit

\* What every configuration file under config/ satisfies.
ASSUME ConfigAssumption ==
  /\ TimeExpected \in Nat \ {0}
  /\ DifficultyInit \in Nat \ {0}
  /\ AdjustAfter \in Nat \ {0}
  /\ FactorLimit \in Nat \ {0}

-----------------------------------------------------------------------------
(* Fractions.                                                               *)

Frac(a, b) == [num |-> a, den |-> b]

FracMul(x, y) == Frac(x.num * y.num, x.den * y.den)

FracAdd(x, y) == Frac(x.num * y.den + y.num * x.den, x.den * y.den)

FracLeq(x, y) == x.num * y.den <= y.num * x.den

FracFloor(x) == x.num \div x.den

Positive == [num : Nat \ {0}, den : Nat \ {0}]

NonNegative == [num : Nat, den : Nat \ {0}]

-----------------------------------------------------------------------------
(* DifficultyAdjuster.                                                      *)

Adjuster == [difficulty : Positive, cumulative : NonNegative,
             counter : Nat, timestamp : Int]

\* m_timestamp is set by the first call of adjust before anything reads it.
InitAdjuster == [difficulty |-> Frac(DifficultyInit, 1),
                 cumulative |-> Frac(0, 1), counter |-> 0, timestamp |-> 0]

TotalTimeExpected == TimeExpected * AdjustAfter

\* Dropping both clamps of the factor.
AdjustFactorUnclamped(actual) == Frac(TotalTimeExpected, actual)

\* Dropping the lower clamp of the factor.
AdjustFactorNoLowerClamp(actual) ==
  IF actual * FactorLimit < TotalTimeExpected THEN Frac(FactorLimit, 1)
  ELSE Frac(TotalTimeExpected, actual)

\* The factor by which the difficulty changes when `actual' ticks have passed
\* since the last adjustment.  A double division by zero is +inf, which is
\* clamped to the limit; a negative quotient is below 1 / limit.
AdjustFactor(actual) ==
  IF actual < 0 \/ TotalTimeExpected * FactorLimit < actual
    THEN Frac(1, FactorLimit)
  ELSE IF actual * FactorLimit < TotalTimeExpected THEN Frac(FactorLimit, 1)
  ELSE Frac(TotalTimeExpected, actual)

Retargeted(da, ts) ==
  LET d == FracMul(da.difficulty, AdjustFactor(ts - da.timestamp))
  IN  [difficulty |-> d, cumulative |-> FracAdd(da.cumulative, d),
       counter |-> da.counter + 1, timestamp |-> ts]

\* The first block opens the first window.
Started(da, ts) == [difficulty |-> da.difficulty, cumulative |-> da.cumulative,
                    counter |-> 1, timestamp |-> ts]

\* Forgetting to restart the window when the difficulty is adjusted.
AdjustKeepsWindow(da, ts) ==
  IF da.counter = 0
    THEN Started(da, ts)
  ELSE IF da.counter % AdjustAfter = 0
    THEN [Retargeted(da, ts) EXCEPT !.timestamp = da.timestamp]
  ELSE [da EXCEPT !.counter = @ + 1]

\* Reading the window off the counter after it has been incremented.
AdjustOffByOne(da, ts) ==
  IF da.counter = 0
    THEN Started(da, ts)
  ELSE IF (da.counter + 1) % AdjustAfter = 0
    THEN Retargeted(da, ts)
  ELSE [da EXCEPT !.counter = @ + 1]

\* Leaving the block counter alone when the difficulty is adjusted.
AdjustNoCount(da, ts) ==
  IF da.counter = 0
    THEN Started(da, ts)
  ELSE IF da.counter % AdjustAfter = 0
    THEN [Retargeted(da, ts) EXCEPT !.counter = da.counter]
  ELSE [da EXCEPT !.counter = @ + 1]

\* DifficultyAdjuster::adjust.
Adjust(da, ts) ==
  IF da.counter = 0
    THEN Started(da, ts)
  ELSE IF da.counter % AdjustAfter = 0
    THEN Retargeted(da, ts)
  ELSE [da EXCEPT !.counter = @ + 1]

-----------------------------------------------------------------------------
(* From a difficulty to leading zero bits.                                  *)

\* Length of a SHA-256 digest in bits: no hash has more leading zeros.
HashBits == 256

\* A number of leading zeros that no hash has.
Unreachable == HashBits + 1

\* k is the binary logarithm of d, rounded down.
IsLog2(d, k) == 2^k * d.den <= d.num /\ d.num < 2^(k + 1) * d.den

\* The values static_cast<std::size_t>(std::log2(difficulty)) can have.  Below
\* or at 1/2 the logarithm is at most -1 and the cast is undefined: the build
\* may saturate to 0 or produce a number beyond every digest.
RequiredZeros(d) ==
  IF d.num >= d.den
    THEN {IF \E k \in 0..HashBits : IsLog2(d, k)
            THEN CHOOSE k \in 0..HashBits : IsLog2(d, k)
            ELSE Unreachable}
  ELSE IF 2 * d.num > d.den THEN {0}
  ELSE {0, Unreachable}
=============================================================================

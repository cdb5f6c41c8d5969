----------------------------- MODULE Retarget -----------------------------
(***************************************************************************)
(* A difficulty adjuster on its own: it is handed the timestamps of the    *)
(* blocks of a chain one after the other, in any order the timestamp       *)
(* checks of the chain let through.                                        *)
(***************************************************************************)
EXTENDS Difficulty, Sequences

CONSTANTS Stamps,    \* the timestamps a block may carry
          MaxBlocks  \* bound on the number of blocks

ASSUME RetargetAssumption == Stamps \subseteq Int /\ MaxBlocks \in Nat

VARIABLES da,     \* the adjuster
          stamps  \* the timestamps it has been given, first block first

vars == <<da, stamps>>

Init == /\ da = InitAdjuster
        /\ stamps = <<>>

AdjustTo(ts) == /\ Len(stamps) < MaxBlocks
                /\ da' = Adjust(da, ts)
                /\ stamps' = Append(stamps, ts)

Next == \E ts \in Stamps : AdjustTo(ts)

Spec == Init /\ [][Next]_vars

-----------------------------------------------------------------------------
\* The fields of the adjuster have the types of the class: in particular the
\* difficulty stays a positive number whatever the timestamps are.
TypeOK == /\ da \in Adjuster
          /\ stamps \in Seq(Int)

\* The counter of DifficultyAdjuster::adjust is the number of timestamps seen.
CountsBlocks == da.counter = Len(stamps)

\* The window that DifficultyAdjuster::adjust measures starts at the block of
\* the last adjustment, or at the first block before any: m_timestamp is the
\* timestamp of the last block whose number is a multiple of adjust_after.
WindowStart ==
  stamps # <<>> =>
    da.timestamp = stamps[((Len(stamps) - 1) \div AdjustAfter) * AdjustAfter + 1]

-----------------------------------------------------------------------------
(* A closed form of the difficulty.                                         *)

FracMin(x, y) == IF FracLeq(x, y) THEN x ELSE y
FracMax(x, y) == IF FracLeq(x, y) THEN y ELSE x
FracEq(x, y) == FracLeq(x, y) /\ FracLeq(y, x)

\* The median of 1 / limit, limit and expected / span.
ClampedRatio(span) ==
  IF span <= 0
    THEN IF span = 0 THEN Frac(FactorLimit, 1) ELSE Frac(1, FactorLimit)
    ELSE FracMin(Frac(FactorLimit, 1),
           FracMax(Frac(1, FactorLimit), Frac(TotalTimeExpected, span)))

\* The number of windows that are complete.
Windows == IF stamps = <<>> THEN 0 ELSE (Len(stamps) - 1) \div AdjustAfter

\* Ticks between the blocks at which window number w starts and ends.
Span(w) == stamps[w * AdjustAfter + 1] - stamps[(w - 1) * AdjustAfter + 1]

DifficultyAfter[w \in 0..Windows] ==
  IF w = 0 THEN Frac(DifficultyInit, 1)
           ELSE FracMul(DifficultyAfter[w - 1], ClampedRatio(Span(w)))

CumulativeAfter[w \in 0..Windows] ==
  IF w = 0 THEN Frac(0, 1)
           ELSE FracAdd(CumulativeAfter[w - 1], DifficultyAfter[w])

\* After any sequence of blocks the adjuster holds the product of the clamped
\* ratios of all complete windows, and the sum of the difficulties they led
\* to: what the incremental DifficultyAdjuster::adjust stands for.
MatchesReference ==
  /\ FracEq(da.difficulty, DifficultyAfter[Windows])
  /\ FracEq(da.cumulative, CumulativeAfter[Windows])

-----------------------------------------------------------------------------
(* Single steps.                                                            *)

\* adjust multiplies or divides the difficulty by at most the configured limit,
\* makes mining harder only after a window shorter than expected, and never
\* lowers the cumulative difficulty, which Blockchain::operator<=> compares.
BoundedStep ==
  LET old  == da.difficulty
      new  == da'.difficulty
      span == stamps'[Len(stamps')] - da.timestamp
  IN  /\ FracLeq(new, FracMul(old, Frac(FactorLimit, 1)))
      /\ FracLeq(FracMul(old, Frac(1, FactorLimit)), new)
      /\ ~FracLeq(new, old) => span < TotalTimeExpected
      /\ FracLeq(da.cumulative, da'.cumulative)

BoundedAdjustment == [][BoundedStep]_vars
=============================================================================

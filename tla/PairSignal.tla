----------------------------- MODULE PairSignal -----------------------------
(***************************************************************************)
(* The position of one pair, bar by bar: pair_leg_weights in               *)
(* engine/strategies/pairs_trading.py.  A bar brings the z-score of the    *)
(* spread (NaN in the warm-up of the window and in gaps) and the ratio of  *)
(* the legs' prices; the rolling statistics are left out, so the z-scores  *)
(* may come in any order.  Z-scores are in half units.                     *)
(***************************************************************************)
EXTENDS Integers, Sequences, FiniteSets

CONSTANTS
    NaN,           \* no z-score
    ZScores,       \* finite z-scores that occur
    EntryZ, ExitZ, StopZ,      \* entry_zscore, exit_zscore, stop_zscore
    MaxNoCross,    \* min(break_half_life_mult * half_life, break_max_no_cross)
    MaxBars        \* bound: bars of the series

ASSUME BandAssumption ==
    /\ ZScores \subseteq Int /\ NaN \notin Int
    /\ EntryZ \in Int /\ ExitZ \in Int /\ StopZ \in Int /\ MaxNoCross \in Nat

VARIABLES
    zs,            \* z-scores so far (history)
    pos,           \* 1 long the spread, -1 short, 0 flat
    entryRatio,    \* the dollar hedge ratio frozen at entry
    broken,        \* the pair is retired
    prevSign,
    barsNoCross,
    legs           \* <<wy, wx>>: the target weights at this bar

pairVars == <<zs, pos, entryRatio, broken, prevSign, barsNoCross, legs>>

Gross == 1

\* hedge_ratio * cx / cy at bar i, different at successive bars.
RatioAt(i) == 1 + (i % 3)

PairInit ==
    /\ zs = << >>
    /\ pos = 0 /\ entryRatio = 0 /\ broken = FALSE
    /\ prevSign = 0 /\ barsNoCross = 0
    /\ legs = <<0, 0>>

Sign(z) == IF z > 0 THEN 1 ELSE IF z < 0 THEN -1 ELSE 0

\* The spread crossed its mean since the last bar that was off it.
Crossed(z) == prevSign # 0 /\ Sign(z) # 0 /\ Sign(z) # prevSign

\* Mutant: no branch for the stop.
NextPos_NoStop(z) ==
    CASE pos = 0  -> IF z <= -EntryZ THEN 1 ELSE IF z >= EntryZ THEN -1 ELSE 0
      [] pos = 1  -> IF z >= ExitZ THEN 0 ELSE 1
      [] pos = -1 -> IF z <= ExitZ THEN 0 ELSE -1

\* Enter beyond the entry band, also beyond the stop; leave at the exit or at
\* the stop.  A bar never both leaves and enters.
NextPos(z) ==
    CASE pos = 0  -> IF z <= -EntryZ THEN 1 ELSE IF z >= EntryZ THEN -1 ELSE 0
      [] pos = 1  -> IF z >= ExitZ \/ z <= -StopZ THEN 0 ELSE 1
      [] pos = -1 -> IF z <= ExitZ \/ z >= StopZ THEN 0 ELSE -1

\* Mutant: a spread at its mean counts as a crossing.
NoCrossAfter_ZeroCrosses(z) ==
    IF prevSign # 0 /\ Sign(z) # prevSign THEN 0 ELSE barsNoCross + 1

NoCrossAfter(z) == IF Crossed(z) THEN 0 ELSE barsNoCross + 1

Weights(p, ratio) == <<p * Gross, IF p # 0 THEN -p * Gross * ratio ELSE 0>>

\* A bar without a z-score, or of a retired pair, repeats the position.
IdleBar(z) ==
    /\ broken \/ z = NaN
    /\ legs' = Weights(pos, entryRatio)
    /\ UNCHANGED <<pos, entryRatio, broken, prevSign, barsNoCross>>

LiveBar(z) ==
    /\ ~broken /\ z # NaN
    /\ barsNoCross' = NoCrossAfter(z)
    /\ prevSign' = IF Sign(z) # 0 THEN Sign(z) ELSE prevSign
    /\ broken' = (NoCrossAfter(z) > MaxNoCross)
    /\ pos' = IF broken' THEN 0 ELSE NextPos(z)
    /\ entryRatio' = IF pos = 0 /\ pos' # 0 THEN RatioAt(Len(zs) + 1) ELSE entryRatio
    /\ legs' = Weights(pos', entryRatio')

PairBar ==
    /\ Len(zs) < MaxBars
    /\ \E z \in ZScores \cup {NaN} : /\ zs' = Append(zs, z)
                                     /\ IdleBar(z) \/ LiveBar(z)

PairSpec == PairInit /\ [][PairBar]_pairVars

-----------------------------------------------------------------------------
Valid(i) == zs[i] # NaN
OffMean(i) == Valid(i) /\ zs[i] # 0

\* Bar i is on the other side of the mean than the last bar off the mean.
CrossesAt(i) ==
    OffMean(i) /\ \E j \in 1 .. i - 1 :
        /\ OffMean(j) /\ Sign(zs[j]) # Sign(zs[i])
        /\ \A k \in j + 1 .. i - 1 : ~OffMean(k)

\* A pair is retired exactly if the series has had more than MaxNoCross bars
\* with a z-score in a row without a crossing of the mean.
RetiredAfterNoCross ==
    broken <=> \E i, j \in 1 .. Len(zs) :
        /\ \A k \in i .. j : ~(Valid(k) /\ CrossesAt(k))
        /\ Cardinality({k \in i .. j : Valid(k)}) > MaxNoCross

\* The weights held at any bar follow from one earlier bar that entered: its
\* z-score was beyond the entry band on the right side, no bar since reached
\* the exit or the stop, the pair is not retired, and the hedge of the second
\* leg is the price ratio of that very bar.
PositionHasItsEntry ==
    \/ legs = <<0, 0>>
    \/ \E i \in 1 .. Len(zs), p \in {1, -1} :
          /\ Valid(i) /\ -p * zs[i] >= EntryZ
          /\ \A k \in i + 1 .. Len(zs) : Valid(k) =>
                p * zs[k] < p * ExitZ /\ -p * zs[k] < StopZ
          /\ legs = <<p, -p * RatioAt(i)>>
          /\ ~broken
=============================================================================

------------------------------ MODULE Momentum ------------------------------
(***************************************************************************)
(* The target rows of engine/strategies/momentum.py, one per month.        *)
(*                                                                         *)
(* Stocks are numbered in the order of the price columns.  A stock's       *)
(* signal on a rebalance date is its momentum score (0 for none), its      *)
(* membership of the index and the inverse of its realized volatility      *)
(* (0 for NaN and infinite).  Weights are in units of 1 / WeightUnit,      *)
(* rounded down.                                                           *)
(***************************************************************************)
EXTENDS Integers, FiniteSetsExt

CONSTANTS
    NStocks,
    Signals,       \* [score, member, inv]
    WeightUnit,
    PctDiv,        \* long_pct is 1 / PctDiv
    Band,          \* turnover_band
    VrpPcts,       \* percentiles of the last variance risk premium, in percent
    MinExposure,   \* min_exposure in percent
    LastMonth      \* bound: months of the price history

ASSUME MomentumAssumption ==
    /\ NStocks \in Nat /\ WeightUnit \in Nat /\ PctDiv \in Nat \ {0} /\ Band \in Nat \ {0}
    /\ MinExposure \in 0 .. 100 /\ VrpPcts \subseteq 0 .. 100
    /\ \A g \in Signals : g.score \in Int /\ g.member \in BOOLEAN /\ g.inv \in Nat

VARIABLES
    month,         \* month of the last trading day that was seen
    weights,       \* the last target row: prev of generate_weights
    signal         \* the signals and the percentile of that date (history)

momentumVars == <<month, weights, signal>>

Column == 1 .. NStocks
NoWeights == [s \in Column |-> 0]

MomentumInit == month = 0 /\ weights = NoWeights /\ signal = [of |-> << >>, pct |-> 0]

Candidates(sig) == {s \in Column : sig[s].score # 0 /\ sig[s].member}

\* nlargest: by score, then by column.
Ahead(sig, a, b) ==
    sig[a].score > sig[b].score \/ (sig[a].score = sig[b].score /\ a < b)

Chosen(sig) ==
    LET C == Candidates(sig)
        n == LET k == Cardinality(C) \div PctDiv IN IF k = 0 THEN 1 ELSE k
    IN {s \in C : Cardinality({t \in C : Ahead(sig, t, s)}) < n}

\* Exposure in percent: full at a low variance risk premium.
RegimeScale(pct) == MinExposure + ((100 - MinExposure) * (100 - pct)) \div 100

\* Mutant: unknown volatilities leave the weights unscaled by their sum.
TargetRow_NotNormalised(sig, pct) ==
    [s \in Column |-> IF s \in Chosen(sig)
        THEN (WeightUnit * sig[s].inv * RegimeScale(pct)) \div 100 ELSE 0]

TotalOver(f, S) == MapThenSumSet(LAMBDA s : f[s], S)

\* Inverse volatility over the chosen, or equal weights if none is known.
TargetRow(sig, pct) ==
    LET S == Chosen(sig)
        known == TotalOver([s \in Column |-> sig[s].inv], S) > 0
        ratio == [s \in Column |-> IF known THEN sig[s].inv ELSE 1]
    IN [s \in Column |-> IF s \in S
           THEN (WeightUnit * RegimeScale(pct) * ratio[s]) \div (100 * TotalOver(ratio, S))
           ELSE 0]

\* A change of less than the band is not made.
ApplyBand(prev, target) ==
    [s \in Column |->
        LET delta == IF target[s] > prev[s] THEN target[s] - prev[s] ELSE prev[s] - target[s]
        IN IF delta >= Band THEN target[s] ELSE prev[s]]

\* A trading day that is the first of its month decides a row.
FirstOfMonth ==
    /\ month < LastMonth
    /\ month' = month + 1
    /\ \E sig \in [Column -> Signals], pct \in VrpPcts :
          /\ weights' = ApplyBand(weights, TargetRow(sig, pct))
          /\ signal' = [of |-> sig, pct |-> pct]

MomentumSpec == MomentumInit /\ [][FirstOfMonth]_momentumVars

-----------------------------------------------------------------------------
\* Whatever the months before brought, the row is long only and invested to
\* the exposure of the regime, up to the band of each stock and the rounding;
\* and a stock that is not a candidate any more keeps less than the band.
TiltIsInvestable ==
    month > 0 =>
        LET C == Candidates(signal.of)
            gross == TotalOver(weights, Column)
            scale == IF C = {} THEN 0 ELSE (WeightUnit * RegimeScale(signal.pct)) \div 100
        IN /\ gross <= scale + NStocks * Band
           /\ gross >= scale - NStocks * Band
           /\ \A s \in Column : weights[s] >= 0
           /\ \A s \in Column \ C : weights[s] = 0 \/ weights[s] < Band
=============================================================================

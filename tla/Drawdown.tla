------------------------------ MODULE Drawdown ------------------------------
(***************************************************************************)
(* The drawdown circuit breaker of engine/risk/drawdown.py in its two      *)
(* forms: the monitor that is fed one equity at a time and latches, and    *)
(* the mask over a whole curve that backtests use.  The limit is           *)
(* LimitNum / LimitDen of the peak.                                        *)
(***************************************************************************)
EXTENDS Integers, Sequences

CONSTANTS
    Equity,        \* equities that occur
    LimitNum, LimitDen,
    MaxPoints      \* bound: points of a curve

ASSUME LimitAssumption ==
    /\ Equity \subseteq Int
    /\ LimitNum \in Nat \ {0} /\ LimitDen \in Nat \ {0} /\ MaxPoints \in Nat

VARIABLES
    curve,         \* equities since the last reset
    peak,          \* 0 stands for minus infinity while the curve is empty
    halted

drawdownVars == <<curve, peak, halted>>

DrawdownInit == curve = << >> /\ peak = 0 /\ halted = FALSE

\* equity / peak - 1 <= -LimitNum / LimitDen, for a positive peak.
Drops(equity, high) == (high - equity) * LimitDen >= LimitNum * high

NewPeak(equity) == IF curve = << >> \/ equity > peak THEN equity ELSE peak

\* Mutant: the breaker opens again when the equity recovers.
Update_Unlatched(equity) ==
    /\ Len(curve) < MaxPoints
    /\ curve' = Append(curve, equity)
    /\ peak' = NewPeak(equity)
    /\ halted' = (peak' > 0 /\ Drops(equity, peak'))

Update(equity) ==
    /\ Len(curve) < MaxPoints
    /\ curve' = Append(curve, equity)
    /\ peak' = NewPeak(equity)
    /\ halted' = (halted \/ (peak' > 0 /\ Drops(equity, peak')))

Reset == curve' = << >> /\ peak' = 0 /\ halted' = FALSE

DrawdownNext == Reset \/ \E e \in Equity : Update(e)

DrawdownSpec == DrawdownInit /\ [][DrawdownNext]_drawdownVars

-----------------------------------------------------------------------------
\* drawdown_breaker_mask: point j is below the running maximum by the limit.
HighUpTo(i, j) == i \in 1 .. j /\ \A k \in 1 .. j : curve[k] <= curve[i]
Breach(j) == \E i \in 1 .. j : HighUpTo(i, j) /\ Drops(curve[j], curve[i])

\* ~drawdown_breaker_mask at the last point: the maximum latches.
MaskHalted == \E j \in 1 .. Len(curve) : Breach(j)

\* A curve that starts with a positive equity halts the monitor at the point
\* where the mask stops allowing trades, whatever came before the last reset
\* and whatever recovers after.  (With a peak of zero or less the two differ:
\* the monitor calls that no drawdown, the mask divides by it.)
MonitorAgreesWithMask ==
    curve # << >> /\ curve[1] > 0 => (halted <=> MaskHalted)
=============================================================================

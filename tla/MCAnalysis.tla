----------------------------- MODULE MCAnalysis -----------------------------
(***************************************************************************)
(* What TLC checks of the backtest (the engine, the strategies that decide *)
(* its targets, the cost model, the report) and of research and risk       *)
(* (universe membership, data quality, pair selection, weight limits, the  *)
(* drawdown breaker, tail risk, implied volatility).  They share no state, *)
(* so a behaviour exercises one of them, chosen at the start: their state  *)
(* spaces add up instead of multiplying.                                   *)
(***************************************************************************)
EXTENDS BacktestEngine, PairSignal, Momentum, Costs, BacktestReport,
        Universe, Quality, Selection, Sizing, Drawdown, TailRisk, ImpliedVol

VARIABLE part

backtestVars == <<engineVars, pairVars, momentumVars, order, reportVars>>
researchVars == <<universeVars, series, candidates, capped, drawdownVars, riskVars, solve>>
vars == <<part, backtestVars, researchVars>>

Init ==
    /\ part \in {"engine", "pairs", "momentum", "costs", "report", "universe", "quality",
                 "selection", "sizing", "drawdown", "risk", "options"}
    /\ EngineInit /\ PairInit /\ MomentumInit /\ CostsInit /\ ReportInit
    /\ UniverseInit /\ QualityInit /\ SelectionInit /\ SizingInit /\ DrawdownInit /\ TailRiskInit
    /\ ImpliedVolInit

Only(name) == part = name /\ UNCHANGED part

Engine == /\ Only("engine") /\ EngineNext
          /\ UNCHANGED <<pairVars, momentumVars, order, reportVars, researchVars>>
Pairs == /\ Only("pairs") /\ PairBar
         /\ UNCHANGED <<engineVars, momentumVars, order, reportVars, researchVars>>
Tilt == /\ Only("momentum") /\ FirstOfMonth
        /\ UNCHANGED <<engineVars, pairVars, order, reportVars, researchVars>>
Pricing == /\ Only("costs") /\ NewOrder
           /\ UNCHANGED <<engineVars, pairVars, momentumVars, reportVars, researchVars>>
Reporting == /\ Only("report") /\ ReportNext
             /\ UNCHANGED <<engineVars, pairVars, momentumVars, order, researchVars>>

Membership ==
    /\ Only("universe") /\ UniverseNext
    /\ UNCHANGED <<backtestVars, series, candidates, capped, drawdownVars, riskVars, solve>>
Checks ==
    /\ Only("quality") /\ NewRow
    /\ UNCHANGED <<backtestVars, universeVars, candidates, capped, drawdownVars, riskVars, solve>>
Screening ==
    /\ Only("selection") /\ NewCandidate
    /\ UNCHANGED <<backtestVars, universeVars, series, capped, drawdownVars, riskVars, solve>>
Limits ==
    /\ Only("sizing") /\ CapRow
    /\ UNCHANGED <<backtestVars, universeVars, series, candidates, drawdownVars, riskVars, solve>>
Breaker ==
    /\ Only("drawdown") /\ DrawdownNext
    /\ UNCHANGED <<backtestVars, universeVars, series, candidates, capped, riskVars, solve>>
Risk ==
    /\ Only("risk") /\ TailRiskNext
    /\ UNCHANGED <<backtestVars, universeVars, series, candidates, capped, drawdownVars, solve>>
Options ==
    /\ Only("options") /\ ImpliedVolNext
    /\ UNCHANGED <<backtestVars, universeVars, series, candidates, capped, drawdownVars, riskVars>>

Next ==
    \/ Engine \/ Pairs \/ Tilt \/ Pricing \/ Reporting
    \/ Membership \/ Checks \/ Screening \/ Limits \/ Breaker \/ Risk \/ Options

Spec == Init /\ [][Next]_vars

-----------------------------------------------------------------------------
(* Engine: two stocks, one with a known volume.  Half, all, none and a long *)
(* and short row; prices that double, a halted day, a day without prices.   *)
MCQuotes == {[open |-> 1, close |-> 2, halted |-> FALSE], [open |-> 2, close |-> 1, halted |-> FALSE],
             [open |-> 2, close |-> 2, halted |-> TRUE], [open |-> 0, close |-> 0, halted |-> FALSE]}
MCAdv == [s \in Stock |-> IF s = "tcs" THEN 20 ELSE 0]
MCTradeCost(price, qty) == IF qty = 0 THEN 0 ELSE 1 + (price * qty) \div 20
MCTargets == {[s \in Stock |-> 1], [s \in Stock |-> IF s = "tcs" THEN 2 ELSE 0],
              [s \in Stock |-> IF s = "tcs" THEN -1 ELSE 1], [s \in Stock |-> 0]}

(* Pairs: z-scores around each band, in half units (2.0, 0.0 and 3.5).     *)
MCZScores == {-8, -7, -4, -1, 0, 1, 4, 8}

(* Momentum: candidates of two scores, one with unknown volatility, and a   *)
(* stock out of the index.                                                 *)
MCSignals == {[score |-> 2, member |-> TRUE, inv |-> 1], [score |-> 1, member |-> TRUE, inv |-> 2],
              [score |-> 1, member |-> TRUE, inv |-> 0], [score |-> 2, member |-> FALSE, inv |-> 1]}

(* Costs: a flat fee that binds for the larger orders.                     *)
MCConfig == [flatFee |-> 1, brokerage |-> 3, exchange |-> 1, sttDelivery |-> 10,
             sttIntradaySell |-> 3, gst |-> 18, sebi |-> 1, stamp |-> 2,
             impactK |-> 9, halfSpread |-> 1, slippage |-> 5, participation |-> 10]
MCQuantities == {-40, -5, 0, 5, 40}
MCRoot(p) == p \div 10

(* Report: a benchmark with a bar before the window, a late one, a hole and *)
(* none; curves above and below the capital, and below zero.               *)
MCEquities == {-2, -1, 10, 11}
MCWindows == {<<1, 4>>, <<2, 4>>}
MCBenchmarkBars == {<<0, 0, 0, 0>>, <<2, 0, 3, 0>>, <<0, 0, 3, 2>>, <<2, 3, 2, 3>>}
MCGrid == <<5, 10>>

\* Two symbols in one sector, one of another, one that the map lacks.
MCSector(s) == CASE s \in {"infy", "tcs"} -> "it" [] s = "sbin" -> "bank" [] OTHER -> "none"
MCRawWeights == {-9, -4, 0, 3, 7}

\* A peak of 20 and drops just within and just beyond 15 percent.
MCEquity == {-1, 0, 16, 17, 20, 21, 24}

\* Losses, gains and a flat return; a flat and a falling mean, no variance.
MCReturns == {-5, -2, 0, 3}
MCMoments == {-2, 0, 1, 4, 20}
=============================================================================

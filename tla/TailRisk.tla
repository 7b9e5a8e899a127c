------------------------------ MODULE TailRisk ------------------------------
(***************************************************************************)
(* Sizes from risk: historical value at risk and expected shortfall        *)
(* (engine/models/monte_carlo.py var_cvar), the position size they allow   *)
(* (engine/risk/var.py), fractional Kelly and the volatility target        *)
(* (engine/risk/position_sizing.py).  A fraction a / b is the pair <<a, b>>*)
(* with b > 0; the fitted Student-t variant is left out.                   *)
(***************************************************************************)
EXTENDS Integers, Sequences, FiniteSetsExt, Ranking

CONSTANTS
    Returns,       \* returns that occur
    MaxReturns,    \* bound: length of the series
    TailNum, TailDen,      \* 1 - alpha
    Budgets,       \* risk budgets
    Moments,       \* means, variances and volatilities that occur
    KellyNum,      \* fraction
    KellyCap,      \* cap
    MaxLeverage    \* max_leverage

ASSUME RiskAssumption ==
    /\ Returns \subseteq Int /\ Budgets \subseteq Int /\ Moments \subseteq Int
    /\ TailNum \in Nat /\ TailDen \in Nat \ {0} /\ TailNum <= TailDen
    /\ KellyNum \in Nat /\ KellyCap \in Nat /\ MaxLeverage \in Nat

VARIABLES
    sized,         \* [returns, budget, measure, res, size]: the last size by tail risk
    scaled         \* [mean, variance, kelly, scale]: the last Kelly weight and scale

riskVars == <<sized, scaled>>

\* np.quantile: linear between the two order statistics around p (n - 1).
Quantile(r) ==
    LET sorted == Sorted(r)
        at == TailNum * (Len(r) - 1)
        below == sorted[at \div TailDen + 1]
        above == sorted[IF at % TailDen = 0 THEN at \div TailDen + 1 ELSE at \div TailDen + 2]
    IN <<below * TailDen + (at % TailDen) * (above - below), TailDen>>

\* Mutant: the quantile of the gains.
VarCvar_OfGains(r) ==
    LET q == Quantile([i \in DOMAIN r |-> -r[i]])
        tail == {i \in DOMAIN r : r[i] * q[2] <= q[1]}
    IN [var |-> <<-q[1], q[2]>>,
        cvar |-> <<-MapThenSumSet(LAMBDA i : r[i], tail), Cardinality(tail)>>]

\* The tail holds the smallest return at least.
VarCvar(r) ==
    LET q == Quantile(r)
        tail == {i \in DOMAIN r : r[i] * q[2] <= q[1]}
    IN [var |-> <<-q[1], q[2]>>,
        cvar |-> <<-MapThenSumSet(LAMBDA i : r[i], tail), Cardinality(tail)>>]

CvarPositionSize(budget, risk) ==
    IF risk[1] > 0 THEN <<budget * risk[2], risk[1]>> ELSE <<0, 1>>

\* In units of one over the denominator of the fraction, rounded towards zero.
FractionalKelly(mean, variance) ==
    IF variance <= 0 THEN 0
    ELSE LET size == (KellyNum * (IF mean < 0 THEN -mean ELSE mean)) \div variance
             bound == IF size > KellyCap THEN KellyCap ELSE size
         IN IF mean < 0 THEN -bound ELSE bound

TargetVolScale(realized, target) ==
    IF realized <= 0 THEN <<0, 1>>
    ELSE IF target > MaxLeverage * realized THEN <<MaxLeverage, 1>> ELSE <<target, realized>>

TailRiskInit ==
    /\ sized = [returns |-> << >>, budget |-> 0, measure |-> "cvar",
                res |-> [var |-> <<0, 1>>, cvar |-> <<0, 1>>], size |-> <<0, 1>>]
    /\ scaled = [mean |-> 0, variance |-> 0, kelly |-> 0, scale |-> <<0, 1>>]

\* An empty series raises.
SizeByTailRisk ==
    /\ Len(sized.returns) < MaxReturns
    /\ \E x \in Returns, budget \in Budgets, measure \in {"cvar", "var"} :
          LET r == Append(sized.returns, x)
              res == VarCvar(r)
          IN sized' = [returns |-> r, budget |-> budget, measure |-> measure, res |-> res,
                       size |-> CvarPositionSize(budget, res[measure])]
    /\ UNCHANGED scaled

SizeByMoments ==
    /\ \E mean, variance \in Moments :
          scaled' = [mean |-> mean, variance |-> variance,
                     kelly |-> FractionalKelly(mean, variance),
                     scale |-> TargetVolScale(variance, mean)]
    /\ UNCHANGED sized

TailRiskNext == SizeByTailRisk \/ SizeByMoments

TailRiskSpec == TailRiskInit /\ [][TailRiskNext]_riskVars

-----------------------------------------------------------------------------
\* The value at risk is a loss that the share 1 - alpha of the returns reaches,
\* and no more of them exceed, up to the two around the quantile; the expected
\* shortfall is no smaller.  A position of the size by shortfall loses on
\* average exactly its budget on the days that are in the tail, and there is
\* none only if those days bring no loss; sized by the value at risk it may
\* lose more.  Kelly and the volatility target keep their caps, on the side of
\* the mean, and take nothing where there is no variance.
SizesRespectRisk ==
    /\ sized.returns # << >> =>
          LET r == sized.returns
              v == sized.res.var
              worse == {i \in DOMAIN r : -r[i] * v[2] > v[1]}
              tail == {i \in DOMAIN r : -r[i] * v[2] >= v[1]}
              loss == -MapThenSumSet(LAMBDA i : r[i], tail)
              days == Cardinality(tail)
          IN /\ (Cardinality(worse) - 1) * TailDen < TailNum * (Len(r) - 1)
             /\ days * TailDen > TailNum * (Len(r) - 1)
             /\ loss * v[2] >= v[1] * days
             /\ sized.measure = "cvar" =>
                   IF loss > 0 THEN sized.size[1] * loss = sized.budget * days * sized.size[2]
                   ELSE sized.size[1] = 0
             /\ (sized.measure = "var" /\ sized.size[1] > 0) =>
                   sized.size[1] * loss >= sized.budget * days * sized.size[2]
    /\ scaled.kelly \in -KellyCap .. KellyCap /\ scaled.kelly * scaled.mean >= 0
    /\ scaled.variance <= 0 => scaled.kelly = 0 /\ scaled.scale[1] = 0
    /\ scaled.variance > 0 =>
          /\ scaled.scale[1] * scaled.variance <= scaled.mean * scaled.scale[2]
          /\ scaled.scale[1] <= MaxLeverage * scaled.scale[2]
=============================================================================

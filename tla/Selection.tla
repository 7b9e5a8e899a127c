----------------------------- MODULE Selection -----------------------------
(***************************************************************************)
(* Which candidate pairs are traded: select_pairs in                       *)
(* engine/strategies/pairs_trading.py with the multiple-testing control of *)
(* engine/strategies/cointegration.py.  The regressions and fits are       *)
(* inputs: a candidate comes with its p-value, whether both legs have a    *)
(* liquid future, and whether the fits on the two windows pass.            *)
(***************************************************************************)
EXTENDS Integers, Sequences, FiniteSetsExt, Ranking

CONSTANTS
    PValues,       \* p-values that occur, in units of 1 / PUnit
    PUnit,
    Alpha,         \* cointegration_pvalue in the same units
    MaxCandidates  \* bound

ASSUME SelectionAssumption == PValues \subseteq Int /\ Alpha \in Nat

VARIABLE candidates    \* [p, liquid, trainFit, oosRows, oosFit]

SelectionInit == candidates = << >>

NewCandidate ==
    /\ Len(candidates) < MaxCandidates
    /\ \E p \in PValues, liquid, trainFit, oosFit \in BOOLEAN, oosRows \in {19, 20} :
          candidates' = Append(candidates, [p |-> p, liquid |-> liquid, trainFit |-> trainFit,
                                            oosRows |-> oosRows, oosFit |-> oosFit])

SelectionSpec == SelectionInit /\ [][NewCandidate]_candidates

\* In benjamini_hochberg p gives the p-value of each hypothesis that was tested.
\* Mutant: the first sorted p-value above its threshold ends the scan.
BenjaminiHochberg_StepDown(p) ==
    LET m == Cardinality(DOMAIN p)
        passed == {k \in 1 .. m : \A n \in 1 .. k : Sorted(p)[n] * m <= n * Alpha}
    IN IF passed = {} THEN {} ELSE {i \in DOMAIN p : p[i] <= Sorted(p)[Max(passed)]}

\* The cutoff is the last of the sorted p-values that is below its threshold.
BenjaminiHochberg(p) ==
    LET m == Cardinality(DOMAIN p)
        passed == {k \in 1 .. m : Sorted(p)[k] * m <= k * Alpha}
    IN IF passed = {} THEN {} ELSE {i \in DOMAIN p : p[i] <= Sorted(p)[Max(passed)]}

\* select_pairs: all liquid candidates are tested together, then filtered.
Liquid(all) == {i \in DOMAIN all : all[i].liquid}

SelectPairs(all) ==
    {i \in BenjaminiHochberg([i \in Liquid(all) |-> all[i].p]) :
        all[i].trainFit /\ all[i].oosRows >= 20 /\ all[i].oosFit}

\* Discoveries are controlled for the number of pairs that were tested: there
\* is a k such that the pairs selected are those of the k smallest p-values
\* (and their ties) that pass the fits, k of the tested pairs are at or below
\* k/m of the level, and no larger k has that property.
SelectedAreDiscoveries ==
    LET tested == Liquid(candidates)
        m == Cardinality(tested)
        below(k) == {i \in tested : candidates[i].p * m <= k * Alpha}
        enough == {k \in 1 .. m : Cardinality(below(k)) >= k}
        discoveries == IF enough = {} THEN {} ELSE below(Max(enough))
    IN SelectPairs(candidates) =
         {i \in discoveries :
            candidates[i].trainFit /\ candidates[i].oosFit /\ candidates[i].oosRows >= 20}
=============================================================================

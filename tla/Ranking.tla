------------------------------- MODULE Ranking -------------------------------
(***************************************************************************)
(* Sorting, as the algorithms use it: Python's list.sort and sorted, and   *)
(* numpy's sort of floats, where equal keys cannot be told apart.  Keys are*)
(* a function of integers to integers, of a sequence's positions or of     *)
(* dates; equal keys stay in the order of what they are keys of.           *)
(***************************************************************************)
EXTENDS Integers, FiniteSets

NotAfter(key, i, j) == key[i] < key[j] \/ (key[i] = key[j] /\ i <= j)

Rank(key, i) == Cardinality({j \in DOMAIN key : NotAfter(key, j, i)})

\* What stands in each place once the keys are sorted.
SortOrder(key) ==
    [k \in 1 .. Cardinality(DOMAIN key) |-> CHOOSE i \in DOMAIN key : Rank(key, i) = k]

Sorted(key) == [k \in 1 .. Cardinality(DOMAIN key) |-> key[SortOrder(key)[k]]]
=============================================================================

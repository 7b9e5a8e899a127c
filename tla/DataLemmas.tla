----------------------------- MODULE DataLemmas -----------------------------
(***************************************************************************)
(* Lemmas about finite data, for the proofs about MapThenSumSet, FoldLeft  *)
(* and the sorted orders of Ranking: sums over sets, the quotients that    *)
(* rounding takes, folds over the positions of a sequence, and ranks.      *)
(*                                                                         *)
(* The library states induction over finite sets for an operator, which    *)
(* the provers cannot instantiate.  Here it is stated for a set of subsets *)
(* that are good, and follows from the least element of a set of natural   *)
(* numbers, which exists because < is well-founded.                        *)
(***************************************************************************)
EXTENDS FiniteSetsExt, Integers, Sequences, Ranking, FiniteSetTheorems, WellFoundedInduction, TLAPS

\* A set of natural numbers that is not empty has a least element.
LEMMA LeastNat ==
    ASSUME NEW T \in SUBSET Nat, T # {}
    PROVE  \E n \in T : \A m \in T : n <= m
<1>1. PICK n \in T : \A m \in T : <<m, n>> \notin OpToRel(<, Nat)
  BY WFMin, NatLessThanWellFounded, Zenon
<1>2. \A m \in T : ~(m < n)
  BY <1>1 DEF OpToRel
<1>3. QED
  BY <1>2

\* Induction over the natural numbers, about the set of the numbers that are good.
LEMMA NumbersFrom0 ==
    ASSUME NEW P, 0 \in P, \A n \in Nat : n \in P => n + 1 \in P
    PROVE  Nat \subseteq P
<1> SUFFICES ASSUME Nat \ P # {} PROVE FALSE
  OBVIOUS
<1>1. PICK n \in Nat \ P : \A m \in Nat \ P : n <= m
  BY LeastNat
<1>2. n # 0 /\ n - 1 \in Nat /\ (n - 1) + 1 = n
  BY <1>1
<1>3. n - 1 \in P
  BY <1>1, <1>2
<1>4. QED
  BY <1>1, <1>2, <1>3

\* A set of subsets of a finite set has one that is minimal.
LEMMA SmallestSet ==
    ASSUME NEW S, IsFiniteSet(S), NEW Bad \in SUBSET SUBSET S, Bad # {}
    PROVE  \E T \in Bad : \A U \in SUBSET T : U # T => U \notin Bad
<1> DEFINE N == {Cardinality(T) : T \in Bad}
<1>1. \A T \in SUBSET S : IsFiniteSet(T) /\ Cardinality(T) \in Nat
  BY FS_Subset, FS_CardinalityType
<1>2. N \in SUBSET Nat /\ N # {}
  BY <1>1
<1>3. PICK n \in N : \A m \in N : n <= m
  BY <1>2, LeastNat
<1>4. PICK T \in Bad : Cardinality(T) = n
  OBVIOUS
<1>5. ASSUME NEW U \in SUBSET T, U # T PROVE U \notin Bad
  <2>1. Cardinality(U) <= Cardinality(T) /\ Cardinality(U) # Cardinality(T)
    BY <1>1, <1>5, FS_Subset
  <2>2. Cardinality(U) \in Nat /\ Cardinality(T) \in Nat
    BY <1>1
  <2>3. U \in Bad => Cardinality(U) \in N
    OBVIOUS
  <2> HIDE DEF N
  <2>4. QED
    BY <1>3, <1>4, <2>1, <2>2, <2>3
<1>6. QED
  BY <1>5

\* Induction over a finite set, about the set of its subsets that are good.
LEMMA SetInduction ==
    ASSUME NEW S, IsFiniteSet(S), NEW P,
           {} \in P,
           \A T \in SUBSET S, x \in S : T \in P /\ x \notin T => T \cup {x} \in P
    PROVE  S \in P
<1> SUFFICES ASSUME S \notin P PROVE FALSE
  OBVIOUS
<1> DEFINE Bad == (SUBSET S) \ P
<1>1. PICK T \in Bad : \A U \in SUBSET T : U # T => U \notin Bad
  <2>1. Bad \in SUBSET SUBSET S /\ Bad # {}
    OBVIOUS
  <2> HIDE DEF Bad
  <2> QED
    BY <2>1, SmallestSet
<1>2. PICK x \in T : TRUE
  BY <1>1
<1>3. T \ {x} \in P
  BY <1>1, <1>2
<1>4. (T \ {x}) \cup {x} \in P
  BY <1>2, <1>3
<1>5. (T \ {x}) \cup {x} = T
  BY <1>2
<1>6. T \in P
  BY <1>4, <1>5
<1>7. QED
  BY <1>6

-----------------------------------------------------------------------------
\* The element that MapThenSumSet takes next.
Pick(T) == CHOOSE x \in T : TRUE

\* `it' is what MapThenSumSet computes: the sum of F over each subset of S.
IsSum(it, F, S) ==
    it = [T \in SUBSET S |-> IF T = {} THEN 0 ELSE F[Pick(T)] + it[T \ {Pick(T)}]]

\* The element that is picked is one.
LEMMA PickIn == ASSUME NEW T, T # {} PROVE Pick(T) \in T
BY DEF Pick

\* There is such a function: it is built for the sets of up to n elements.
LEMMA SumsExist ==
    ASSUME NEW S, IsFiniteSet(S), NEW F
    PROVE  \E it : IsSum(it, F, S)
<1> DEFINE Upto(n) == {T \in SUBSET S : Cardinality(T) <= n}
           Step(it, n) == [T \in Upto(n) |->
                             IF T = {} THEN 0 ELSE F[Pick(T)] + it[T \ {Pick(T)}]]
           P == {n \in Nat : \E it : it = Step(it, n)}
<1>1. \A T \in SUBSET S : IsFiniteSet(T) /\ Cardinality(T) \in Nat
  BY FS_Subset, FS_CardinalityType
<1>2. 0 \in P
  <2>1. \A T \in Upto(0) : T = {}
    BY <1>1, FS_EmptySet
  <2> DEFINE it == [T \in Upto(0) |-> 0]
  <2>2. it = Step(it, 0)
    BY <2>1
  <2>3. QED
    BY <2>2
<1>3. ASSUME NEW n \in Nat, n \in P PROVE n + 1 \in P
  <2>1. PICK it : it = Step(it, n)
    BY <1>3
  <2> DEFINE jt == Step(it, n + 1)
  <2>2. \A T \in Upto(n + 1) : T # {} => T \ {Pick(T)} \in Upto(n)
    <3> SUFFICES ASSUME NEW T \in Upto(n + 1), T # {} PROVE T \ {Pick(T)} \in Upto(n)
      OBVIOUS
    <3>1. Pick(T) \in T
      BY PickIn
    <3>2. Cardinality(T \ {Pick(T)}) = Cardinality(T) - 1
      BY <1>1, <3>1, FS_RemoveElement
    <3>3. QED
      BY <1>1, <3>2
  <2>3. \A T \in Upto(n) : T \in Upto(n + 1) /\ jt[T] = it[T]
    <3>1. \A T \in Upto(n) : T \in Upto(n + 1)
      BY <1>1
    <3>2. \A T \in Upto(n) : it[T] = IF T = {} THEN 0 ELSE F[Pick(T)] + it[T \ {Pick(T)}]
      BY <2>1
    <3>3. QED
      BY <3>1, <3>2
  <2>4. jt = Step(jt, n + 1)
    <3>1. \A T \in Upto(n + 1) :
             jt[T] = IF T = {} THEN 0 ELSE F[Pick(T)] + it[T \ {Pick(T)}]
      OBVIOUS
    <3>2. \A T \in Upto(n + 1) :
             jt[T] = IF T = {} THEN 0 ELSE F[Pick(T)] + jt[T \ {Pick(T)}]
      BY <3>1, <2>2, <2>3
    <3> HIDE DEF Upto
    <3>3. QED
      BY <3>2
  <2>5. n + 1 \in Nat /\ \E i : i = Step(i, n + 1)
    <3> HIDE DEF jt, Step
    <3> QED
      BY <2>4
  <2>6. QED
    BY <2>5
<1>4. Nat \subseteq P
  <2> HIDE DEF P
  <2> QED
    BY <1>2, <1>3, NumbersFrom0
<1>5. PICK it : it = Step(it, Cardinality(S))
  BY <1>1, <1>4
<1>6. Upto(Cardinality(S)) = SUBSET S
  BY <1>1, FS_Subset
<1>7. QED
  BY <1>5, <1>6 DEF IsSum

\* The recursion, for one set.
LEMMA SumUnfolds ==
    ASSUME NEW S, NEW F, NEW it, IsSum(it, F, S), NEW T \in SUBSET S
    PROVE  it[T] = IF T = {} THEN 0 ELSE F[Pick(T)] + it[T \ {Pick(T)}]
BY DEF IsSum

\* Two sums over sets with a common part agree on it where their functions do.
LEMMA SumsAgree ==
    ASSUME NEW S, IsFiniteSet(S), NEW R, NEW F, NEW G, NEW it, NEW jt,
           IsSum(it, F, S), IsSum(jt, G, R),
           NEW V \in SUBSET S, V \in SUBSET R, \A x \in V : F[x] = G[x]
    PROVE  it[V] = jt[V]
<1> DEFINE Bad == {T \in SUBSET V : it[T] # jt[T]}
<1>1. CASE Bad = {}
  BY <1>1
<1>2. CASE Bad # {}
  <2>1. PICK T \in Bad : \A U \in SUBSET T : U # T => U \notin Bad
    <3> HIDE DEF Bad
    <3>1. IsFiniteSet(V)
      BY FS_Subset
    <3>2. Bad \in SUBSET SUBSET V
      BY DEF Bad
    <3> QED
      BY <1>2, <3>1, <3>2, SmallestSet
  <2>2. /\ it[T] = IF T = {} THEN 0 ELSE F[Pick(T)] + it[T \ {Pick(T)}]
        /\ jt[T] = IF T = {} THEN 0 ELSE G[Pick(T)] + jt[T \ {Pick(T)}]
    BY SumUnfolds
  <2>3. T # {}
    BY <2>2
  <2>4. PICK p \in T : p = Pick(T)
    BY <2>3, PickIn
  <2>5. it[T \ {p}] = jt[T \ {p}]
    BY <2>1, <2>4
  <2>6. QED
    BY <2>2, <2>3, <2>4, <2>5
<1>3. QED
  BY <1>1, <1>2

\* The order in which the elements are picked does not matter.
LEMMA AnyPick ==
    ASSUME NEW S, IsFiniteSet(S), NEW F, NEW it, IsSum(it, F, S), \A x \in S : F[x] \in Int
    PROVE  \A T \in SUBSET S : it[T] \in Int /\ \A x \in T : it[T] = F[x] + it[T \ {x}]
<1> DEFINE Good(T) == it[T] \in Int /\ \A x \in T : it[T] = F[x] + it[T \ {x}]
           Bad == {T \in SUBSET S : ~Good(T)}
<1> SUFFICES ASSUME Bad # {} PROVE FALSE
  OBVIOUS
<1>1. PICK T \in Bad : \A U \in SUBSET T : U # T => U \notin Bad
  <2> HIDE DEF Bad
  <2>1. Bad \in SUBSET SUBSET S
    BY DEF Bad
  <2> QED
    BY <2>1, SmallestSet
<1>0. T \in SUBSET S
  OBVIOUS
<1>2. it[T] = IF T = {} THEN 0 ELSE F[Pick(T)] + it[T \ {Pick(T)}]
  <2> HIDE DEF Bad, Good
  <2> QED
    BY <1>0 DEF IsSum
<1>3. T # {}
  BY <1>0, <1>2
<1>4. PICK p \in T : p = Pick(T)
  BY <1>3, PickIn
<1>5. \A U \in SUBSET T : U # T => Good(U)
  BY <1>1
<1> HIDE DEF Good
<1>6. it[T] = F[p] + it[T \ {p}] /\ Good(T \ {p})
  BY <1>2, <1>3, <1>4, <1>5
<1>7. it[T] \in Int
  BY <1>6 DEF Good
<1>8. ASSUME NEW x \in T PROVE it[T] = F[x] + it[T \ {x}]
  <2>1. CASE x = p
    BY <1>6, <2>1
  <2>2. CASE x # p
    <3> DEFINE U == (T \ {p}) \ {x}
    <3>1. U = (T \ {x}) \ {p} /\ U \in SUBSET T /\ U # T
      OBVIOUS
    <3> HIDE DEF U
    <3>2. Good(T \ {x}) /\ Good(U)
      BY <1>5, <3>1
    <3>3. it[T \ {p}] = F[x] + it[U]
      BY <1>6, <2>2, <3>1 DEF Good
    <3>4. it[T \ {x}] = F[p] + it[U]
      BY <2>2, <3>1, <3>2 DEF Good
    <3>5. it[U] \in Int /\ F[x] \in Int /\ F[p] \in Int
      BY <3>2 DEF Good
    <3>6. QED
      BY <1>6, <3>3, <3>4, <3>5
  <2>3. QED
    BY <2>1, <2>2
<1>9. Good(T)
  BY <1>7, <1>8 DEF Good
<1>10. QED
  BY <1>9

-----------------------------------------------------------------------------
\* The sum of F over a finite set.
SumOf(F, S) == (CHOOSE it : IsSum(it, F, S))[S]

\* Every function of sums gives SumOf.
LEMMA SumIs ==
    ASSUME NEW S, IsFiniteSet(S), NEW R, NEW F, NEW G, NEW it,
           IsSum(it, G, R), S \in SUBSET R, \A x \in S : F[x] = G[x]
    PROVE  it[S] = SumOf(F, S)
<1>1. PICK w : IsSum(w, F, S)
  BY SumsExist
<1> DEFINE jt == CHOOSE i : IsSum(i, F, S)
<1>2. IsSum(jt, F, S)
  BY <1>1, Zenon
<1>3. jt[S] = SumOf(F, S)
  BY DEF SumOf
<1> HIDE DEF jt
<1>4. jt[S] = it[S]
  BY <1>2, SumsAgree
<1>5. QED
  BY <1>3, <1>4

\* Functions that agree have the same sum.
LEMMA SumSame ==
    ASSUME NEW S, IsFiniteSet(S), NEW F, NEW G, \A x \in S : F[x] = G[x]
    PROVE  SumOf(F, S) = SumOf(G, S)
<1>1. PICK it : IsSum(it, G, S)
  BY SumsExist
<1>2. it[S] = SumOf(F, S)
  BY <1>1, SumIs
<1>3. it[S] = SumOf(G, S)
  BY <1>1, SumIs
<1>4. QED
  BY <1>2, <1>3

\* The sum over nothing is 0.
LEMMA SumEmpty == ASSUME NEW F PROVE SumOf(F, {}) = 0
<1>1. IsFiniteSet({})
  BY FS_EmptySet
<1>2. PICK it : IsSum(it, F, {})
  BY <1>1, SumsExist
<1>3. it[{}] = SumOf(F, {})
  BY <1>1, <1>2, SumIs
<1>4. it[{}] = 0
  BY <1>2 DEF IsSum
<1>5. QED
  BY <1>3, <1>4

\* A sum of integers is an integer.
LEMMA SumType ==
    ASSUME NEW S, IsFiniteSet(S), NEW F, \A x \in S : F[x] \in Int
    PROVE  SumOf(F, S) \in Int
<1>1. PICK it : IsSum(it, F, S)
  BY SumsExist
<1>2. it[S] = SumOf(F, S)
  BY <1>1, SumIs
<1>3. it[S] \in Int
  BY <1>1, AnyPick
<1>4. QED
  BY <1>2, <1>3

\* One more element adds its value.
LEMMA SumAdd ==
    ASSUME NEW S, IsFiniteSet(S), NEW F, NEW x, x \notin S,
           \A y \in S : F[y] \in Int, F[x] \in Int
    PROVE  SumOf(F, S \cup {x}) = SumOf(F, S) + F[x]
<1> DEFINE R == S \cup {x}
<1>0. IsFiniteSet(R)
  BY FS_AddElement
<1>1. R \ {x} = S /\ x \in R /\ S \in SUBSET R
  OBVIOUS
<1> HIDE DEF R
<1>2. PICK it : IsSum(it, F, R)
  BY <1>0, SumsExist
<1>3. it[R] = SumOf(F, R) /\ it[S] = SumOf(F, S)
  BY <1>0, <1>1, <1>2, SumIs
<1>4. \A y \in R : F[y] \in Int
  BY DEF R
<1>5. it[R] = F[x] + it[S] /\ it[S] \in Int
  <2>1. \A T \in SUBSET R : it[T] \in Int /\ \A y \in T : it[T] = F[y] + it[T \ {y}]
    BY ONLY <1>0, <1>2, <1>4, AnyPick, SMT
  <2>2. R \in SUBSET R
    OBVIOUS
  <2> QED
    BY <1>1, <2>1, <2>2
<1>6. SumOf(F, R) = SumOf(F, S) + F[x]
  BY <1>1, <1>3, <1>4, <1>5
<1>7. QED
  BY <1>6 DEF R

\* The sum grows by the value of a new element, whose values elsewhere stay.
LEMMA SumGrows ==
    ASSUME NEW S, IsFiniteSet(S), NEW x, x \notin S, NEW R, R = S \cup {x}, NEW F, NEW G,
           \A y \in S : F[y] \in Int, \A y \in S : G[y] = F[y], G[x] \in Int
    PROVE  SumOf(G, R) = SumOf(F, S) + G[x]
<1>1. SumOf(G, S) = SumOf(F, S)
  BY SumSame
<1>2. \A y \in S : G[y] \in Int
  OBVIOUS
<1>3. SumOf(G, S \cup {x}) = SumOf(G, S) + G[x]
  BY <1>2, SumAdd, ZenonT(30)
<1>4. QED
  BY <1>1, <1>3

\* One more element of a larger set adds its value.
LEMMA SumNext ==
    ASSUME NEW S, IsFiniteSet(S), NEW F, \A y \in S : F[y] \in Int,
           NEW T \in SUBSET S, NEW x \in S, x \notin T
    PROVE  SumOf(F, T \cup {x}) = SumOf(F, T) + F[x] /\ SumOf(F, T) \in Int /\ F[x] \in Int
<1>1. IsFiniteSet(T)
  BY FS_Subset
<1>2. (\A y \in T : F[y] \in Int) /\ F[x] \in Int
  OBVIOUS
<1>3. SumOf(F, T \cup {x}) = SumOf(F, T) + F[x]
  BY ONLY <1>1, <1>2, x \notin T, SumAdd, Zenon
<1>4. SumOf(F, T) \in Int
  BY <1>1, <1>2, SumType
<1>5. QED
  BY <1>2, <1>3, <1>4

\* A sum of values of at most c each is at most c times their number.
LEMMA SumBound ==
    ASSUME NEW S, IsFiniteSet(S), NEW F, NEW c \in Int,
           \A x \in S : F[x] \in Int /\ F[x] <= c
    PROVE  SumOf(F, S) <= c * Cardinality(S)
<1> DEFINE P == {T \in SUBSET S : SumOf(F, T) <= c * Cardinality(T)}
<1>1. {} \in P
  BY SumEmpty, FS_EmptySet
<1>2. ASSUME NEW T \in SUBSET S, NEW x \in S, T \in P, x \notin T
      PROVE  T \cup {x} \in P
  <2>1. IsFiniteSet(T) /\ Cardinality(T) \in Nat
    BY FS_Subset, FS_CardinalityType
  <2>2. Cardinality(T \cup {x}) = Cardinality(T) + 1
    BY <1>2, <2>1, FS_AddElement
  <2>3. SumOf(F, T \cup {x}) = SumOf(F, T) + F[x] /\ SumOf(F, T) \in Int
    BY <1>2, <2>1, SumAdd, SumType
  <2>4. PICK n \in Nat : n = Cardinality(T)
    BY <2>1
  <2>5. SumOf(F, T) <= c * n /\ F[x] <= c /\ F[x] \in Int
    BY <1>2, <2>4
  <2>6. c * (n + 1) = c * n + c
    OBVIOUS
  <2>7. SumOf(F, T \cup {x}) <= c * (n + 1)
    BY <2>3, <2>5, <2>6
  <2>8. QED
    BY <2>2, <2>4, <2>7
<1>3. S \in P
  <2> HIDE DEF P
  <2> QED
    BY <1>1, <1>2, SetInduction
<1>4. QED
  BY <1>3

\* The sum of two functions is the sum of their sums.
LEMMA SumPlus ==
    ASSUME NEW S, IsFiniteSet(S), NEW F, NEW G, NEW H,
           \A x \in S : F[x] \in Int /\ G[x] \in Int /\ H[x] = F[x] + G[x]
    PROVE  SumOf(H, S) = SumOf(F, S) + SumOf(G, S)
<1> DEFINE P == {T \in SUBSET S : SumOf(H, T) = SumOf(F, T) + SumOf(G, T)}
<1>1. {} \in P
  BY SumEmpty
<1>2. ASSUME NEW T \in SUBSET S, NEW x \in S, T \in P, x \notin T
      PROVE  T \cup {x} \in P
  <2>1. \A y \in S : F[y] \in Int /\ G[y] \in Int /\ H[y] \in Int
    OBVIOUS
  <2>2. SumOf(H, T) = SumOf(F, T) + SumOf(G, T) /\ H[x] = F[x] + G[x]
    BY <1>2
  <2> HIDE DEF P
  <2>3. SumOf(F, T \cup {x}) = SumOf(F, T) + F[x] /\ SumOf(F, T) \in Int /\ F[x] \in Int
    BY <1>2, <2>1, SumNext
  <2>4. SumOf(G, T \cup {x}) = SumOf(G, T) + G[x] /\ SumOf(G, T) \in Int /\ G[x] \in Int
    BY <1>2, <2>1, SumNext
  <2>5. SumOf(H, T \cup {x}) = SumOf(H, T) + H[x]
    BY <1>2, <2>1, SumNext
  <2>6. SumOf(H, T \cup {x}) = SumOf(F, T \cup {x}) + SumOf(G, T \cup {x})
    BY <2>2, <2>3, <2>4, <2>5
  <2>7. QED
    BY <2>6 DEF P
<1>3. S \in P
  <2> HIDE DEF P
  <2> QED
    BY <1>1, <1>2, SetInduction
<1>4. QED
  BY <1>3

\* A constant factor can be taken out of the sum.
LEMMA SumTimes ==
    ASSUME NEW S, IsFiniteSet(S), NEW F, NEW H, NEW c \in Int,
           \A x \in S : F[x] \in Int /\ H[x] = c * F[x]
    PROVE  SumOf(H, S) = c * SumOf(F, S)
<1> DEFINE P == {T \in SUBSET S : SumOf(H, T) = c * SumOf(F, T)}
<1>1. {} \in P
  BY SumEmpty
<1>2. ASSUME NEW T \in SUBSET S, NEW x \in S, T \in P, x \notin T
      PROVE  T \cup {x} \in P
  <2>1. (\A y \in S : F[y] \in Int) /\ (\A y \in S : H[y] \in Int)
    OBVIOUS
  <2>2. SumOf(H, T) = c * SumOf(F, T) /\ H[x] = c * F[x]
    BY <1>2
  <2> HIDE DEF P
  <2>3. SumOf(F, T \cup {x}) = SumOf(F, T) + F[x] /\ SumOf(F, T) \in Int /\ F[x] \in Int
    BY <1>2, <2>1, SumNext
  <2>4. SumOf(H, T \cup {x}) = SumOf(H, T) + H[x]
    BY <1>2, <2>1, SumNext
  <2>5. c * (SumOf(F, T) + F[x]) = c * SumOf(F, T) + c * F[x]
    BY <2>3
  <2>6. SumOf(H, T \cup {x}) = c * SumOf(F, T \cup {x})
    BY <2>2, <2>3, <2>4, <2>5
  <2>7. QED
    BY <2>6 DEF P
<1>3. S \in P
  <2> HIDE DEF P
  <2> QED
    BY <1>1, <1>2, SetInduction
<1>4. QED
  BY <1>3

\* The larger function has the larger sum.
LEMMA SumLeq ==
    ASSUME NEW S, IsFiniteSet(S), NEW F, NEW G,
           \A x \in S : F[x] \in Int /\ G[x] \in Int /\ F[x] <= G[x]
    PROVE  SumOf(F, S) <= SumOf(G, S)
<1> DEFINE P == {T \in SUBSET S : SumOf(F, T) <= SumOf(G, T)}
<1>1. {} \in P
  BY SumEmpty
<1>2. ASSUME NEW T \in SUBSET S, NEW x \in S, T \in P, x \notin T
      PROVE  T \cup {x} \in P
  <2>1. \A y \in S : F[y] \in Int /\ G[y] \in Int
    OBVIOUS
  <2>2. SumOf(F, T) <= SumOf(G, T) /\ F[x] <= G[x]
    BY <1>2
  <2> HIDE DEF P
  <2>3. SumOf(F, T \cup {x}) = SumOf(F, T) + F[x] /\ SumOf(F, T) \in Int /\ F[x] \in Int
    BY <1>2, <2>1, SumNext
  <2>4. SumOf(G, T \cup {x}) = SumOf(G, T) + G[x] /\ SumOf(G, T) \in Int /\ G[x] \in Int
    BY <1>2, <2>1, SumNext
  <2>5. SumOf(F, T \cup {x}) <= SumOf(G, T \cup {x})
    BY <2>2, <2>3, <2>4
  <2>6. QED
    BY <2>5 DEF P
<1>3. S \in P
  <2> HIDE DEF P
  <2> QED
    BY <1>1, <1>2, SetInduction
<1>4. QED
  BY <1>3

\* Elements whose value is 0 do not count.
LEMMA SumWithout0 ==
    ASSUME NEW S, IsFiniteSet(S), NEW R \in SUBSET S, NEW F,
           \A x \in S : F[x] \in Int, \A x \in S : x \notin R => F[x] = 0
    PROVE  SumOf(F, S) = SumOf(F, R)
<1> DEFINE P == {T \in SUBSET S : SumOf(F, T) = SumOf(F, T \cap R)}
<1>1. {} \in P
  <2>1. {} \cap R = {}
    OBVIOUS
  <2> QED
    BY <2>1
<1>2. ASSUME NEW T \in SUBSET S, NEW x \in S, T \in P, x \notin T
      PROVE  T \cup {x} \in P
  <2>1. PICK V \in SUBSET S : V = T \cap R
    OBVIOUS
  <2>2. SumOf(F, T) = SumOf(F, V)
    BY <1>2, <2>1
  <2> HIDE DEF P
  <2>3. SumOf(F, T \cup {x}) = SumOf(F, T) + F[x] /\ SumOf(F, T) \in Int /\ F[x] \in Int
    BY <1>2, SumNext
  <2>4. CASE x \in R
    <3>1. x \notin V /\ (T \cup {x}) \cap R = V \cup {x}
      BY <1>2, <2>1, <2>4
    <3>2. SumOf(F, V \cup {x}) = SumOf(F, V) + F[x] /\ SumOf(F, V) \in Int /\ F[x] \in Int
      BY <3>1, SumNext
    <3>3. SumOf(F, T \cup {x}) = SumOf(F, (T \cup {x}) \cap R)
      BY <2>2, <2>3, <3>1, <3>2
    <3> QED
      BY <3>3 DEF P
  <2>5. CASE x \notin R
    <3>1. (T \cup {x}) \cap R = V /\ F[x] = 0
      BY <2>1, <2>5
    <3>2. SumOf(F, T \cup {x}) = SumOf(F, V)
      BY <2>2, <2>3, <3>1
    <3>3. SumOf(F, T \cup {x}) = SumOf(F, (T \cup {x}) \cap R)
      BY <3>1, <3>2
    <3> QED
      BY <3>3 DEF P
  <2>6. QED
    BY <2>4, <2>5
<1>3. S \in P
  <2> HIDE DEF P
  <2> QED
    BY <1>1, <1>2, SetInduction
<1>4. S \cap R = R
  OBVIOUS
<1>5. QED
  BY <1>3, <1>4

-----------------------------------------------------------------------------
\* What MapThenSumSet of the community modules computes for a function.
LEMMA FunctionSum ==
    ASSUME NEW S, IsFiniteSet(S), NEW F
    PROVE  MapThenSumSet(LAMBDA x : F[x], S) = SumOf(F, S)
<1> DEFINE Is(i) == i = [T \in SUBSET S |->
                           IF T = {} THEN 0 ELSE F[Pick(T)] + i[T \ {Pick(T)}]]
           it == CHOOSE i : Is(i)
<1>1. ASSUME NEW i PROVE IsSum(i, F, S) <=> Is(i)
  BY DEF IsSum
<1>2. Is(it)
  <2>1. PICK i : Is(i)
    BY <1>1, SumsExist
  <2> HIDE DEF Is
  <2> QED
    BY <2>1, Zenon
<1>3. MapThenSumSet(LAMBDA x : F[x], S) = it[S]
  BY DEF MapThenSumSet, MapThenFoldSet, Pick
<1>4. IsSum(it, F, S)
  BY <1>1, <1>2
<1>5. it[S] = SumOf(F, S)
  <2> HIDE DEF it
  <2> QED
    BY <1>4, SumIs
<1>6. QED
  BY <1>3, <1>5

-----------------------------------------------------------------------------
(***************************************************************************)
(* Products, quotients and sums of quotients.                              *)
(***************************************************************************)
\* A product is as large as its factors say.
LEMMA Product ==
    ASSUME NEW a \in Int, NEW b \in Int, NEW k \in Int, k >= 0, a <= b
    PROVE  k * a <= k * b
<1>1. (b - a) * k >= 0
  OBVIOUS
<1>2. (b - a) * k = k * b - k * a
  OBVIOUS
<1> QED
  BY <1>1, <1>2

\* A larger factor on the right.
LEMMA ProductRight ==
    ASSUME NEW a \in Int, NEW b \in Int, NEW k \in Int, k >= 0, a <= b
    PROVE  a * k \in Int /\ b * k \in Int /\ a * k <= b * k
<1>1. k * a <= k * b
  BY Product
<1>2. k * a = a * k /\ k * b = b * k
  OBVIOUS
<1> QED
  BY <1>1, <1>2

\* A positive factor can be cancelled.
LEMMA Cancel ==
    ASSUME NEW a \in Int, NEW b \in Int, NEW k \in Int, k > 0, k * a <= k * b
    PROVE  a <= b
<1> SUFFICES ASSUME a > b PROVE FALSE
  OBVIOUS
<1>1. (a - b) * k > 0
  OBVIOUS
<1>2. (a - b) * k = k * a - k * b
  OBVIOUS
<1> QED
  BY <1>1, <1>2

\* A quotient is the largest number whose product stays below.
LEMMA Quotient ==
    ASSUME NEW a \in Int, NEW b \in Int, b > 0
    PROVE  a \div b \in Int /\ b * (a \div b) <= a /\ a < b * (a \div b) + b
OBVIOUS

\* Quotients lose less than one each.
LEMMA QuotientSum ==
    ASSUME NEW S, IsFiniteSet(S), NEW F, NEW H, NEW d \in Int, d > 0,
           \A s \in S : F[s] \in Int /\ H[s] = F[s] \div d
    PROVE  /\ SumOf(H, S) \in Int
           /\ d * SumOf(H, S) <= SumOf(F, S)
           /\ SumOf(F, S) <= d * SumOf(H, S) + (d - 1) * Cardinality(S)
<1> DEFINE D == [s \in S |-> d * H[s]]
           R == [s \in S |-> F[s] - d * H[s]]
<1>1. \A s \in S : F[s] \in Int /\ H[s] \in Int /\ d * H[s] <= F[s] /\ F[s] < d * H[s] + d
  BY Quotient
<1>2. \A s \in S : H[s] \in Int /\ D[s] = d * H[s]
  BY <1>1
<1>3. \A s \in S : D[s] \in Int /\ F[s] \in Int /\ D[s] <= F[s]
  BY <1>1
<1>4. \A s \in S : D[s] \in Int /\ R[s] \in Int /\ F[s] = D[s] + R[s]
  BY <1>1
<1>5. \A s \in S : R[s] \in Int /\ R[s] <= d - 1
  BY <1>1
<1> HIDE DEF D, R
<1>6. SumOf(D, S) = d * SumOf(H, S)
  BY <1>2, SumTimes
<1>7. SumOf(D, S) <= SumOf(F, S)
  BY <1>3, SumLeq
<1>8. SumOf(F, S) = SumOf(D, S) + SumOf(R, S)
  BY <1>4, SumPlus
<1>9. SumOf(R, S) <= (d - 1) * Cardinality(S)
  <2>1. d - 1 \in Int
    OBVIOUS
  <2> QED
    BY <1>5, <2>1, SumBound
<1>10. SumOf(H, S) \in Int /\ SumOf(R, S) \in Int /\ SumOf(D, S) \in Int
  BY <1>2, <1>4, SumType
<1>11. Cardinality(S) \in Nat
  BY FS_CardinalityType
<1>12. PICK a \in Int, b \in Int, r \in Int, k \in Int :
          a = d * SumOf(H, S) /\ b = SumOf(D, S) /\ r = SumOf(R, S) /\ k = (d - 1) * Cardinality(S)
  BY <1>10, <1>11
<1> QED
  BY <1>6, <1>7, <1>8, <1>9, <1>10, <1>12

-----------------------------------------------------------------------------
(***************************************************************************)
(* Sequences that grow.                                                    *)
(***************************************************************************)
LEMMA Appended ==
    ASSUME NEW S, NEW s \in Seq(S), NEW e \in S, NEW n, n = Len(s), NEW t, t = Append(s, e)
    PROVE  /\ n \in Nat /\ t \in Seq(S) /\ Len(t) = n + 1
           /\ DOMAIN s = 1 .. n /\ DOMAIN t = 1 .. (n + 1)
           /\ (\A i \in 1 .. n : t[i] = s[i]) /\ t[n + 1] = e
<1>1. n \in Nat /\ t \in Seq(S) /\ Len(t) = n + 1
  OBVIOUS
<1>2. DOMAIN s = 1 .. n /\ DOMAIN t = 1 .. (n + 1)
  BY <1>1
<1>3. \A i \in 1 .. n : t[i] = s[i]
  OBVIOUS
<1>4. t[n + 1] = e
  OBVIOUS
<1> QED
  BY <1>1, <1>2, <1>3, <1>4

\* Two sequences, one after the other.
LEMMA Joined ==
    ASSUME NEW S, NEW s \in Seq(S), NEW t \in Seq(S), NEW n, n = Len(s), NEW m, m = Len(t),
           NEW u, u = s \o t
    PROVE  /\ n \in Nat /\ m \in Nat /\ u \in Seq(S) /\ Len(u) = n + m
           /\ DOMAIN s = 1 .. n /\ DOMAIN t = 1 .. m /\ DOMAIN u = 1 .. (n + m)
           /\ \A i \in 1 .. n : u[i] = s[i]
           /\ \A i \in 1 .. m : u[n + i] = t[i]
<1>1. n \in Nat /\ m \in Nat /\ u \in Seq(S) /\ Len(u) = n + m
  OBVIOUS
<1>2. DOMAIN s = 1 .. n /\ DOMAIN t = 1 .. m /\ DOMAIN u = 1 .. (n + m)
  BY <1>1
<1>3. \A i \in 1 .. n : u[i] = s[i]
  OBVIOUS
<1>4. \A i \in 1 .. m : u[n + i] = t[i]
  OBVIOUS
<1> QED
  BY <1>1, <1>2, <1>3, <1>4

-----------------------------------------------------------------------------
(***************************************************************************)
(* Folds over a sequence of n elements, from the left.                     *)
(***************************************************************************)
\* A finite set of integers has a largest.
LEMMA Largest ==
    ASSUME NEW T, IsFiniteSet(T), T # {}, \A x \in T : x \in Int
    PROVE  Max(T) \in T /\ \A x \in T : x <= Max(T)
<1> DEFINE P == {U \in SUBSET T : U = {} \/ \E x \in U : \A y \in U : x >= y}
<1>1. {} \in P
  OBVIOUS
<1>2. ASSUME NEW U \in SUBSET T, NEW x \in T, U \in P, x \notin U
      PROVE  U \cup {x} \in P
  <2>1. CASE U = {}
    BY <2>1
  <2>2. CASE U # {}
    <3>1. PICK m \in U : \A y \in U : m >= y
      BY <1>2, <2>2
    <3>2. CASE m >= x
      BY <3>1, <3>2
    <3>3. CASE m < x
      <4>1. \A y \in U \cup {x} : x >= y
        BY <3>1, <3>3
      <4> QED
        BY <4>1
    <3> QED
      BY <3>1, <3>2, <3>3
  <2> QED
    BY <2>1, <2>2
<1>3. T \in P
  <2> HIDE DEF P
  <2> QED
    BY <1>1, <1>2, SetInduction
<1>4. \E x \in T : \A y \in T : x >= y
  BY <1>3
<1>5. Max(T) \in T /\ \A y \in T : Max(T) >= y
  BY <1>4, Zenon DEF Max
<1> QED
  BY <1>5

\* A finite set of integers has a smallest.
LEMMA Smallest ==
    ASSUME NEW T, IsFiniteSet(T), T # {}, \A x \in T : x \in Int
    PROVE  Min(T) \in T /\ \A x \in T : Min(T) <= x
<1> DEFINE N == {-x : x \in T}
           f == [x \in T |-> -x]
<1>0. f \in Surjection(T, N)
  BY DEF Surjection
<1>1. IsFiniteSet(N) /\ N # {} /\ \A x \in N : x \in Int
  <2>1. IsFiniteSet(N)
    <3> HIDE DEF f, N
    <3> QED
      BY <1>0, FS_Surjection
  <2> QED
    BY <2>1
<1>2. Max(N) \in N /\ \A x \in N : x <= Max(N)
  <2> HIDE DEF N
  <2> QED
    BY <1>1, Largest
<1> DEFINE m == Max(N)
<1>3. PICK x \in T : m = -x
  <2> HIDE DEF m
  <2> QED
    BY <1>2 DEF m
<1>3a. \A y \in T : x <= y
  <2> SUFFICES ASSUME NEW y \in T PROVE x <= y
    OBVIOUS
  <2>1. -y \in N
    OBVIOUS
  <2>2. -y <= m
    <3> HIDE DEF N
    <3> QED
      BY <1>2, <2>1
  <2> HIDE DEF m
  <2> QED
    BY <1>3, <2>2
<1>4. Min(T) \in T /\ \A y \in T : Min(T) =< y
  BY <1>3a, Zenon DEF Min
<1> QED
  BY <1>4

\* The last of some positions, and the others.
LEMMA LastOf ==
    ASSUME NEW n \in Nat, NEW T \in SUBSET (1 .. n), T # {}
    PROVE  /\ Max(T) \in 1 .. n /\ T \ {Max(T)} \in SUBSET (1 .. n)
           /\ Max(T) \in T /\ \A x \in T : x <= Max(T)
<1>1. IsFiniteSet(1 .. n)
  BY FS_Interval
<1>2. IsFiniteSet(T)
  BY <1>1, FS_Subset
<1>3. \A x \in T : x \in Int
  OBVIOUS
<1>4. Max(T) \in T /\ \A x \in T : x <= Max(T)
  BY <1>2, <1>3, Largest
<1> QED
  BY <1>4

\* `it' is a fold over the first positions that each subset holds.
IsFold(it, G, base, n) ==
    it = [T \in SUBSET (1 .. n) |->
             IF T = {} THEN base ELSE G[<<it[T \ {Max(T)}], Max(T)>>]]

\* There is such a function, built for the sets of up to k positions.
LEMMA FoldsExist ==
    ASSUME NEW n \in Nat, NEW Acc, NEW base \in Acc, NEW G \in [Acc \X (1 .. n) -> Acc]
    PROVE  \E it \in [SUBSET (1 .. n) -> Acc] : IsFold(it, G, base, n)
<1> DEFINE S == 1 .. n
           Upto(k) == {T \in SUBSET S : Cardinality(T) <= k}
           Step(it, k) == [T \in Upto(k) |->
                             IF T = {} THEN base ELSE G[<<it[T \ {Max(T)}], Max(T)>>]]
           P == {k \in Nat : \E it \in [Upto(k) -> Acc] : it = Step(it, k)}
<1>0. IsFiniteSet(S) /\ Cardinality(S) = n
  BY FS_Interval
<1>1. \A T \in SUBSET S : IsFiniteSet(T) /\ Cardinality(T) \in Nat /\ Cardinality(T) <= n
  <2> SUFFICES ASSUME NEW T \in SUBSET S
               PROVE  IsFiniteSet(T) /\ Cardinality(T) \in Nat /\ Cardinality(T) <= n
    OBVIOUS
  <2>1. IsFiniteSet(T) /\ Cardinality(T) <= Cardinality(S)
    BY <1>0, FS_Subset
  <2>2. Cardinality(T) \in Nat
    BY <2>1, FS_CardinalityType
  <2> QED
    BY <1>0, <2>1, <2>2
<1>2. \A T \in SUBSET S : T # {} => Max(T) \in T
  <2> SUFFICES ASSUME NEW T \in SUBSET S, T # {} PROVE Max(T) \in T
    OBVIOUS
  <2>1. \A x \in T : x \in Int
    OBVIOUS
  <2> QED
    BY <1>1, <2>1, Largest
<1>3. 0 \in P
  <2>1. \A T \in Upto(0) : T = {}
    BY <1>1, FS_EmptySet
  <2> DEFINE it == [T \in Upto(0) |-> base]
  <2>2. it = Step(it, 0) /\ it \in [Upto(0) -> Acc]
    BY <2>1
  <2>3. QED
    BY <2>2
<1>4. ASSUME NEW k \in Nat, k \in P PROVE k + 1 \in P
  <2>1. PICK it \in [Upto(k) -> Acc] : it = Step(it, k)
    BY <1>4
  <2> DEFINE jt == Step(it, k + 1)
  <2>2. \A T \in Upto(k + 1) : T # {} => T \ {Max(T)} \in Upto(k)
    <3> SUFFICES ASSUME NEW T \in Upto(k + 1), T # {} PROVE T \ {Max(T)} \in Upto(k)
      OBVIOUS
    <3>1. Max(T) \in T
      BY <1>2
    <3>2. Cardinality(T \ {Max(T)}) = Cardinality(T) - 1
      BY <1>1, <3>1, FS_RemoveElement
    <3>3. T \ {Max(T)} \in SUBSET S /\ Cardinality(T) \in Nat /\ Cardinality(T) <= k + 1
      BY <1>1
    <3> QED
      BY <3>2, <3>3
  <2>3. jt \in [Upto(k + 1) -> Acc]
    <3> SUFFICES ASSUME NEW T \in Upto(k + 1), T # {}
                 PROVE  G[<<it[T \ {Max(T)}], Max(T)>>] \in Acc
      OBVIOUS
    <3>1. PICK a \in Acc : a = it[T \ {Max(T)}]
      BY <2>2
    <3>2. PICK m \in 1 .. n : m = Max(T)
      BY <1>2
    <3> QED
      BY <3>1, <3>2
  <2>4. \A T \in Upto(k) : T \in Upto(k + 1) /\ jt[T] = it[T]
    <3>1. \A T \in Upto(k) : T \in Upto(k + 1)
      BY <1>1
    <3>2. \A T \in Upto(k) : it[T] = IF T = {} THEN base ELSE G[<<it[T \ {Max(T)}], Max(T)>>]
      BY <2>1
    <3>3. QED
      BY <3>1, <3>2
  <2>5. jt = Step(jt, k + 1)
    <3>1. \A T \in Upto(k + 1) :
             jt[T] = IF T = {} THEN base ELSE G[<<it[T \ {Max(T)}], Max(T)>>]
      OBVIOUS
    <3>2. \A T \in Upto(k + 1) :
             jt[T] = IF T = {} THEN base ELSE G[<<jt[T \ {Max(T)}], Max(T)>>]
      BY <3>1, <2>2, <2>4
    <3> HIDE DEF Upto
    <3>3. QED
      BY <3>2
  <2>6. k + 1 \in Nat /\ \E i \in [Upto(k + 1) -> Acc] : i = Step(i, k + 1)
    <3> HIDE DEF jt, Step, Upto
    <3> QED
      BY <2>3, <2>5
  <2>7. QED
    BY <2>6
<1>5. Nat \subseteq P
  <2> HIDE DEF P
  <2> QED
    BY <1>3, <1>4, NumbersFrom0
<1>6. PICK it \in [Upto(n) -> Acc] : it = Step(it, n)
  BY <1>5
<1>7. Upto(n) = SUBSET S
  BY <1>1
<1>8. QED
  BY <1>6, <1>7 DEF IsFold

\* The first k positions without the last of them.
LEMMA PrefixOf ==
    ASSUME NEW k \in Nat, k >= 1
    PROVE  (1 .. k) # {} /\ Max(1 .. k) = k /\ (1 .. k) \ {Max(1 .. k)} = 1 .. (k - 1)
<1>1. IsFiniteSet(1 .. k)
  BY FS_Interval
<1>2. Max(1 .. k) \in 1 .. k /\ \A x \in 1 .. k : x <= Max(1 .. k)
  BY <1>1, Largest
<1>3. Max(1 .. k) = k
  BY <1>2
<1> QED
  BY <1>3

-----------------------------------------------------------------------------
(***************************************************************************)
(* Sorted orders: the ranks of finitely many keys count them.              *)
(***************************************************************************)
Keys(key) == /\ IsFiniteSet(DOMAIN key)
             /\ \A i \in DOMAIN key : i \in Int /\ key[i] \in Int

\* Ranks are places, and in the order of the keys.
LEMMA RankIs ==
    ASSUME NEW key, Keys(key)
    PROVE  /\ Cardinality(DOMAIN key) \in Nat
           /\ \A i \in DOMAIN key : Rank(key, i) \in 1 .. Cardinality(DOMAIN key)
           /\ \A i, j \in DOMAIN key : Rank(key, i) <= Rank(key, j) <=> NotAfter(key, i, j)
<1> DEFINE Below(i) == {j \in DOMAIN key : NotAfter(key, j, i)}
<1>1. \A i, j, k \in DOMAIN key :
         /\ NotAfter(key, i, i)
         /\ NotAfter(key, i, j) /\ NotAfter(key, j, k) => NotAfter(key, i, k)
         /\ ~NotAfter(key, i, j) => NotAfter(key, j, i)
  BY DEF Keys, NotAfter
<1>2. Cardinality(DOMAIN key) \in Nat
  BY FS_CardinalityType DEF Keys
<1>3. \A i \in DOMAIN key :
         /\ IsFiniteSet(Below(i)) /\ Cardinality(Below(i)) <= Cardinality(DOMAIN key)
         /\ Cardinality(Below(i)) \in Nat /\ Rank(key, i) = Cardinality(Below(i))
  <2> SUFFICES ASSUME NEW i \in DOMAIN key
               PROVE  /\ IsFiniteSet(Below(i)) /\ Cardinality(Below(i)) <= Cardinality(DOMAIN key)
                      /\ Cardinality(Below(i)) \in Nat /\ Rank(key, i) = Cardinality(Below(i))
    OBVIOUS
  <2>1. Below(i) \in SUBSET DOMAIN key
    OBVIOUS
  <2>2. Rank(key, i) = Cardinality(Below(i))
    BY DEF Rank
  <2> HIDE DEF Below
  <2>3. IsFiniteSet(Below(i)) /\ Cardinality(Below(i)) <= Cardinality(DOMAIN key)
    BY <2>1, FS_Subset DEF Keys
  <2> QED
    BY <2>2, <2>3, FS_CardinalityType
<1>4. ASSUME NEW i \in DOMAIN key, NEW j \in DOMAIN key, NotAfter(key, i, j)
      PROVE  Rank(key, i) <= Rank(key, j)
  <2>1. Below(i) \in SUBSET Below(j)
    BY <1>1, <1>4
  <2> HIDE DEF Below
  <2> QED
    BY <1>3, <2>1, FS_Subset
<1>5. ASSUME NEW i \in DOMAIN key, NEW j \in DOMAIN key, ~NotAfter(key, i, j)
      PROVE  Rank(key, j) < Rank(key, i)
  <2>1. i \in Below(i) /\ Below(j) \in SUBSET (Below(i) \ {i})
    BY <1>1, <1>5
  <2> HIDE DEF Below
  <2>2. IsFiniteSet(Below(i) \ {i}) /\ Cardinality(Below(i) \ {i}) = Cardinality(Below(i)) - 1
    BY <1>3, <2>1, FS_RemoveElement
  <2>3. Cardinality(Below(j)) <= Cardinality(Below(i) \ {i})
    BY <2>1, <2>2, FS_Subset
  <2> QED
    BY <1>3, <2>2, <2>3
<1>6. \A i \in DOMAIN key : Cardinality(Below(i)) >= 1
  <2> SUFFICES ASSUME NEW i \in DOMAIN key PROVE Cardinality(Below(i)) >= 1
    OBVIOUS
  <2>1. i \in Below(i)
    BY <1>1
  <2> HIDE DEF Below
  <2>2. Cardinality(Below(i)) # 0
    BY <1>3, <2>1, FS_EmptySet
  <2> QED
    BY <1>3, <2>2
<1>7. \A i \in DOMAIN key : Rank(key, i) \in 1 .. Cardinality(DOMAIN key)
  <2> HIDE DEF Below
  <2> QED
    BY <1>2, <1>3, <1>6
<1>8. \A i, j \in DOMAIN key : Rank(key, i) <= Rank(key, j) <=> NotAfter(key, i, j)
  <2> SUFFICES ASSUME NEW i \in DOMAIN key, NEW j \in DOMAIN key
               PROVE  Rank(key, i) <= Rank(key, j) <=> NotAfter(key, i, j)
    OBVIOUS
  <2>1. Rank(key, i) \in Int /\ Rank(key, j) \in Int
    BY <1>7
  <2>2. CASE NotAfter(key, i, j)
    BY <1>4, <2>2
  <2>3. CASE ~NotAfter(key, i, j)
    <3>1. Rank(key, j) < Rank(key, i)
      BY <1>5, <2>3
    <3> QED
      BY <2>1, <2>3, <3>1
  <2> QED
    BY <2>2, <2>3
<1> QED
  BY <1>2, <1>7, <1>8

\* The sorted order puts every key at its rank.
LEMMA SortOrderIs ==
    ASSUME NEW key, Keys(key), NEW n, n = Cardinality(DOMAIN key)
    PROVE  /\ n \in Nat
           /\ SortOrder(key) \in [1 .. n -> DOMAIN key]
           /\ \A k \in 1 .. n : Rank(key, SortOrder(key)[k]) = k
           /\ \A i \in DOMAIN key : Rank(key, i) \in 1 .. n /\ SortOrder(key)[Rank(key, i)] = i
           /\ \A k, l \in 1 .. n : k <= l <=> NotAfter(key, SortOrder(key)[k], SortOrder(key)[l])
<1> DEFINE order == SortOrder(key)
           rank == [i \in DOMAIN key |-> Rank(key, i)]
<1>1. /\ n \in Nat
      /\ \A i \in DOMAIN key : Rank(key, i) \in 1 .. n
      /\ \A i, j \in DOMAIN key : Rank(key, i) <= Rank(key, j) <=> NotAfter(key, i, j)
  BY RankIs
<1>2. \A i, j \in DOMAIN key : NotAfter(key, i, j) /\ NotAfter(key, j, i) => i = j
  BY DEF Keys, NotAfter
<1>3. \A i, j \in DOMAIN key : Rank(key, i) = Rank(key, j) => i = j
  BY <1>1, <1>2
<1>4. rank \in Injection(DOMAIN key, 1 .. n)
  BY <1>1, <1>3 DEF Injection, IsInjective
<1>5. IsFiniteSet(1 .. n) /\ Cardinality(1 .. n) = n
  BY <1>1, FS_Interval
<1>6. rank \in Surjection(DOMAIN key, 1 .. n)
  <2> HIDE DEF rank
  <2> QED
    BY <1>4, <1>5, FS_Injection
<1>7. \A k \in 1 .. n : \E i \in DOMAIN key : Rank(key, i) = k
  BY <1>6 DEF Surjection
<1>8. order = [k \in 1 .. n |-> CHOOSE i \in DOMAIN key : Rank(key, i) = k]
  BY DEF SortOrder
<1>9. \A k \in 1 .. n : order[k] \in DOMAIN key /\ Rank(key, order[k]) = k
  <2> HIDE DEF order
  <2> SUFFICES ASSUME NEW k \in 1 .. n
               PROVE  order[k] \in DOMAIN key /\ Rank(key, order[k]) = k
    OBVIOUS
  <2>1. order[k] = CHOOSE i \in DOMAIN key : Rank(key, i) = k
    BY <1>8
  <2>2. \E i \in DOMAIN key : Rank(key, i) = k
    BY <1>7
  <2> QED
    BY <2>1, <2>2, Zenon
<1>10. order \in [1 .. n -> DOMAIN key]
  <2> HIDE DEF order
  <2> QED
    BY <1>8, <1>9
<1> HIDE DEF order
<1>11. \A i \in DOMAIN key : Rank(key, i) \in 1 .. n /\ order[Rank(key, i)] = i
  BY <1>1, <1>3, <1>9
<1>12. \A k, l \in 1 .. n : k <= l <=> NotAfter(key, order[k], order[l])
  BY <1>1, <1>9
<1> QED
  BY <1>1, <1>9, <1>10, <1>11, <1>12 DEF order

\* What is sorted rises.
LEMMA SortedIs ==
    ASSUME NEW key, Keys(key), NEW n, n = Cardinality(DOMAIN key)
    PROVE  /\ n \in Nat
           /\ \A k \in 1 .. n : Sorted(key)[k] = key[SortOrder(key)[k]] /\ Sorted(key)[k] \in Int
           /\ \A k, l \in 1 .. n : k <= l => Sorted(key)[k] <= Sorted(key)[l]
<1>1. /\ n \in Nat
      /\ SortOrder(key) \in [1 .. n -> DOMAIN key]
      /\ \A k, l \in 1 .. n : k <= l <=> NotAfter(key, SortOrder(key)[k], SortOrder(key)[l])
  BY SortOrderIs
<1>2. \A k \in 1 .. n : Sorted(key)[k] = key[SortOrder(key)[k]]
  BY DEF Sorted
<1>3. \A k \in 1 .. n : key[SortOrder(key)[k]] \in Int
  BY <1>1 DEF Keys
<1>4. \A k, l \in 1 .. n : k <= l => key[SortOrder(key)[k]] <= key[SortOrder(key)[l]]
  BY <1>1, <1>3 DEF NotAfter
<1> QED
  BY <1>1, <1>2, <1>3, <1>4
=============================================================================

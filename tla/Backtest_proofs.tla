--------------------------- MODULE Backtest_proofs ---------------------------
(***************************************************************************)
(* Proofs about the parts of a backtest: the engine, the position of a     *)
(* pair, the momentum rows, the cost model and what is reported, for any   *)
(* stocks, quotes, targets, z-scores, rates, sessions and grids and series *)
(* of any length.                                                          *)
(***************************************************************************)
EXTENDS BacktestEngine, PairSignal, Momentum, Costs, BacktestReport, DataLemmas

-----------------------------------------------------------------------------
(***************************************************************************)
(* The engine.                                                             *)
(***************************************************************************)
\* Whole shares of an amount are worth at most the amount, rounded.
LEMMA SharesFit ==
    ASSUME NEW a \in Int, NEW u \in Int, NEW p \in Int, u > 0, p > 0
    PROVE  (a \div (u * p)) * p <= a \div u
<1>1. u * p \in Int /\ u * p > 0
  OBVIOUS
<1>2. PICK g \in Int : g = a \div (u * p) /\ (u * p) * g <= a
  BY <1>1, Quotient
<1>3. PICK f \in Int : f = a \div u /\ a < u * f + u
  BY Quotient
<1>4. u * (g * p) = (u * p) * g
  OBVIOUS
<1>5. u * (g * p) < u * (f + 1)
  BY <1>2, <1>3, <1>4
<1>6. g * p < f + 1
  <2> SUFFICES ASSUME g * p >= f + 1 PROVE FALSE
    OBVIOUS
  <2>1. PICK x \in Int : x = g * p
    OBVIOUS
  <2>2. u * (f + 1) <= u * x
    BY <2>1, Product
  <2> QED
    BY <1>5, <2>1, <2>2
<1> QED
  BY <1>2, <1>3, <1>6

\* Charges are a number for every price and size.
CostsAreWhole == \A p \in Nat, q \in Nat : TradeCost(p, q) \in Int

Row == [Stock -> Int]

\* Total is a sum over the stocks.
LEMMA TotalIs == ASSUME NEW f PROVE Total(f) = SumOf(f, Stock)
BY EngineAssumption, FunctionSum DEF Total

\* A row of whole numbers has a whole total.
LEMMA TotalType == ASSUME NEW f, \A s \in Stock : f[s] \in Int PROVE Total(f) \in Int
<1>1. SumOf(f, Stock) \in Int
  BY EngineAssumption, SumType
<1> QED
  BY <1>1, TotalIs

\* What the quotes are.
LEMMA QuoteType ==
    ASSUME NEW quote \in [Stock -> Quotes], NEW s \in Stock
    PROVE  quote[s].open \in Nat /\ quote[s].close \in Nat
<1>1. quote[s] \in [open : Nat, close : Nat, halted : BOOLEAN]
  BY EngineAssumption
<1> QED
  BY <1>1

EngineTypes ==
    /\ day \in Nat /\ shares \in Row /\ cash \in Int
    /\ decided \in Row /\ prevTarget \in Row

\* TargetShares, Capped: whole shares.
LEMMA TradesAreWhole ==
    ASSUME shares \in Row, cash \in Int, NEW quote \in [Stock -> Quotes], NEW target \in Row
    PROVE  /\ Worth(quote) \in Int
           /\ TargetShares(quote, target) \in Row
           /\ \A s \in Stock, n \in Int : Capped(s, n) \in Int
<1>1. Worth(quote) \in Int
  <2>1. PICK f : f = [s \in Stock |-> shares[s] * quote[s].open]
    OBVIOUS
  <2>2. \A s \in Stock : f[s] \in Int
    BY <2>1, QuoteType DEF Row
  <2>3. Total(f) \in Int
    BY <2>2, TotalType
  <2> QED
    BY <2>1, <2>3 DEF Worth
<1>2. PICK W \in Int : W = Worth(quote)
  BY <1>1
<1>3. ASSUME NEW s \in Stock
      PROVE  (IF Tradeable(quote[s]) THEN Toward0(target[s] * Worth(quote), Unit * quote[s].open)
              ELSE shares[s]) \in Int
  <2>1. CASE Tradeable(quote[s])
    <3>1. PICK a \in Int, b \in Int : a = target[s] * W /\ b = Unit * quote[s].open /\ b > 0
      BY <2>1, QuoteType, EngineAssumption DEF Row, Tradeable
    <3>2. Toward0(a, b) \in Int
      BY <3>1 DEF Toward0
    <3> QED
      BY <1>2, <2>1, <3>1, <3>2
  <2>2. CASE ~Tradeable(quote[s])
    BY <2>2 DEF Row
  <2> QED
    BY <2>1, <2>2
<1>4. TargetShares(quote, target) \in Row
  BY <1>3 DEF TargetShares, Row
<1>5. \A s \in Stock, n \in Int : Capped(s, n) \in Int
  <2> SUFFICES ASSUME NEW s \in Stock, NEW n \in Int PROVE Capped(s, n) \in Int
    OBVIOUS
  <2>1. Adv[s] \in Nat /\ CapDiv \in Nat /\ CapDiv > 0
    BY EngineAssumption
  <2>2. PICK c \in Int : c = Adv[s] \div CapDiv
    BY <2>1
  <2> QED
    BY <2>2 DEF Capped
<1> QED
  BY <1>1, <1>4, <1>5

Value(f, quote) == [s \in Stock |-> f[s] * quote[s].open]
Filled(quote, target) ==
    [s \in Stock |-> Capped(s, TargetShares(quote, target)[s] - shares[s])]

\* Rebalance keeps the account whole, and spends the value of what it trades.
LEMMA RebalanceSpends ==
    ASSUME CostsAreWhole, shares \in Row, cash \in Int,
           NEW quote \in [Stock -> Quotes], NEW target \in Row, Rebalance(quote, target)
    PROVE  /\ shares' \in Row /\ cash' \in Int /\ last'.cost \in Int
           /\ cash' + last'.cost = Worth(quote) - Total(Value(shares', quote))
           /\ last'.target = target /\ last'.worth = Worth(quote)
           /\ last'.heldBack = HeldBack(quote, target, TargetShares(quote, target), shares')
<1>1. PICK filled : filled = Filled(quote, target)
  OBVIOUS
<1>2. \A s \in Stock : filled[s] \in Int
  BY <1>1, TradesAreWhole DEF Filled, Row
<1>3. PICK before, after : before = shares /\ after = shares'
  OBVIOUS
<1>4. after = [s \in Stock |-> before[s] + filled[s]] /\ before \in Row
  BY <1>1, <1>3 DEF Rebalance, Filled
<1>5. after \in Row /\ \A s \in Stock : after[s] = before[s] + filled[s] /\ before[s] \in Int
  BY <1>2, <1>4 DEF Row
<1>6. PICK F : F = [s \in Stock |-> TradeCost(quote[s].open, AbsVal(filled[s]))]
  OBVIOUS
<1>7. PICK cost \in Int : cost = Total(F)
  <2>1. ASSUME NEW s \in Stock PROVE F[s] \in Int
    <3>1. AbsVal(filled[s]) \in Nat
      BY <1>2 DEF AbsVal
    <3>2. TradeCost(quote[s].open, AbsVal(filled[s])) \in Int
      BY <3>1, QuoteType DEF CostsAreWhole
    <3> QED
      BY <1>6, <3>2
  <2> QED
    BY <2>1, TotalType
<1>8. /\ cash' = cash - Total(Value(filled, quote)) - cost
      /\ last'.cost = cost /\ last'.target = target /\ last'.worth = Worth(quote)
      /\ last'.heldBack = HeldBack(quote, target, TargetShares(quote, target), shares')
  BY <1>1, <1>6, <1>7 DEF Rebalance, Filled, Value
<1>9. PICK A, B, V : A = Value(before, quote) /\ B = Value(filled, quote) /\ V = Value(after, quote)
  OBVIOUS
<1>10. \A s \in Stock : A[s] \in Int /\ B[s] \in Int /\ V[s] = A[s] + B[s]
  <2> SUFFICES ASSUME NEW s \in Stock PROVE A[s] \in Int /\ B[s] \in Int /\ V[s] = A[s] + B[s]
    OBVIOUS
  <2>1. PICK x \in Int, y \in Int, p \in Nat : x = before[s] /\ y = filled[s] /\ p = quote[s].open
    BY <1>2, <1>5, QuoteType
  <2>2. A[s] = x * p /\ B[s] = y * p /\ V[s] = (x + y) * p
    BY <1>5, <1>9, <2>1 DEF Value
  <2>3. (x + y) * p = x * p + y * p
    OBVIOUS
  <2> QED
    BY <2>2, <2>3
<1>11. Total(V) = Total(A) + Total(B)
  <2>1. SumOf(V, Stock) = SumOf(A, Stock) + SumOf(B, Stock)
    BY <1>10, EngineAssumption, SumPlus
  <2> QED
    BY <2>1, TotalIs
<1>12. Total(A) \in Int /\ Total(B) \in Int
  BY <1>10, TotalType
<1>13. Worth(quote) = cash + Total(A)
  BY <1>3, <1>9 DEF Worth, Value
<1>14. cash' \in Int /\ cash' + cost = Worth(quote) - Total(V)
  BY <1>8, <1>9, <1>11, <1>12, <1>13
<1> QED
  BY <1>3, <1>5, <1>8, <1>9, <1>14

\* A stock is worth at most its part of the target and what was held back of it.
LEMMA PartsOfTheTarget ==
    ASSUME NEW quote \in [Stock -> Quotes], NEW target \in Row, NEW after \in Row,
           shares \in Row, cash \in Int, NEW s \in Stock, target[s] >= 0,
           NEW W \in Int, W = Worth(quote), W >= 0,
           NEW ex, ex = IF Tradeable(quote[s])
                        THEN (after[s] - TargetShares(quote, target)[s]) * quote[s].open
                        ELSE after[s] * quote[s].open - (target[s] * W) \div Unit
    PROVE  /\ ex \in Int /\ (target[s] * W) \div Unit \in Int
           /\ after[s] * quote[s].open <= (target[s] * W) \div Unit + (IF ex > 0 THEN ex ELSE 0)
<1>1. PICK a \in Int, u \in Int, n \in Int, p \in Nat :
         /\ a = target[s] * W /\ a >= 0 /\ u = Unit /\ u > 0
         /\ n = after[s] /\ p = quote[s].open
  <2>1. PICK t \in Int : t = target[s] /\ t >= 0
    BY DEF Row
  <2>2. t * W >= 0 /\ t * W \in Int
    BY <2>1
  <2> QED
    BY <2>1, <2>2, EngineAssumption, QuoteType DEF Row
<1>2. PICK f \in Int : f = a \div u
  BY <1>1
<1>3. CASE Tradeable(quote[s])
  <2>1. p > 0
    BY <1>1, <1>3 DEF Tradeable
  <2>2. PICK g \in Int : g = a \div (u * p)
    <3>1. u * p \in Int /\ u * p > 0
      BY <1>1, <2>1
    <3> QED
      BY <3>1
  <2>3. TargetShares(quote, target)[s] = g
    BY <1>1, <1>3, <2>2 DEF TargetShares, Toward0
  <2>4. g * p <= f
    <3>1. u > 0
      BY <1>1
    <3>2. (a \div (u * p)) * p <= a \div u
      BY ONLY <2>1, <3>1, p \in Int, SharesFit
    <3> QED
      BY <1>2, <2>2, <3>2
  <2>5. ex = (n - g) * p
    BY <1>1, <1>3, <2>3
  <2>6. (n - g) * p = n * p - g * p /\ n * p \in Int /\ g * p \in Int
    OBVIOUS
  <2> QED
    BY <1>1, <1>2, <2>4, <2>5, <2>6
<1>4. CASE ~Tradeable(quote[s])
  <2>1. ex = n * p - f /\ n * p \in Int
    BY <1>1, <1>2, <1>4
  <2> QED
    BY <1>1, <1>2, <2>1
<1> QED
  BY <1>3, <1>4

\* The parts of a long-only target add up to at most the account.
LEMMA TargetFits ==
    ASSUME NEW target \in Row, LongOnly(target), NEW W \in Int, W >= 0,
           NEW f, f = [s \in Stock |-> (target[s] * W) \div Unit]
    PROVE  Total(f) \in Int /\ Total(f) <= W
<1>1. PICK u \in Int : u = Unit /\ u > 0
  BY EngineAssumption
<1>2. PICK F, G : F = [s \in Stock |-> u * f[s]] /\ G = [s \in Stock |-> W * target[s]]
  OBVIOUS
<1>3. \A s \in Stock : /\ f[s] \in Int /\ target[s] \in Int
                       /\ F[s] = u * f[s] /\ G[s] = W * target[s] /\ F[s] <= G[s]
  <2> SUFFICES ASSUME NEW s \in Stock
               PROVE  /\ f[s] \in Int /\ target[s] \in Int
                      /\ F[s] = u * f[s] /\ G[s] = W * target[s] /\ F[s] <= G[s]
    OBVIOUS
  <2>1. PICK a \in Int : a = target[s] * W /\ a = W * target[s] /\ target[s] \in Int
    BY DEF Row
  <2>2. f[s] = a \div u
    BY <1>1, <2>1
  <2>3. a \div u \in Int /\ u * (a \div u) <= a
    BY <1>1, Quotient
  <2> QED
    BY <1>2, <2>1, <2>2, <2>3
<1>4. \A s \in Stock : F[s] \in Int /\ G[s] \in Int
  BY <1>3
<1>5. SumOf(F, Stock) = u * SumOf(f, Stock)
  BY <1>3, EngineAssumption, SumTimes
<1>6. SumOf(G, Stock) = W * SumOf(target, Stock)
  BY <1>3, EngineAssumption, SumTimes
<1>7. SumOf(F, Stock) <= SumOf(G, Stock)
  BY <1>3, <1>4, EngineAssumption, SumLeq
<1>8. PICK x \in Int, t \in Int : x = Total(f) /\ t = Total(target)
  BY <1>3, TotalType
<1>9. u * x <= W * t /\ t <= u
  BY <1>1, <1>5, <1>6, <1>7, <1>8, TotalIs DEF LongOnly
<1>10. W * t <= W * u
  BY <1>1, <1>9, Product
<1>11. u * x <= u * W
  BY <1>1, <1>9, <1>10
<1>12. x <= W
  BY <1>1, <1>11, Cancel
<1> QED
  BY <1>8, <1>12

\* Rebalance keeps the borrowing bounded.
LEMMA RebalanceBorrows ==
    ASSUME CostsAreWhole, shares \in Row, cash \in Int,
           NEW quote \in [Stock -> Quotes], NEW target \in Row, Rebalance(quote, target)
    PROVE  BorrowsOnlyForHeldBack'
<1> SUFFICES ASSUME LongOnly(target), Worth(quote) >= 0
             PROVE  cash' + last'.cost + last'.heldBack >= 0
  BY RebalanceSpends DEF BorrowsOnlyForHeldBack, LongOnly
<1>1. PICK W \in Int : W = Worth(quote) /\ W >= 0
  BY TradesAreWhole
<1>2. PICK after \in Row : after = shares'
  BY RebalanceSpends
<1>3. PICK goal \in Row : goal = TargetShares(quote, target)
  BY TradesAreWhole
<1> DEFINE excess(s) == IF Tradeable(quote[s]) THEN (after[s] - goal[s]) * quote[s].open
                        ELSE after[s] * quote[s].open - (target[s] * W) \div Unit
<1>4. PICK held, part, value :
         /\ held = [s \in Stock |-> IF excess(s) > 0 THEN excess(s) ELSE 0]
         /\ part = [s \in Stock |-> (target[s] * W) \div Unit]
         /\ value = Value(after, quote)
  OBVIOUS
<1>5. PICK both : both = [s \in Stock |-> part[s] + held[s]]
  OBVIOUS
<1>6. \A s \in Stock : /\ held[s] \in Int /\ part[s] \in Int /\ value[s] \in Int
                       /\ both[s] = part[s] + held[s] /\ value[s] <= both[s]
  <2> SUFFICES ASSUME NEW s \in Stock
               PROVE  /\ held[s] \in Int /\ part[s] \in Int /\ value[s] \in Int
                      /\ both[s] = part[s] + held[s] /\ value[s] <= both[s]
    OBVIOUS
  <2>1. target[s] >= 0
    BY DEF LongOnly
  <2>2. PICK ex : ex = excess(s)
    OBVIOUS
  <2>3. ex = IF Tradeable(quote[s])
             THEN (after[s] - TargetShares(quote, target)[s]) * quote[s].open
             ELSE after[s] * quote[s].open - (target[s] * W) \div Unit
    BY <1>3, <2>2
  <2>4. /\ ex \in Int /\ (target[s] * W) \div Unit \in Int
        /\ after[s] * quote[s].open <= (target[s] * W) \div Unit + (IF ex > 0 THEN ex ELSE 0)
    BY <1>1, <2>1, <2>3, PartsOfTheTarget
  <2>5. held[s] = (IF ex > 0 THEN ex ELSE 0) /\ part[s] = (target[s] * W) \div Unit
    BY <1>4, <2>2
  <2>6. value[s] = after[s] * quote[s].open /\ value[s] \in Int
    <3>1. PICK x \in Int, p \in Nat : x = after[s] /\ p = quote[s].open
      BY QuoteType DEF Row
    <3> QED
      BY <1>4, <3>1 DEF Value
  <2>7. both[s] = part[s] + held[s]
    BY <1>5
  <2> HIDE DEF excess
  <2> QED
    BY <2>4, <2>5, <2>6, <2>7
<1>7. last'.heldBack = Total(held)
  <2>1. last'.heldBack = HeldBack(quote, target, goal, after)
    BY <1>2, <1>3, RebalanceSpends
  <2> QED
    BY <1>1, <1>4, <2>1 DEF HeldBack
<1>8. cash' + last'.cost = W - Total(value)
  BY <1>1, <1>2, <1>4, RebalanceSpends
<1> HIDE DEF excess
<1>9. \A s \in Stock : both[s] \in Int
  BY <1>6
<1>10. SumOf(value, Stock) <= SumOf(both, Stock)
  BY <1>6, <1>9, EngineAssumption, SumLeq
<1>11. SumOf(both, Stock) = SumOf(part, Stock) + SumOf(held, Stock)
  BY <1>6, EngineAssumption, SumPlus
<1>12. Total(part) <= W /\ Total(part) \in Int
  BY <1>1, <1>4, TargetFits
<1>13. Total(held) \in Int /\ Total(value) \in Int
  BY <1>6, TotalType
<1>14. Total(value) <= Total(part) + Total(held)
  BY <1>10, <1>11, TotalIs
<1>15. cash' \in Int /\ last'.cost \in Int
  BY RebalanceSpends
<1> QED
  BY <1>1, <1>7, <1>8, <1>12, <1>13, <1>14, <1>15

EngineInv ==
    /\ EngineTypes
    /\ day = 0 => shares = Flat /\ decided = Flat /\ prevTarget = Flat
    /\ BorrowsOnlyForHeldBack

\* EngineInit
LEMMA EngineStarts == EngineInit => EngineInv
<1> SUFFICES ASSUME EngineInit PROVE EngineInv
  OBVIOUS
<1>1. Flat \in Row
  BY DEF Flat, Row
<1>2. EngineTypes /\ (day = 0 => shares = Flat /\ decided = Flat /\ prevTarget = Flat)
  BY <1>1, EngineAssumption DEF EngineInit, EngineTypes
<1>3. BorrowsOnlyForHeldBack
  BY EngineAssumption DEF EngineInit, BorrowsOnlyForHeldBack
<1> QED
  BY <1>2, <1>3 DEF EngineInv

\* TradingDay
LEMMA TradingDayStep ==
    ASSUME CostsAreWhole, EngineInv, NEW quote \in [Stock -> Quotes],
           NEW row \in Targets \cup {decided}, TradingDay(quote, row)
    PROVE  EngineInv'
<1>1. /\ day \in Nat /\ shares \in Row /\ cash \in Int
      /\ decided \in Row /\ prevTarget \in Row /\ BorrowsOnlyForHeldBack
  BY DEF EngineInv, EngineTypes
<1>2. decided' \in Row /\ day' \in Nat /\ day' # 0
  BY <1>1, EngineAssumption DEF TradingDay, Row
<1>3. CASE Rebalance(quote, decided) /\ prevTarget' = decided
  <2>1. shares' \in Row /\ cash' \in Int /\ BorrowsOnlyForHeldBack'
    BY <1>1, <1>3, RebalanceSpends, RebalanceBorrows
  <2> QED
    BY <1>1, <1>2, <1>3, <2>1 DEF EngineInv, EngineTypes
<1>4. CASE UNCHANGED <<shares, cash, prevTarget, last>>
  <2>1. BorrowsOnlyForHeldBack'
    BY <1>1, <1>4 DEF BorrowsOnlyForHeldBack, LongOnly
  <2> QED
    BY <1>1, <1>2, <1>4, <2>1 DEF EngineInv, EngineTypes
<1> QED
  BY <1>3, <1>4 DEF TradingDay

\* The first day has no target to follow: nothing is traded.
LEMMA FirstDayIsIdle ==
    ASSUME EngineInv, day = 0, NEW quote \in [Stock -> Quotes], Rebalance(quote, decided)
    PROVE  shares' = shares
<1>1. shares = Flat /\ decided = Flat /\ shares \in Row /\ cash \in Int
  BY DEF EngineInv, EngineTypes
<1>2. PICK W \in Int : W = Worth(quote)
  BY <1>1, TradesAreWhole DEF EngineInv, EngineTypes
<1>3. ASSUME NEW s \in Stock
      PROVE  shares[s] = 0 /\ Capped(s, TargetShares(quote, decided)[s] - shares[s]) = 0
  <2>1. shares[s] = 0 /\ decided[s] = 0
    BY <1>1 DEF Flat
  <2>2. TargetShares(quote, decided)[s] = 0
    <3>1. CASE Tradeable(quote[s])
      <4>1. PICK b \in Int : b = Unit * quote[s].open /\ b > 0
        BY <3>1, QuoteType, EngineAssumption DEF Tradeable
      <4>2. 0 * W = 0 /\ 0 \div b = 0
        BY <4>1
      <4> QED
        BY <1>2, <2>1, <3>1, <4>1, <4>2 DEF TargetShares, Toward0
    <3>2. CASE ~Tradeable(quote[s])
      BY <2>1, <3>2 DEF TargetShares
    <3> QED
      BY <3>1, <3>2
  <2>3. Capped(s, 0) = 0
    <3>1. PICK c \in Int : c = Adv[s] \div CapDiv /\ c >= 0
      BY EngineAssumption
    <3> QED
      BY <3>1 DEF Capped, AbsVal
  <2> QED
    BY <2>1, <2>2, <2>3
<1>4. PICK before : before = shares
  OBVIOUS
<1>5. shares' = [s \in Stock |-> before[s] + Capped(s, TargetShares(quote, decided)[s] - before[s])]
  BY <1>4 DEF Rebalance
<1>6. shares' = [s \in Stock |-> before[s]]
  BY <1>3, <1>4, <1>5
<1> QED
  BY <1>1, <1>4, <1>6 DEF Row

\* TradesFollowDecisions, for one step.
Follows == shares' # shares => day > 0 /\ decided # prevTarget /\ prevTarget' = decided

LEMMA FollowsStep ==
    ASSUME EngineInv, NEW quote \in [Stock -> Quotes],
           NEW row \in Targets \cup {decided}, TradingDay(quote, row)
    PROVE  Follows
<1>1. CASE day = 0
  <2>1. shares' = shares
    BY <1>1, FirstDayIsIdle DEF TradingDay
  <2> QED
    BY <2>1 DEF Follows
<1>2. CASE day # 0
  <2>1. day > 0
    BY <1>2 DEF EngineInv, EngineTypes
  <2> QED
    BY <1>2, <2>1 DEF Follows, TradingDay
<1> QED
  BY <1>1, <1>2

\* EngineInv is inductive.
LEMMA EngineStep == ASSUME CostsAreWhole PROVE EngineInv /\ [EngineNext]_engineVars => EngineInv'
<1> SUFFICES ASSUME EngineInv, [EngineNext]_engineVars PROVE EngineInv'
  OBVIOUS
<1>1. CASE EngineNext
  BY <1>1, TradingDayStep DEF EngineNext
<1>2. CASE UNCHANGED engineVars
  BY <1>2 DEF engineVars, EngineInv, EngineTypes, BorrowsOnlyForHeldBack, LongOnly
<1> QED
  BY <1>1, <1>2

\* With a long-only target within the capital, an account worth something borrows
\* at a rebalance no more than its costs and what a halt or the cap kept from being
\* sold, for any stocks, quotes, targets and any costs.
THEOREM BorrowingIsBounded ==
    ASSUME CostsAreWhole PROVE EngineSpec => []BorrowsOnlyForHeldBack
<1>1. EngineInit => EngineInv
  BY EngineStarts
<1>2. EngineInv /\ [EngineNext]_engineVars => EngineInv'
  BY EngineStep
<1>3. EngineInv => BorrowsOnlyForHeldBack
  BY DEF EngineInv
<1> QED
  BY <1>1, <1>2, <1>3, PTL DEF EngineSpec

\* Holdings change only to follow a target that an earlier close had decided and that
\* differs from the one last executed.
THEOREM TradesFollow == ASSUME CostsAreWhole PROVE EngineSpec => TradesFollowDecisions
<1>1. EngineInit => EngineInv
  BY EngineStarts
<1>2. EngineInv /\ [EngineNext]_engineVars => EngineInv'
  BY EngineStep
<1>3. EngineInv /\ [EngineNext]_engineVars => [Follows]_engineVars
  BY FollowsStep DEF EngineNext
<1> QED
  BY <1>1, <1>2, <1>3, PTL DEF EngineSpec, TradesFollowDecisions, Follows

-----------------------------------------------------------------------------
(***************************************************************************)
(* The position of a pair.                                                 *)
(***************************************************************************)
ZScore == ZScores \cup {NaN}

\* The position and its entry: the bar i that entered side p is still valid.
Holds(i, p) ==
    /\ Valid(i) /\ -p * zs[i] >= EntryZ
    /\ \A k \in i + 1 .. Len(zs) : Valid(k) => p * zs[k] < p * ExitZ /\ -p * zs[k] < StopZ

PairTypes ==
    /\ zs \in Seq(ZScore) /\ pos \in {1, -1, 0} /\ prevSign \in {1, -1, 0}
    /\ barsNoCross \in Nat /\ broken \in BOOLEAN

Entered ==
    /\ broken => pos = 0
    /\ pos = 0 => legs = <<0, 0>>
    /\ pos # 0 => \E i \in 1 .. Len(zs) :
          /\ Holds(i, pos) /\ entryRatio = RatioAt(i)
          /\ legs = <<pos, -pos * RatioAt(i)>>

\* While the pair lives, prevSign is the side of the last bar off the mean.
LastSide ==
    \/ prevSign = 0 /\ \A k \in 1 .. Len(zs) : ~OffMean(k)
    \/ \E j \in 1 .. Len(zs) : /\ OffMean(j) /\ Sign(zs[j]) = prevSign
                              /\ \A k \in j + 1 .. Len(zs) : ~OffMean(k)

ValidIn(i, j) == {k \in i .. j : Valid(k)}
Quiet(i, j) == \A k \in i .. j : ~(Valid(k) /\ CrossesAt(k))

\* And barsNoCross counts the valid bars since the last crossing, or all.
CountedFrom(s) ==
    /\ Quiet(s, Len(zs)) /\ barsNoCross = Cardinality(ValidIn(s, Len(zs)))
    /\ s > 1 => Valid(s - 1) /\ CrossesAt(s - 1)

PairInv ==
    /\ PairTypes /\ Entered
    /\ ~broken => LastSide /\ \E s \in 1 .. Len(zs) + 1 : CountedFrom(s)
    /\ RetiredAfterNoCross

\* One more bar leaves the others what they were.
LEMMA OneMoreBar ==
    ASSUME zs \in Seq(ZScore), NEW z \in ZScore, zs' = Append(zs, z)
    PROVE  /\ zs' \in Seq(ZScore) /\ Len(zs) \in Nat /\ Len(zs') = Len(zs) + 1
           /\ zs'[Len(zs) + 1] = z /\ \A k \in 1 .. Len(zs) : zs'[k] = zs[k]
OBVIOUS

\* A z-score is a number or none.
LEMMA ZTypes ==
    /\ \A z \in ZScore : z # NaN => z \in Int
    /\ \A z \in Int : Sign(z) \in {1, -1, 0} /\ (Sign(z) = 0 <=> z = 0)
BY BandAssumption DEF ZScore, Sign

\* Weights
LEMMA WeightsOf ==
    ASSUME NEW p \in {1, -1, 0}, NEW ratio \in Int
    PROVE  Weights(p, ratio) = IF p = 0 THEN <<0, 0>> ELSE <<p, -p * ratio>>
BY DEF Weights, Gross

\* RatioAt
LEMMA RatioType == ASSUME NEW i \in Nat PROVE RatioAt(i) \in Int
BY DEF RatioAt

\* A position that is kept keeps its entry.
LEMMA EntryKept ==
    ASSUME PairTypes, NEW z \in ZScore, zs' = Append(zs, z),
           NEW i \in 1 .. Len(zs), NEW p \in {1, -1}, Holds(i, p),
           z # NaN => p * z < p * ExitZ /\ -p * z < StopZ
    PROVE  Holds(i, p)' /\ i \in 1 .. Len(zs')
<1>1. /\ Len(zs) \in Nat /\ Len(zs') = Len(zs) + 1
      /\ zs'[Len(zs) + 1] = z /\ \A k \in 1 .. Len(zs) : zs'[k] = zs[k]
  BY OneMoreBar DEF PairTypes
<1>2. PICK n \in Nat : n = Len(zs)
  BY <1>1
<1>3. Valid(i)' /\ -p * zs'[i] >= EntryZ
  BY <1>1 DEF Holds, Valid
<1>4. ASSUME NEW k \in i + 1 .. n + 1, zs'[k] # NaN
      PROVE  p * zs'[k] < p * ExitZ /\ -p * zs'[k] < StopZ
  <2>1. CASE k = n + 1
    BY <1>1, <1>2, <1>4, <2>1
  <2>2. CASE k # n + 1
    <3>1. k \in i + 1 .. n /\ k \in 1 .. n
      BY <1>2, <2>2
    <3>2. zs'[k] = zs[k]
      BY <1>1, <1>2, <3>1
    <3> QED
      BY <1>2, <1>4, <3>1, <3>2 DEF Holds, Valid
  <2> QED
    BY <2>1, <2>2
<1> QED
  BY <1>1, <1>2, <1>3, <1>4 DEF Holds, Valid

\* NextPos: what the next position says of the z-score.
LEMMA NextPosFacts ==
    ASSUME PairTypes, NEW z \in Int
    PROVE  /\ NextPos(z) \in {1, -1, 0}
           /\ pos = 0 /\ NextPos(z) = 1 => -1 * z >= EntryZ
           /\ pos = 0 /\ NextPos(z) = -1 => -(-1) * z >= EntryZ
           /\ pos # 0 => NextPos(z) \in {0, pos}
           /\ pos = 1 /\ NextPos(z) = 1 => 1 * z < 1 * ExitZ /\ -1 * z < StopZ
           /\ pos = -1 /\ NextPos(z) = -1 => -1 * z < -1 * ExitZ /\ -(-1) * z < StopZ
BY BandAssumption DEF NextPos, PairTypes

\* IdleBar keeps a position and its entry.
LEMMA EntryIdle ==
    ASSUME PairInv, NEW z \in ZScore, zs' = Append(zs, z), IdleBar(z)
    PROVE  Entered'
<1>1. PairTypes /\ Entered /\ pos' = pos /\ entryRatio' = entryRatio /\ broken' = broken
  BY DEF PairInv, IdleBar
<1>2. legs' = Weights(pos, entryRatio)
  BY DEF IdleBar
<1>3. CASE pos = 0
  <2>1. legs' = <<0, 0>>
    BY <1>2, <1>3 DEF Weights, Gross
  <2> QED
    BY <1>1, <1>3, <2>1 DEF Entered
<1>4. CASE pos # 0
  <2>1. PICK i \in 1 .. Len(zs) : Holds(i, pos) /\ entryRatio = RatioAt(i)
    BY <1>1, <1>4 DEF Entered
  <2>2. PICK p \in {1, -1} : p = pos
    BY <1>1, <1>4 DEF PairTypes
  <2>3. z = NaN
    BY <1>1, <1>4 DEF IdleBar, Entered
  <2>4. Holds(i, p)
    BY <2>1, <2>2
  <2>5. Holds(i, p)' /\ i \in 1 .. Len(zs')
    BY <1>1, <2>3, <2>4, EntryKept
  <2>6. i \in Nat /\ RatioAt(i) \in Int
    BY RatioType
  <2>7. legs' = <<p, -p * RatioAt(i)>>
    BY <1>2, <2>1, <2>2, <2>6, WeightsOf
  <2>8. Holds(i, pos)' /\ legs' = <<pos', -pos' * RatioAt(i)>> /\ entryRatio' = RatioAt(i)
    BY <1>1, <2>1, <2>2, <2>5, <2>7 DEF Holds
  <2> QED
    BY <1>1, <1>4, <2>5, <2>8 DEF Entered
<1> QED
  BY <1>3, <1>4

\* LiveBar enters, keeps or leaves.
LEMMA EntryLive ==
    ASSUME PairInv, NEW z \in ZScore, zs' = Append(zs, z), LiveBar(z)
    PROVE  Entered'
<1>1. PairTypes /\ Entered /\ z # NaN /\ z \in Int
  BY ZTypes DEF PairInv, LiveBar
<1>2. /\ pos' = IF broken' THEN 0 ELSE NextPos(z)
      /\ entryRatio' = IF pos = 0 /\ pos' # 0 THEN RatioAt(Len(zs) + 1) ELSE entryRatio
      /\ legs' = Weights(pos', entryRatio')
  BY DEF LiveBar
<1>3. CASE pos' = 0
  <2>1. legs' = <<0, 0>>
    BY <1>2, <1>3 DEF Weights, Gross
  <2> QED
    BY <1>3, <2>1 DEF Entered
<1>4. CASE pos' # 0
  <2>1. ~broken' /\ pos' = NextPos(z) /\ NextPos(z) \in {1, -1, 0}
    BY <1>1, <1>2, <1>4, NextPosFacts
  <2>2. PICK p \in {1, -1} : p = pos'
    BY <1>4, <2>1
  <2>3. \E i \in 1 .. Len(zs') : Holds(i, p)' /\ entryRatio' = RatioAt(i)
    <3>1. CASE pos = 0
      <4>1. -p * z >= EntryZ
        BY <1>1, <2>1, <2>2, <3>1, NextPosFacts
      <4>2. PICK i : i = Len(zs) + 1
        OBVIOUS
      <4>4. Len(zs) \in Nat /\ Len(zs') = Len(zs) + 1
        BY <1>1, OneMoreBar DEF PairTypes
      <4>5. Holds(i, p)' /\ i \in 1 .. Len(zs')
        <5>1. i = Len(zs')
          BY <4>2, <4>4
        <5>2. i \in 1 .. Len(zs')
          BY <4>4, <5>1
        <5>3. zs'[i] = z
          BY <1>1, <4>2, OneMoreBar DEF PairTypes
        <5>4. i + 1 .. Len(zs') = {}
          BY <4>4, <5>1
        <5> QED
          BY <1>1, <4>1, <5>2, <5>3, <5>4 DEF Holds, Valid
      <4> QED
        BY <1>2, <1>4, <3>1, <4>2, <4>5
    <3>2. CASE pos # 0
      <4>1. pos = p /\ entryRatio' = entryRatio
        BY <1>1, <1>2, <2>1, <2>2, <3>2, NextPosFacts
      <4>2. p * z < p * ExitZ /\ -p * z < StopZ
        <5>1. NextPos(z) = pos
          BY <2>1, <2>2, <4>1
        <5>2. CASE p = 1
          BY <1>1, <4>1, <5>1, <5>2, NextPosFacts
        <5>3. CASE p = -1
          <6>1. pos = -1 /\ NextPos(z) = -1
            BY <4>1, <5>1, <5>3
          <6>2. -1 * z < -1 * ExitZ /\ -(-1) * z < StopZ
            BY <1>1, <6>1, NextPosFacts
          <6> QED
            BY <1>1, <5>3, <6>2, BandAssumption
        <5> QED
          BY <5>2, <5>3
      <4>3. PICK i \in 1 .. Len(zs) : Holds(i, p) /\ entryRatio = RatioAt(i)
        BY <1>1, <3>2, <4>1 DEF Entered
      <4>4. Holds(i, p)' /\ i \in 1 .. Len(zs')
        BY <1>1, <4>2, <4>3, EntryKept
      <4> QED
        BY <4>1, <4>3, <4>4
    <3> QED
      BY <3>1, <3>2
  <2>4. PICK i \in 1 .. Len(zs') : Holds(i, p)' /\ entryRatio' = RatioAt(i)
    BY <2>3
  <2>5. i \in Nat /\ RatioAt(i) \in Int
    BY RatioType
  <2>6. legs' = <<p, -p * RatioAt(i)>>
    BY <1>2, <2>2, <2>4, <2>5, WeightsOf
  <2>7. Holds(i, pos)' /\ legs' = <<pos', -pos' * RatioAt(i)>>
    BY <2>2, <2>4, <2>6 DEF Holds
  <2> QED
    BY <1>4, <2>1, <2>4, <2>7 DEF Entered
<1> QED
  BY <1>3, <1>4

\* The bars before keep their verdicts.
LEMMA SameBars ==
    ASSUME PairTypes, NEW z \in ZScore, zs' = Append(zs, z), NEW i \in 1 .. Len(zs)
    PROVE  /\ Valid(i)' <=> Valid(i)
           /\ OffMean(i)' <=> OffMean(i)
           /\ zs'[i] = zs[i]
           /\ CrossesAt(i)' <=> CrossesAt(i)
<1>1. Len(zs) \in Nat /\ \A k \in 1 .. Len(zs) : zs'[k] = zs[k]
  BY OneMoreBar DEF PairTypes
<1>2. PICK n \in Nat : n = Len(zs)
  BY <1>1
<1>3. \A k \in 1 .. n : (zs'[k] = zs[k]) /\ (Valid(k)' <=> Valid(k)) /\ (OffMean(k)' <=> OffMean(k))
  BY <1>1, <1>2 DEF Valid, OffMean
<1>4. i \in 1 .. n /\ \A j \in 1 .. i - 1 : j \in 1 .. n
  BY <1>2
<1>5. \A j \in 1 .. i - 1 : \A k \in j + 1 .. i - 1 : k \in 1 .. n
  BY <1>2
<1>6. CrossesAt(i)' <=> CrossesAt(i)
  BY <1>3, <1>4, <1>5 DEF CrossesAt
<1> QED
  BY <1>2, <1>3, <1>6

\* Crossed says whether this bar crosses the mean.
LEMMA CrossedMeans ==
    ASSUME PairTypes, LastSide, NEW z \in ZScore, zs' = Append(zs, z), z # NaN,
           NEW i, i = Len(zs) + 1
    PROVE  CrossesAt(i)' <=> Crossed(z)
<1>1. /\ Len(zs) \in Nat /\ i \in Nat /\ i - 1 = Len(zs) /\ zs'[i] = z
      /\ \A k \in 1 .. Len(zs) : zs'[k] = zs[k] /\ (OffMean(k)' <=> OffMean(k))
  BY OneMoreBar, SameBars DEF PairTypes
<1>2. PICK n \in Nat : n = Len(zs) /\ i - 1 = n
  BY <1>1
<1>3. z \in Int /\ Sign(z) \in {1, -1, 0} /\ (Sign(z) = 0 <=> z = 0)
  BY ZTypes
<1>4. OffMean(i)' <=> Sign(z) # 0
  BY <1>1, <1>3 DEF OffMean, Valid
<1>5. \A k \in 1 .. n : (zs'[k] = zs[k]) /\ (OffMean(k)' <=> OffMean(k))
  BY <1>1, <1>2
<1>6. CrossesAt(i)' <=>
        /\ Sign(z) # 0
        /\ \E j \in 1 .. n : /\ OffMean(j) /\ Sign(zs[j]) # Sign(z)
                            /\ \A k \in j + 1 .. n : ~OffMean(k)
  <2>1. \A j \in 1 .. n : \A k \in j + 1 .. n : k \in 1 .. n
    OBVIOUS
  <2> QED
    BY <1>1, <1>2, <1>4, <1>5, <2>1 DEF CrossesAt
<1>7. CASE prevSign = 0 /\ \A k \in 1 .. n : ~OffMean(k)
  BY <1>6, <1>7 DEF Crossed
<1>8. CASE \E j \in 1 .. n : /\ OffMean(j) /\ Sign(zs[j]) = prevSign
                             /\ \A k \in j + 1 .. n : ~OffMean(k)
  <2>1. PICK j \in 1 .. n : /\ OffMean(j) /\ Sign(zs[j]) = prevSign
                            /\ \A k \in j + 1 .. n : ~OffMean(k)
    BY <1>8
  <2>2. prevSign # 0
    <3>1. zs[j] \in ZScore /\ zs[j] # NaN /\ zs[j] # 0
      BY <1>2, <2>1 DEF PairTypes, OffMean, Valid
    <3> QED
      BY <2>1, <3>1, ZTypes
  <2>3. \A h \in 1 .. n : OffMean(h) /\ (\A k \in h + 1 .. n : ~OffMean(k)) => h = j
    BY <2>1
  <2> QED
    BY <1>6, <2>1, <2>2, <2>3 DEF Crossed
<1> QED
  BY <1>2, <1>7, <1>8 DEF LastSide

\* LastSide is kept by a bar off the mean, which is the last one now, and by any other.
LEMMA SideKept ==
    ASSUME PairTypes, LastSide, NEW z \in ZScore, zs' = Append(zs, z),
           prevSign' = IF z # NaN /\ Sign(z) # 0 THEN Sign(z) ELSE prevSign
    PROVE  LastSide'
<1>1. PICK n \in Nat : n = Len(zs)
  BY OneMoreBar DEF PairTypes
<1>2. /\ Len(zs') = n + 1 /\ zs'[n + 1] = z
      /\ \A k \in 1 .. n : zs'[k] = zs[k] /\ (OffMean(k)' <=> OffMean(k))
  BY <1>1, OneMoreBar, SameBars DEF PairTypes
<1>3. z # NaN => z \in Int /\ Sign(z) \in {1, -1, 0} /\ (Sign(z) = 0 <=> z = 0)
  BY ZTypes
<1>4. CASE z # NaN /\ Sign(z) # 0
  <2>1. OffMean(n + 1)'
    BY <1>2, <1>3, <1>4 DEF OffMean, Valid
  <2>2. PICK j : j = n + 1
    OBVIOUS
  <2>3. j \in 1 .. Len(zs') /\ OffMean(j)' /\ Sign(zs'[j]) = prevSign' /\ j + 1 .. Len(zs') = {}
    BY <1>2, <1>3, <1>4, <2>2 DEF OffMean, Valid
  <2> QED
    BY <2>3 DEF LastSide
<1>5. CASE ~(z # NaN /\ Sign(z) # 0)
  <2>1. \A k : k = n + 1 => ~OffMean(k)'
    BY <1>2, <1>3, <1>5 DEF OffMean, Valid
  <2>2. CASE prevSign = 0 /\ \A k \in 1 .. n : ~OffMean(k)
    <3>1. \A k \in 1 .. n + 1 : ~OffMean(k)'
      BY <1>2, <2>1, <2>2
    <3> QED
      BY <1>2, <1>5, <2>2, <3>1 DEF LastSide
  <2>3. CASE \E j \in 1 .. n : /\ OffMean(j) /\ Sign(zs[j]) = prevSign
                               /\ \A k \in j + 1 .. n : ~OffMean(k)
    <3>1. PICK j \in 1 .. n : /\ OffMean(j) /\ Sign(zs[j]) = prevSign
                              /\ \A k \in j + 1 .. n : ~OffMean(k)
      BY <2>3
    <3>2. \A k \in j + 1 .. n + 1 : ~OffMean(k)'
      BY <1>2, <2>1, <3>1
    <3>3. j \in 1 .. n + 1 /\ OffMean(j)' /\ Sign(zs'[j]) = prevSign'
      BY <1>2, <1>5, <3>1
    <3> QED
      BY <1>2, <3>2, <3>3 DEF LastSide
  <2> QED
    BY <1>1, <2>2, <2>3 DEF LastSide
<1> QED
  BY <1>4, <1>5

\* Windows of the series are finite and count what they contain.
LEMMA WindowSize ==
    ASSUME NEW i \in Int, NEW j \in Int
    PROVE  IsFiniteSet(ValidIn(i, j)) /\ Cardinality(ValidIn(i, j)) \in Nat
<1>1. IsFiniteSet(i .. j) /\ ValidIn(i, j) \subseteq i .. j
  BY FS_Interval DEF ValidIn
<1> QED
  BY <1>1, FS_Subset, FS_CardinalityType

\* A window that ends before this bar stays as it is.
LEMMA SameWindow ==
    ASSUME PairTypes, NEW z \in ZScore, zs' = Append(zs, z),
           NEW i \in Nat \ {0}, NEW j \in 0 .. Len(zs)
    PROVE  ValidIn(i, j)' = ValidIn(i, j) /\ (Quiet(i, j)' <=> Quiet(i, j))
<1>1. Len(zs) \in Nat
  BY OneMoreBar DEF PairTypes
<1>2. \A k \in i .. j : k \in 1 .. Len(zs)
  BY <1>1
<1>3. \A k \in i .. j : (Valid(k)' <=> Valid(k)) /\ (CrossesAt(k)' <=> CrossesAt(k))
  BY <1>2, SameBars
<1> QED
  BY <1>3 DEF ValidIn, Quiet

\* A window that ends with this bar has one valid bar more, if this one is valid.
LEMMA NextWindow ==
    ASSUME PairTypes, NEW z \in ZScore, zs' = Append(zs, z),
           NEW n, n = Len(zs), NEW i \in 1 .. n + 1
    PROVE  /\ Cardinality(ValidIn(i, n + 1)') =
                 Cardinality(ValidIn(i, n)) + (IF z = NaN THEN 0 ELSE 1)
           /\ Quiet(i, n + 1)' <=> Quiet(i, n) /\ ~(z # NaN /\ CrossesAt(n + 1)')
<1>1. n \in Nat /\ n \in 0 .. Len(zs) /\ i \in Nat \ {0} /\ zs'[n + 1] = z
  BY OneMoreBar DEF PairTypes
<1>2. ValidIn(i, n)' = ValidIn(i, n) /\ (Quiet(i, n)' <=> Quiet(i, n))
  BY <1>1, SameWindow
<1>3. PICK m : m = n + 1
  OBVIOUS
<1>4. i .. m = (i .. n) \cup {m} /\ m \notin i .. n /\ (Valid(m)' <=> z # NaN)
  BY <1>1, <1>3 DEF Valid
<1>5. ValidIn(i, m)' = ValidIn(i, n)' \cup (IF z = NaN THEN {} ELSE {m})
  BY <1>4 DEF ValidIn
<1>6. m \notin ValidIn(i, n)
  BY <1>4 DEF ValidIn
<1>7. PICK V : V = ValidIn(i, n) /\ IsFiniteSet(V) /\ Cardinality(V) \in Nat
  BY <1>1, WindowSize
<1>8. Cardinality(ValidIn(i, m)') = Cardinality(V) + (IF z = NaN THEN 0 ELSE 1)
  <2>1. CASE z = NaN
    <3>1. ValidIn(i, m)' = V
      BY <1>2, <1>5, <1>7, <2>1
    <3> QED
      BY <1>7, <2>1, <3>1
  <2>2. CASE z # NaN
    <3>1. ValidIn(i, m)' = V \cup {m} /\ m \notin V
      BY <1>2, <1>5, <1>6, <1>7, <2>2
    <3>2. Cardinality(V \cup {m}) = Cardinality(V) + 1
      BY <1>7, <3>1, FS_AddElement
    <3> QED
      BY <2>2, <3>1, <3>2
  <2> QED
    BY <2>1, <2>2
<1>9. Quiet(i, m)' <=> Quiet(i, n)' /\ ~(Valid(m)' /\ CrossesAt(m)')
  BY <1>4 DEF Quiet
<1>10. Quiet(i, m)' <=> Quiet(i, n) /\ ~(z # NaN /\ CrossesAt(m)')
  BY <1>2, <1>4, <1>9
<1> QED
  BY <1>3, <1>7, <1>8, <1>10

\* RetiredAfterNoCross in terms of the windows.
Overdue(i, j) == Quiet(i, j) /\ Cardinality(ValidIn(i, j)) > MaxNoCross

LEMMA RetiredMeans ==
    /\ RetiredAfterNoCross <=> (broken <=> \E i, j \in 1 .. Len(zs) : Overdue(i, j))
    /\ RetiredAfterNoCross' <=> (broken' <=> \E i, j \in 1 .. Len(zs') : Overdue(i, j)')
BY DEF RetiredAfterNoCross, Overdue, Quiet, ValidIn

\* A window that was overdue stays overdue.
LEMMA OverdueStays ==
    ASSUME PairTypes, NEW z \in ZScore, zs' = Append(zs, z),
           NEW i \in 1 .. Len(zs), NEW j \in 1 .. Len(zs)
    PROVE  Overdue(i, j)' <=> Overdue(i, j)
<1>1. i \in Nat \ {0} /\ j \in 0 .. Len(zs)
  BY OneMoreBar DEF PairTypes
<1> QED
  BY <1>1, SameWindow DEF Overdue

\* IdleBar changes nothing about the retirement.
LEMMA RetireIdle ==
    ASSUME PairInv, NEW z \in ZScore, zs' = Append(zs, z), IdleBar(z)
    PROVE  /\ RetiredAfterNoCross'
           /\ ~broken' => LastSide' /\ \E s \in 1 .. Len(zs') + 1 : CountedFrom(s)'
<1>1. /\ PairTypes /\ broken' = broken /\ prevSign' = prevSign /\ barsNoCross' = barsNoCross
      /\ broken \/ z = NaN
      /\ broken <=> \E i, j \in 1 .. Len(zs) : Overdue(i, j)
  BY RetiredMeans DEF PairInv, IdleBar
<1>2. PICK n \in Nat : n = Len(zs) /\ Len(zs') = n + 1
  BY <1>1, OneMoreBar DEF PairTypes
<1>3. CASE broken
  <2>1. PICK i \in 1 .. n, j \in 1 .. n : Overdue(i, j)
    BY <1>1, <1>2, <1>3
  <2>2. Overdue(i, j)'
    BY <1>1, <1>2, <2>1, OverdueStays
  <2>3. i \in 1 .. Len(zs') /\ j \in 1 .. Len(zs')
    BY <1>2
  <2>4. RetiredAfterNoCross'
    BY <1>1, <1>3, <2>2, <2>3, RetiredMeans
  <2> QED
    BY <1>1, <1>3, <2>4
<1>4. CASE ~broken
  <2>1. z = NaN /\ LastSide
    BY <1>1, <1>4 DEF PairInv
  <2>2. LastSide'
    BY <1>1, <2>1, SideKept
  <2>3. \E s \in 1 .. Len(zs') + 1 : CountedFrom(s)'
    <3>1. PICK s \in 1 .. n + 1 : CountedFrom(s)
      BY <1>2, <1>4 DEF PairInv
    <3>2. /\ Quiet(s, n + 1)'
          /\ Cardinality(ValidIn(s, n + 1)') = barsNoCross
      <4>1. /\ Cardinality(ValidIn(s, n + 1)') =
                  Cardinality(ValidIn(s, n)) + (IF z = NaN THEN 0 ELSE 1)
            /\ Quiet(s, n + 1)' <=> Quiet(s, n) /\ ~(z # NaN /\ CrossesAt(n + 1)')
        BY <1>1, <1>2, NextWindow
      <4>2. Quiet(s, n) /\ Cardinality(ValidIn(s, n)) = barsNoCross /\ barsNoCross \in Nat
        BY <1>1, <1>2, <3>1 DEF CountedFrom, PairTypes
      <4> QED
        BY <2>1, <4>1, <4>2
    <3>3. s > 1 => (Valid(s - 1) /\ CrossesAt(s - 1))'
      <4> SUFFICES ASSUME s > 1 PROVE (Valid(s - 1) /\ CrossesAt(s - 1))'
        OBVIOUS
      <4>1. PICK k : k = s - 1
        OBVIOUS
      <4>2. k \in 1 .. Len(zs)
        BY <1>2, <4>1
      <4>3. Valid(k) /\ CrossesAt(k)
        BY <3>1, <4>1 DEF CountedFrom
      <4>4. Valid(k)' /\ CrossesAt(k)'
        BY <1>1, <4>2, <4>3, SameBars
      <4> QED
        BY <4>1, <4>4
    <3>4. CountedFrom(s)'
      BY <1>1, <1>2, <3>2, <3>3 DEF CountedFrom
    <3> QED
      BY <1>2, <3>4
  <2>4. RetiredAfterNoCross'
    <3>1. ASSUME NEW i \in 1 .. n + 1, NEW j \in 1 .. n + 1, Overdue(i, j)' PROVE FALSE
      <4>1. CASE i \in 1 .. n /\ j \in 1 .. n
        BY <1>1, <1>2, <1>4, <3>1, <4>1, OverdueStays
      <4>2. CASE j = n + 1
        <5>1. /\ Cardinality(ValidIn(i, n + 1)') = Cardinality(ValidIn(i, n))
              /\ Quiet(i, n + 1)' => Quiet(i, n)
          <6>1. /\ Cardinality(ValidIn(i, n + 1)') =
                      Cardinality(ValidIn(i, n)) + (IF z = NaN THEN 0 ELSE 1)
                /\ Quiet(i, n + 1)' <=> Quiet(i, n) /\ ~(z # NaN /\ CrossesAt(n + 1)')
            BY <1>1, <1>2, NextWindow
          <6>2. Cardinality(ValidIn(i, n)) \in Nat
            <7>1. i \in Int /\ n \in Int
              OBVIOUS
            <7> QED
              BY <7>1, WindowSize
          <6> QED
            BY <2>1, <6>1, <6>2
        <5>2. Overdue(i, n)
          BY <3>1, <4>2, <5>1 DEF Overdue
        <5>3. CASE i \in 1 .. n
          <6>1. n \in 1 .. n
            BY <5>3
          <6> QED
            BY <1>1, <1>2, <1>4, <5>2, <5>3, <6>1
        <5>4. CASE i = n + 1
          <6>1. ValidIn(i, n) = {}
            BY <5>4 DEF ValidIn
          <6> QED
            BY <5>2, <6>1, FS_EmptySet, BandAssumption DEF Overdue
        <5> QED
          BY <5>3, <5>4
      <4>3. CASE i = n + 1 /\ j \in 1 .. n
        <5>1. ValidIn(i, j)' = {}
          BY <4>3 DEF ValidIn
        <5> QED
          BY <3>1, <5>1, FS_EmptySet, BandAssumption DEF Overdue
      <4> QED
        BY <4>1, <4>2, <4>3
    <3> QED
      BY <1>1, <1>2, <1>4, <3>1, RetiredMeans
  <2> QED
    BY <2>2, <2>3, <2>4
<1> QED
  BY <1>3, <1>4

\* LiveBar: barsNoCross counts on, or from this bar if it crosses.
LEMMA CountLive ==
    ASSUME PairInv, NEW z \in ZScore, zs' = Append(zs, z), LiveBar(z),
           NEW n \in Nat, n = Len(zs), Len(zs') = n + 1
    PROVE  \E s \in 1 .. n + 2 : CountedFrom(s)'
<1>1. /\ PairTypes /\ ~broken /\ z # NaN /\ LastSide /\ barsNoCross \in Nat
      /\ barsNoCross' = IF Crossed(z) THEN 0 ELSE barsNoCross + 1
  BY DEF PairInv, PairTypes, LiveBar, NoCrossAfter
<1>2. PICK m : m = n + 1
  OBVIOUS
<1>3. CrossesAt(m)' <=> Crossed(z)
  BY <1>1, <1>2, CrossedMeans
<1>4. Valid(m)'
  BY <1>1, <1>2, OneMoreBar DEF PairTypes, Valid
<1>5. CASE Crossed(z)
  <2>1. PICK s : s = n + 2
    OBVIOUS
  <2>2. s - 1 = m /\ s .. m = {} /\ s \in 1 .. n + 2
    BY <1>2, <2>1
  <2>3. ValidIn(s, m)' = {} /\ Quiet(s, m)'
    BY <2>2 DEF ValidIn, Quiet
  <2>4. barsNoCross' = Cardinality(ValidIn(s, m)')
    BY <1>1, <1>5, <2>3, FS_EmptySet
  <2>5. Valid(s - 1)' /\ CrossesAt(s - 1)'
    BY <1>3, <1>4, <1>5, <2>2
  <2> QED
    BY <1>2, <2>2, <2>3, <2>4, <2>5 DEF CountedFrom
<1>6. CASE ~Crossed(z)
  <2>1. PICK s \in 1 .. n + 1 : CountedFrom(s)
    BY <1>1 DEF PairInv
  <2>2. Quiet(s, n + 1)' /\ Cardinality(ValidIn(s, n + 1)') = barsNoCross'
    <3>1. /\ Cardinality(ValidIn(s, n + 1)') =
                Cardinality(ValidIn(s, n)) + (IF z = NaN THEN 0 ELSE 1)
          /\ Quiet(s, n + 1)' <=> Quiet(s, n) /\ ~(z # NaN /\ CrossesAt(n + 1)')
      BY <1>1, NextWindow
    <3>2. Quiet(s, n) /\ Cardinality(ValidIn(s, n)) = barsNoCross
      BY <2>1 DEF CountedFrom
    <3>3. ~CrossesAt(n + 1)'
      BY <1>2, <1>3, <1>6
    <3> QED
      BY <1>1, <1>6, <3>1, <3>2, <3>3
  <2>3. s > 1 => (Valid(s - 1) /\ CrossesAt(s - 1))'
    <3> SUFFICES ASSUME s > 1 PROVE (Valid(s - 1) /\ CrossesAt(s - 1))'
      OBVIOUS
    <3>1. PICK k : k = s - 1
      OBVIOUS
    <3>2. k \in 1 .. Len(zs)
      BY <3>1
    <3>3. Valid(k) /\ CrossesAt(k)
      BY <2>1, <3>1 DEF CountedFrom
    <3>4. Valid(k)' /\ CrossesAt(k)'
      BY <1>1, <3>2, <3>3, SameBars
    <3> QED
      BY <3>1, <3>4
  <2>4. CountedFrom(s)'
    BY <2>2, <2>3 DEF CountedFrom
  <2> QED
    BY <2>4
<1> QED
  BY <1>5, <1>6

\* LiveBar retires a pair exactly when a window is overdue.
LEMMA RetireLive ==
    ASSUME PairInv, NEW z \in ZScore, zs' = Append(zs, z), LiveBar(z)
    PROVE  /\ RetiredAfterNoCross'
           /\ ~broken' => LastSide' /\ \E s \in 1 .. Len(zs') + 1 : CountedFrom(s)'
<1>1. /\ PairTypes /\ ~broken /\ z # NaN /\ LastSide
      /\ (broken' <=> barsNoCross' > MaxNoCross) /\ barsNoCross' \in Nat
      /\ prevSign' = IF Sign(z) # 0 THEN Sign(z) ELSE prevSign
  <2>1. /\ PairTypes /\ ~broken /\ z # NaN /\ LastSide
        /\ prevSign' = IF Sign(z) # 0 THEN Sign(z) ELSE prevSign
    BY DEF PairInv, LiveBar
  <2>2. barsNoCross' \in Nat
    BY DEF PairInv, PairTypes, LiveBar, NoCrossAfter
  <2>3. broken' = (NoCrossAfter(z) > MaxNoCross) /\ NoCrossAfter(z) = barsNoCross'
    BY DEF LiveBar
  <2>4. broken' <=> barsNoCross' > MaxNoCross
    <3>1. broken' = (barsNoCross' > MaxNoCross)
      BY <2>3, Zenon
    <3> QED
      BY <3>1, Zenon
  <2> QED
    BY <2>1, <2>2, <2>4
<1>2. PICK n \in Nat : n = Len(zs) /\ Len(zs') = n + 1
  BY <1>1, OneMoreBar DEF PairTypes
<1>3. LastSide'
  BY <1>1, SideKept
<1>4. PICK s \in 1 .. n + 2 : CountedFrom(s)'
  BY <1>2, CountLive
<1>5. PICK m \in Nat : m = n + 1 /\ Len(zs') = m
  BY <1>2
<1>6. /\ Quiet(s, m)' /\ barsNoCross' = Cardinality(ValidIn(s, m)')
      /\ s > 1 => Valid(s - 1)' /\ CrossesAt(s - 1)'
  BY <1>4, <1>5 DEF CountedFrom
<1>7. RetiredAfterNoCross'
  <2>1. CASE broken'
    <3>1. Overdue(s, m)'
      BY <1>1, <1>6, <2>1 DEF Overdue
    <3>2. s \in 1 .. m
      <4> SUFFICES ASSUME s = m + 1 PROVE FALSE
        BY <1>5
      <4>1. ValidIn(s, m)' = {}
        BY DEF ValidIn
      <4> QED
        BY ONLY s = m + 1, <1>1, <1>6, <2>1, <4>1, FS_EmptySet, BandAssumption
    <3>3. m \in 1 .. m
      BY <3>2
    <3> QED
      BY <1>5, <2>1, <3>1, <3>2, <3>3, RetiredMeans
  <2>2. CASE ~broken'
    <3>1. ASSUME NEW i \in 1 .. m, NEW j \in 1 .. m, Overdue(i, j)' PROVE FALSE
      <4>1. CASE i \in 1 .. n /\ j \in 1 .. n
        <5>1. Overdue(i, j)
          BY <1>1, <1>2, <3>1, <4>1, OverdueStays
        <5> QED
          BY <1>1, <1>2, <4>1, <5>1, RetiredMeans DEF PairInv
      <4>2. CASE j = m
        <5>1. Quiet(i, m)' /\ Cardinality(ValidIn(i, m)') > MaxNoCross
          BY <3>1, <4>2 DEF Overdue
        <5>2. s <= i
          <6> SUFFICES ASSUME s > i PROVE FALSE
            BY <1>5
          <6>1. s - 1 \in i .. m /\ s > 1
            BY <1>5
          <6> QED
            BY <1>6, <5>1, <6>1 DEF Quiet
        <5>3. ValidIn(i, m)' \subseteq ValidIn(s, m)'
          BY <5>2 DEF ValidIn
        <5>4. IsFiniteSet(ValidIn(s, m)')
          <6>1. IsFiniteSet(s .. m) /\ ValidIn(s, m)' \subseteq s .. m
            BY FS_Interval DEF ValidIn
          <6> QED
            BY <6>1, FS_Subset
        <5>5. /\ Cardinality(ValidIn(i, m)') <= Cardinality(ValidIn(s, m)')
              /\ Cardinality(ValidIn(i, m)') \in Nat
          BY <5>3, <5>4, FS_Subset, FS_CardinalityType
        <5>6. barsNoCross' <= MaxNoCross
          BY <1>1, <2>2, BandAssumption
        <5> QED
          BY <1>1, <1>6, <5>1, <5>5, <5>6, BandAssumption
      <4>3. CASE i = m /\ j \in 1 .. n
        <5>1. ValidIn(i, j)' = {}
          BY <1>5, <4>3 DEF ValidIn
        <5> QED
          BY <3>1, <5>1, FS_EmptySet, BandAssumption DEF Overdue
      <4> QED
        BY <1>5, <4>1, <4>2, <4>3
    <3> QED
      BY <1>5, <2>2, <3>1, RetiredMeans
  <2> QED
    BY <2>1, <2>2
<1> QED
  BY <1>2, <1>3, <1>4, <1>7

\* PairInit
LEMMA PairStarts == PairInit => PairInv
<1> SUFFICES ASSUME PairInit PROVE PairInv
  OBVIOUS
<1>1. PairTypes /\ Entered
  <2>1. zs \in Seq(ZScore) /\ pos \in {1, -1, 0} /\ prevSign \in {1, -1, 0}
    BY DEF PairInit
  <2>2. broken \in BOOLEAN /\ barsNoCross \in Nat
    BY DEF PairInit
  <2>3. pos = 0
    BY DEF PairInit
  <2>4. legs = <<0, 0>>
    BY DEF PairInit
  <2> QED
    BY <2>1, <2>2, <2>3, <2>4 DEF PairTypes, Entered
<1>2. Len(zs) = 0 /\ ~broken
  BY DEF PairInit
<1>3. LastSide
  BY <1>2 DEF PairInit, LastSide
<1>4. ValidIn(1, 0) = {} /\ Quiet(1, 0)
  BY DEF ValidIn, Quiet
<1>5. 1 \in 1 .. Len(zs) + 1 /\ CountedFrom(1)
  BY <1>2, <1>4, FS_EmptySet DEF PairInit, CountedFrom
<1>6. RetiredAfterNoCross
  BY <1>2, RetiredMeans
<1> QED
  BY <1>1, <1>3, <1>5, <1>6 DEF PairInv

\* PairBar
LEMMA PairStep == PairInv /\ [PairBar]_pairVars => PairInv'
<1> SUFFICES ASSUME PairInv, [PairBar]_pairVars PROVE PairInv'
  OBVIOUS
<1>1. CASE PairBar
  <2>1. PICK z \in ZScore : zs' = Append(zs, z) /\ (IdleBar(z) \/ LiveBar(z))
    BY <1>1 DEF PairBar, ZScore
  <2>2. PairTypes'
    <3>1. PairTypes /\ zs' \in Seq(ZScore)
      BY <2>1, OneMoreBar DEF PairInv, PairTypes
    <3>2. CASE IdleBar(z)
      BY <3>1, <3>2 DEF IdleBar, PairTypes
    <3>3. CASE LiveBar(z)
      <4>1. z \in Int /\ Sign(z) \in {1, -1, 0} /\ NextPos(z) \in {1, -1, 0}
        BY <3>1, <3>3, ZTypes, NextPosFacts DEF LiveBar
      <4>2. pos' \in {1, -1, 0} /\ prevSign' \in {1, -1, 0}
        BY <3>1, <3>3, <4>1 DEF LiveBar, PairTypes
      <4>3. barsNoCross' \in Nat /\ broken' \in BOOLEAN
        BY <3>1, <3>3 DEF LiveBar, PairTypes, NoCrossAfter
      <4> QED
        BY <3>1, <4>2, <4>3 DEF PairTypes
    <3> QED
      BY <2>1, <3>2, <3>3
  <2>3. Entered'
    BY <2>1, EntryIdle, EntryLive
  <2>4. /\ RetiredAfterNoCross'
        /\ ~broken' => LastSide' /\ \E s \in 1 .. Len(zs') + 1 : CountedFrom(s)'
    BY <2>1, RetireIdle, RetireLive
  <2> QED
    BY <2>2, <2>3, <2>4 DEF PairInv
<1>2. CASE UNCHANGED pairVars
  <2>1. PairTypes' /\ Entered' /\ RetiredAfterNoCross'
    BY <1>2 DEF pairVars, PairInv, PairTypes, Entered, Holds, Valid, RetiredAfterNoCross,
                CrossesAt, OffMean
  <2>2. ~broken' => LastSide' /\ \E s \in 1 .. Len(zs') + 1 : CountedFrom(s)'
    BY <1>2 DEF pairVars, PairInv, LastSide, CountedFrom, Quiet, ValidIn, Valid, CrossesAt, OffMean
  <2> QED
    BY <2>1, <2>2 DEF PairInv
<1> QED
  BY <1>1, <1>2

\* A position held at any bar follows from one earlier bar that entered it beyond the
\* band and that no bar since left or stopped, with the hedge ratio of that bar, for any
\* bands and z-scores and series of any length.
THEOREM PositionsHaveEntries == PairSpec => []PositionHasItsEntry
<1>1. PairInv => PositionHasItsEntry
  <2> SUFFICES ASSUME PairInv, legs # <<0, 0>> PROVE PositionHasItsEntry
    BY DEF PositionHasItsEntry
  <2>1. pos # 0 /\ ~broken
    BY DEF PairInv, Entered
  <2>2. PICK i \in 1 .. Len(zs) : Holds(i, pos) /\ legs = <<pos, -pos * RatioAt(i)>>
    BY <2>1 DEF PairInv, Entered
  <2>3. PICK p \in {1, -1} : p = pos
    BY <2>1 DEF PairInv, PairTypes
  <2> QED
    BY <2>1, <2>2, <2>3 DEF PositionHasItsEntry, Holds
<1> QED
  BY <1>1, PairStarts, PairStep, PTL DEF PairSpec

\* A pair is retired exactly if the series has had more than MaxNoCross bars with a
\* z-score in a row without a crossing of the mean, in any series.
THEOREM RetirementIsExact == PairSpec => []RetiredAfterNoCross
<1>1. PairInv => RetiredAfterNoCross
  BY DEF PairInv
<1> QED
  BY <1>1, PairStarts, PairStep, PTL DEF PairSpec

-----------------------------------------------------------------------------
(***************************************************************************)
(* The momentum rows.                                                      *)
(***************************************************************************)
WeightRow == [Column -> Nat]

\* The columns.
LEMMA Columns == IsFiniteSet(Column) /\ Cardinality(Column) = NStocks /\ NStocks \in Nat
BY MomentumAssumption, FS_Interval DEF Column

\* TotalOver is a sum.
LEMMA TotalOverIs ==
    ASSUME NEW S \in SUBSET Column, NEW f, \A s \in S : f[s] \in Int
    PROVE  TotalOver(f, S) = SumOf(f, S) /\ SumOf(f, S) \in Int
<1>1. IsFiniteSet(S)
  BY Columns, FS_Subset
<1> QED
  BY <1>1, FunctionSum, SumType DEF TotalOver

\* nlargest takes at least one of any candidates.
LEMMA FirstInOrder ==
    ASSUME NEW sig \in [Column -> Signals], NEW C \in SUBSET Column, C # {}
    PROVE  \E s \in C : \A t \in C : ~Ahead(sig, t, s)
<1> DEFINE P == {T \in SUBSET C : T = {} \/ \E s \in T : \A t \in T : ~Ahead(sig, t, s)}
<1>1. {} \in P
  OBVIOUS
<1>2. ASSUME NEW T \in SUBSET C, NEW x \in C, T \in P, x \notin T
      PROVE  T \cup {x} \in P
  <2>1. \A s \in C : sig[s].score \in Int /\ s \in Int
    BY MomentumAssumption DEF Column
  <2>2. PICK sc : \A s \in C : sc[s] = sig[s].score
    <3>1. \A s \in C : [t \in C |-> sig[t].score][s] = sig[s].score
      OBVIOUS
    <3> QED
      BY <3>1
  <2>3. \A a \in C, b \in C : Ahead(sig, a, b) <=> sc[a] > sc[b] \/ (sc[a] = sc[b] /\ a < b)
    BY <2>2 DEF Ahead
  <2>4. \A s \in C : sc[s] \in Int /\ s \in Int
    BY <2>1, <2>2
  <2>5. ~Ahead(sig, x, x)
    BY <2>3, <2>4
  <2>6. CASE T = {}
    BY <2>5, <2>6
  <2>7. CASE T # {}
    <3>1. PICK s \in T : \A t \in T : ~Ahead(sig, t, s)
      BY <1>2, <2>7
    <3>2. CASE ~Ahead(sig, x, s)
      BY <3>1, <3>2
    <3>3. CASE Ahead(sig, x, s)
      <4>1. \A t \in T : ~Ahead(sig, t, x)
        BY <2>3, <2>4, <3>1, <3>3
      <4> QED
        BY <2>5, <4>1
    <3> QED
      BY <3>2, <3>3
  <2> QED
    BY <2>6, <2>7
<1>3. C \in P
  <2> HIDE DEF P
  <2>1. IsFiniteSet(C)
    BY Columns, FS_Subset
  <2> QED
    BY <1>1, <1>2, <2>1, SetInduction
<1> QED
  BY <1>3

\* Chosen
LEMMA SomeChosen ==
    ASSUME NEW sig \in [Column -> Signals]
    PROVE  /\ Chosen(sig) \subseteq Candidates(sig) /\ Candidates(sig) \subseteq Column
           /\ Candidates(sig) # {} => Chosen(sig) # {}
<1>1. Chosen(sig) \subseteq Candidates(sig) /\ Candidates(sig) \subseteq Column
  BY DEF Chosen, Candidates
<1>2. ASSUME Candidates(sig) # {} PROVE Chosen(sig) # {}
  <2>1. PICK s \in Candidates(sig) : \A t \in Candidates(sig) : ~Ahead(sig, t, s)
    BY <1>1, <1>2, FirstInOrder
  <2>2. {t \in Candidates(sig) : Ahead(sig, t, s)} = {}
    BY <2>1
  <2>3. Cardinality({t \in Candidates(sig) : Ahead(sig, t, s)}) = 0
    BY <2>2, FS_EmptySet
  <2>4. PICK c \in Nat : c = Cardinality(Candidates(sig))
    BY <1>1, Columns, FS_Subset, FS_CardinalityType
  <2>5. PICK k \in Nat : k = c \div PctDiv
    BY MomentumAssumption
  <2>6. s \in Chosen(sig)
    <3>1. 0 < IF k = 0 THEN 1 ELSE k
      OBVIOUS
    <3>2. 0 < LET j == Cardinality(Candidates(sig)) \div PctDiv IN IF j = 0 THEN 1 ELSE j
      BY <2>4, <2>5, <3>1
    <3> QED
      BY <2>3, <3>2 DEF Chosen
  <2> QED
    BY <2>6
<1> QED
  BY <1>1, <1>2

\* The exposure of the regime, in units of weight.
Scale(pct) == (WeightUnit * RegimeScale(pct)) \div 100

\* RegimeScale
LEMMA ScaleType ==
    ASSUME NEW pct \in VrpPcts
    PROVE  WeightUnit * RegimeScale(pct) \in Nat /\ Scale(pct) \in Int
<1>1. pct \in Nat /\ 100 - pct \in Nat /\ MinExposure \in Nat /\ 100 - MinExposure \in Nat
      /\ WeightUnit \in Nat
  BY MomentumAssumption
<1>2. PICK x \in Nat : x = (100 - MinExposure) * (100 - pct)
  BY <1>1
<1>3. RegimeScale(pct) \in Nat
  BY <1>1, <1>2 DEF RegimeScale
<1>4. PICK y \in Nat : y = WeightUnit * RegimeScale(pct)
  BY <1>1, <1>3
<1> QED
  BY <1>4 DEF Scale

\* TargetRow is 0 off the chosen and adds up to the exposure, less a unit for each.
LEMMA RowIsInvested ==
    ASSUME NEW sig \in [Column -> Signals], NEW pct \in VrpPcts
    PROVE  /\ TargetRow(sig, pct) \in WeightRow
           /\ \A s \in Column \ Chosen(sig) : TargetRow(sig, pct)[s] = 0
           /\ Chosen(sig) # {} =>
                /\ SumOf(TargetRow(sig, pct), Column) <= Scale(pct)
                /\ Scale(pct) <= SumOf(TargetRow(sig, pct), Column) + NStocks
<1>1. PICK S \in SUBSET Column : S = Chosen(sig)
  BY SomeChosen
<1>2. PICK A \in Nat : A = WeightUnit * RegimeScale(pct) /\ Scale(pct) = A \div 100
  BY ScaleType DEF Scale
<1>3. PICK inverse : inverse = [s \in Column |-> sig[s].inv]
  OBVIOUS
<1>4. \A s \in Column : inverse[s] \in Nat
  BY <1>3, MomentumAssumption
<1>5. IsFiniteSet(S) /\ Cardinality(S) \in Nat /\ Cardinality(S) <= NStocks
  BY Columns, FS_Subset, FS_CardinalityType
<1>6. PICK ratio : ratio = [s \in Column |-> IF TotalOver(inverse, S) > 0 THEN inverse[s] ELSE 1]
  OBVIOUS
<1>7. \A s \in Column : ratio[s] \in Nat
  BY <1>4, <1>6
<1>8. PICK k \in Int : k = TotalOver(ratio, S) /\ k = SumOf(ratio, S)
  BY <1>7, TotalOverIs
<1>9. PICK row : row = TargetRow(sig, pct)
  OBVIOUS
<1>10. row = [s \in Column |-> IF s \in S THEN (A * ratio[s]) \div (100 * k) ELSE 0]
  <2>1. \A s \in Column : ratio[s] = IF TotalOver([t \in Column |-> sig[t].inv], S) > 0
                                     THEN sig[s].inv ELSE 1
    BY <1>3, <1>6
  <2>2. ratio = [s \in Column |-> IF TotalOver([t \in Column |-> sig[t].inv], S) > 0
                                  THEN sig[s].inv ELSE 1]
    BY <1>3, <1>6
  <2> QED
    BY ONLY <1>1, <1>2, <1>8, <1>9, <2>2 DEF TargetRow
<1>11. S # {} => k > 0
  <2> SUFFICES ASSUME S # {} PROVE k > 0
    OBVIOUS
  <2>1. CASE TotalOver(inverse, S) > 0
    <3>1. \A s \in S : inverse[s] = ratio[s]
      BY <1>6, <2>1
    <3>2. SumOf(inverse, S) = SumOf(ratio, S)
      BY <1>5, <3>1, SumSame
    <3>3. TotalOver(inverse, S) = SumOf(inverse, S)
      BY <1>4, TotalOverIs
    <3> QED
      BY <1>8, <2>1, <3>2, <3>3
  <2>2. CASE ~(TotalOver(inverse, S) > 0)
    <3> DEFINE less == [s \in S |-> -1]
               none == [s \in S |-> 0]
    <3>1. \A s \in S : ratio[s] = 1
      BY <1>6, <2>2
    <3>2. \A s \in S : ratio[s] \in Int /\ less[s] \in Int /\ none[s] = ratio[s] + less[s]
      BY <3>1
    <3>3. \A s \in S : less[s] \in Int /\ less[s] <= -1
      OBVIOUS
    <3>4. \A s \in S : none[s] \in Int /\ none[s] = 0 * ratio[s]
      BY <3>1
    <3> HIDE DEF less, none
    <3>5. SumOf(none, S) = SumOf(ratio, S) + SumOf(less, S)
      BY <1>5, <3>2, SumPlus
    <3>6. SumOf(less, S) <= (-1) * Cardinality(S)
      <4>1. -1 \in Int
        OBVIOUS
      <4> QED
        BY <1>5, <3>3, <4>1, SumBound
    <3>7. SumOf(none, S) = 0 * SumOf(ratio, S)
      <4>1. \A s \in S : ratio[s] \in Int /\ none[s] = 0 * ratio[s]
        BY <3>2, <3>4
      <4>2. 0 \in Int
        OBVIOUS
      <4> QED
        BY <1>5, <4>1, <4>2, SumTimes
    <3>8. Cardinality(S) > 0
      BY <1>5, FS_EmptySet
    <3>9. SumOf(less, S) \in Int
      BY <1>5, <3>3, SumType
    <3> QED
      BY <1>5, <1>8, <3>5, <3>6, <3>7, <3>8, <3>9
  <2> QED
    BY <2>1, <2>2
<1>12. \A s \in S : A * ratio[s] \in Nat /\ ratio[s] \in Int
  BY <1>7
<1>13. row \in WeightRow
  <2>1. ASSUME NEW s \in S PROVE (A * ratio[s]) \div (100 * k) \in Nat
    <3>1. PICK a \in Nat, b \in Int : a = A * ratio[s] /\ b = 100 * k /\ b > 0
      BY <1>11, <1>12, <2>1
    <3> QED
      BY <3>1
  <2> QED
    BY <1>10, <2>1 DEF WeightRow
<1>14. \A s \in Column \ S : row[s] = 0
  BY <1>10
<1>15. ASSUME S # {} PROVE SumOf(row, Column) <= Scale(pct) /\ Scale(pct) <= SumOf(row, Column) + NStocks
  <2> DEFINE F == [s \in S |-> A * ratio[s]]
  <2>1. PICK d \in Int : d = 100 * k /\ d > 0
    BY <1>11, <1>15
  <2>2. \A s \in S : F[s] \in Int /\ row[s] = F[s] \div d
    BY <1>10, <1>12, <2>1
  <2>3. \A s \in S : ratio[s] \in Int /\ F[s] = A * ratio[s]
    BY <1>12
  <2> HIDE DEF F
  <2>4. /\ SumOf(row, S) \in Int
        /\ d * SumOf(row, S) <= SumOf(F, S)
        /\ SumOf(F, S) <= d * SumOf(row, S) + (d - 1) * Cardinality(S)
    BY <1>5, <2>1, <2>2, QuotientSum
  <2>5. SumOf(F, S) = A * k
    <3>1. A \in Int
      OBVIOUS
    <3>2. SumOf(F, S) = A * SumOf(ratio, S)
      BY ONLY <1>5, <2>3, <3>1, SumTimes, Zenon
    <3> QED
      BY <1>8, <3>2
  <2>6. PICK h \in Int, c \in Int : h = SumOf(row, S) /\ c = Cardinality(S) /\ c <= NStocks
    BY <1>5, <2>4
  <2>7. 100 * h <= A
    <3>1. k * (100 * h) <= k * A
      <4>1. (100 * k) * h = k * (100 * h) /\ A * k = k * A
        OBVIOUS
      <4> QED
        BY <2>1, <2>4, <2>5, <2>6, <4>1
    <3> QED
      BY <1>11, <1>15, <3>1, Cancel
  <2>8. A <= 100 * (h + c)
    <3>1. k * A <= k * (100 * (h + c))
      <4>1. /\ (100 * k) * h + (100 * k) * c = k * (100 * (h + c)) /\ A * k = k * A
            /\ (d - 1) * c = d * c - c /\ c >= 0
        BY <1>5, <2>6
      <4> QED
        BY <2>1, <2>4, <2>5, <2>6, <4>1
    <3> QED
      BY <1>11, <1>15, <3>1, Cancel
  <2>9. h <= Scale(pct) /\ Scale(pct) <= h + c
    BY <1>2, <2>7, <2>8
  <2>10. SumOf(row, Column) = SumOf(row, S)
    <3>1. \A s \in Column : row[s] \in Int
      BY <1>13 DEF WeightRow
    <3>2. \A s \in Column : s \notin S => row[s] = 0
      BY <1>14
    <3> QED
      BY <3>1, <3>2, Columns, SumWithout0
  <2>11. Scale(pct) \in Int /\ NStocks \in Int
    BY ScaleType, Columns
  <2> QED
    BY <2>6, <2>9, <2>10, <2>11
<1> QED
  BY <1>1, <1>9, <1>13, <1>14, <1>15

\* ApplyBand leaves less than the band between a weight and its target.
LEMMA BandIsNarrow ==
    ASSUME NEW prev \in WeightRow, NEW target \in WeightRow
    PROVE  /\ ApplyBand(prev, target) \in WeightRow
           /\ \A s \in Column :
                /\ ApplyBand(prev, target)[s] <= target[s] + (Band - 1)
                /\ target[s] <= ApplyBand(prev, target)[s] + (Band - 1)
<1>1. ASSUME NEW s \in Column
      PROVE  /\ ApplyBand(prev, target)[s] \in Nat
             /\ ApplyBand(prev, target)[s] <= target[s] + (Band - 1)
             /\ target[s] <= ApplyBand(prev, target)[s] + (Band - 1)
  <2>1. PICK a \in Nat, b \in Nat : a = prev[s] /\ b = target[s]
    BY DEF WeightRow
  <2>2. ApplyBand(prev, target)[s] =
           IF (IF b > a THEN b - a ELSE a - b) >= Band THEN b ELSE a
    BY <2>1 DEF ApplyBand
  <2>3. Band \in Nat \ {0}
    BY MomentumAssumption
  <2> QED
    BY <2>1, <2>2, <2>3
<1>2. ApplyBand(prev, target) = [s \in Column |-> ApplyBand(prev, target)[s]]
  BY DEF ApplyBand
<1>3. ApplyBand(prev, target) \in WeightRow
  BY <1>1, <1>2 DEF WeightRow
<1> QED
  BY <1>1, <1>3

\* Rows that differ by at most c in each column differ by at most c for each in all.
LEMMA RowsAreNear ==
    ASSUME NEW F \in WeightRow, NEW G \in WeightRow, NEW c \in Int,
           \A s \in Column : F[s] <= G[s] + c
    PROVE  SumOf(F, Column) <= SumOf(G, Column) + c * NStocks
<1> DEFINE H == [s \in Column |-> F[s] - G[s]]
<1>1. \A s \in Column : G[s] \in Int /\ H[s] \in Int /\ F[s] = G[s] + H[s]
  BY DEF WeightRow
<1>2. \A s \in Column : H[s] \in Int /\ H[s] <= c
  BY DEF WeightRow
<1> HIDE DEF H
<1>3. SumOf(F, Column) = SumOf(G, Column) + SumOf(H, Column)
  BY <1>1, Columns, SumPlus
<1>4. SumOf(H, Column) <= c * Cardinality(Column)
  BY <1>2, Columns, SumBound
<1>5. SumOf(H, Column) \in Int /\ SumOf(G, Column) \in Int
  BY <1>1, Columns, SumType
<1>6. PICK k \in Int : k = c * NStocks
  BY Columns
<1> QED
  BY <1>3, <1>4, <1>5, <1>6, Columns

\* FirstOfMonth, from any weights.
LEMMA RowAfter ==
    ASSUME weights \in WeightRow, month \in Nat, FirstOfMonth
    PROVE  weights' \in WeightRow /\ month' \in Nat /\ TiltIsInvestable'
<1>1. PICK sig \in [Column -> Signals], pct \in VrpPcts :
         /\ weights' = ApplyBand(weights, TargetRow(sig, pct))
         /\ signal' = [of |-> sig, pct |-> pct]
  BY DEF FirstOfMonth
<1>2. PICK target \in WeightRow : target = TargetRow(sig, pct)
  BY RowIsInvested
<1>3. PICK w \in WeightRow : w = weights'
  BY <1>1, <1>2, BandIsNarrow
<1>4. PICK c \in Nat : c = Band - 1
  BY MomentumAssumption
<1>5. \A s \in Column : w[s] <= target[s] + c /\ target[s] <= w[s] + c
  BY <1>1, <1>2, <1>3, <1>4, BandIsNarrow
<1>6. /\ SumOf(w, Column) <= SumOf(target, Column) + c * NStocks
      /\ SumOf(target, Column) <= SumOf(w, Column) + c * NStocks
  <2>1. c \in Int
    OBVIOUS
  <2> QED
    BY <1>5, <2>1, RowsAreNear
<1>7. PICK gross \in Int, sum \in Int : gross = SumOf(w, Column) /\ sum = SumOf(target, Column)
  <2>1. (\A s \in Column : w[s] \in Int) /\ (\A s \in Column : target[s] \in Int)
    BY DEF WeightRow
  <2> QED
    BY <2>1, Columns, SumType
<1>8. TotalOver(w, Column) = gross
  <2>1. \A s \in Column : w[s] \in Int
    BY DEF WeightRow
  <2>2. Column \in SUBSET Column
    OBVIOUS
  <2> QED
    BY <1>7, <2>1, <2>2, TotalOverIs
<1>9. PICK C \in SUBSET Column : C = Candidates(sig)
  BY SomeChosen
<1>10. PICK scale \in Int : scale = IF C = {} THEN 0 ELSE Scale(pct)
  BY ScaleType
<1>11. sum <= scale /\ scale <= sum + NStocks
  <2>1. CASE C = {}
    <3>1. \A s \in Column : target[s] = 0
      BY <1>2, <1>9, <2>1, SomeChosen, RowIsInvested
    <3>2. SumOf(target, Column) = SumOf(target, {})
      <4>1. \A s \in Column : target[s] \in Int
        BY DEF WeightRow
      <4>2. {} \in SUBSET Column /\ \A s \in Column : s \notin {} => target[s] = 0
        BY <3>1
      <4> QED
        BY <4>1, <4>2, Columns, SumWithout0
    <3> QED
      BY <1>7, <1>10, <2>1, <3>2, SumEmpty, Columns
  <2>2. CASE C # {}
    BY <1>2, <1>7, <1>9, <1>10, <2>2, SomeChosen, RowIsInvested
  <2> QED
    BY <2>1, <2>2
<1>12. PICK x \in Int, y \in Int : x = c * NStocks /\ y = NStocks * Band /\ y = x + NStocks
  <2>1. Band \in Int /\ NStocks \in Int /\ Band = c + 1
    BY <1>4, Columns, MomentumAssumption
  <2>2. NStocks * (c + 1) = c * NStocks + NStocks
    BY <2>1
  <2> QED
    BY <2>1, <2>2
<1>13. gross <= scale + y /\ gross >= scale - y
  BY <1>6, <1>7, <1>11, <1>12, Columns
<1>14. \A s \in Column \ C : w[s] = 0 \/ w[s] < Band
  <2>1. \A s \in Column \ C : target[s] = 0
    BY <1>2, <1>9, SomeChosen, RowIsInvested
  <2> QED
    BY <1>4, <1>5, <2>1, MomentumAssumption DEF WeightRow
<1>15. \A s \in Column : w[s] >= 0
  BY DEF WeightRow
<1>16. TiltIsInvestable'
  <2>1. signal'.of = sig /\ signal'.pct = pct
    BY <1>1
  <2> QED
    BY <2>1, <1>3, <1>8, <1>9, <1>10, <1>12, <1>13, <1>14, <1>15 DEF TiltIsInvestable, Scale
<1> QED
  BY <1>3, <1>16 DEF FirstOfMonth

\* Every row that the strategy decides is long only and invested to the exposure of its
\* regime, up to the band and a unit of each stock, for any stocks, scores and volatilities
\* and whatever the months before brought.
THEOREM RowsAreInvestable == MomentumSpec => []TiltIsInvestable
<1> DEFINE Inv == weights \in WeightRow /\ month \in Nat /\ TiltIsInvestable
<1>1. MomentumInit => Inv
  BY DEF MomentumInit, NoWeights, WeightRow, TiltIsInvestable
<1>2. Inv /\ [FirstOfMonth]_momentumVars => Inv'
  <2> SUFFICES ASSUME Inv, [FirstOfMonth]_momentumVars PROVE Inv'
    OBVIOUS
  <2>1. CASE FirstOfMonth
    BY <2>1, RowAfter
  <2>2. CASE UNCHANGED momentumVars
    BY <2>2 DEF momentumVars, TiltIsInvestable
  <2> QED
    BY <2>1, <2>2
<1> QED
  BY <1>1, <1>2, PTL DEF MomentumSpec

-----------------------------------------------------------------------------
(***************************************************************************)
(* The cost model.                                                         *)
(***************************************************************************)
\* The square root is a number for every participation.
RootIsWhole == \A n \in Int : Root(n) \in Int

OrderType ==
    /\ order.qty \in Int /\ order.price \in Nat
    /\ order.adv \in Nat \cup {NotANumber} /\ order.vol \in Nat \cup {NotANumber}

\* A magnitude is its own magnitude.
LEMMA MagnitudeType ==
    ASSUME NEW n \in Int
    PROVE  Magnitude(n) \in Nat /\ Magnitude(Magnitude(n)) = Magnitude(n)
BY DEF Magnitude

\* ComputeCosts, TotalCostsVec
LEMMA CostsAgree ==
    ASSUME NEW q \in Int, NEW p \in Nat, NEW segment
    PROVE  ComputeCosts(IF q > 0 THEN "buy" ELSE "sell", p, Magnitude(q), segment)
              = TotalCostsVec(p, q, segment)
<1> DEFINE side == IF q > 0 THEN "buy" ELSE "sell"
<1>1. PICK m \in Nat : m = Magnitude(q) /\ Magnitude(m) = m
  BY MagnitudeType
<1>2. PICK t \in Nat : t = p * m
  OBVIOUS
<1>3. /\ Config.flatFee \in Nat /\ Config.brokerage \in Nat /\ Config.exchange \in Nat
      /\ Config.sttDelivery \in Nat /\ Config.sttIntradaySell \in Nat /\ Config.gst \in Nat
      /\ Config.sebi \in Nat /\ Config.stamp \in Nat /\ Den \in Nat
  BY CostsAssumption
<1>4. PICK b \in Int : b = Brokerage(t) /\
         b = IF t > 0 THEN Smaller(Config.flatFee * Den, Config.brokerage * t) ELSE 0
  BY <1>3 DEF Brokerage, Smaller
<1>5. PICK x \in Int : x = Config.exchange * t
  BY <1>3
<1>6. PICK stt \in Int :
        /\ stt = CASE segment = "delivery" -> Config.sttDelivery * t
                   [] segment # "delivery" /\ side = "buy" -> 0
                   [] OTHER -> Config.sttIntradaySell * t
        /\ stt = IF segment = "delivery" THEN Config.sttDelivery * t
                 ELSE IF q > 0 THEN 0 ELSE Config.sttIntradaySell * t
  BY <1>3
<1>7. PICK s \in Int : /\ s = IF side = "buy" THEN Config.stamp * t ELSE 0
                       /\ s = IF q > 0 THEN Config.stamp * t ELSE 0
  BY <1>3
<1>8. PICK e \in Int : e = Config.sebi * t
  BY <1>3
<1>9. ComputeCosts(side, p, Magnitude(q), segment)
         = Den * (b + x + stt + e + s) + Config.gst * (b + x)
  BY <1>1, <1>2, <1>4, <1>5, <1>6, <1>7, <1>8 DEF ComputeCosts
<1>10. TotalCostsVec(p, q, segment) = Den * (b + stt + x + e + s) + Config.gst * (b + x)
  BY <1>1, <1>2, <1>4, <1>5, <1>6, <1>7, <1>8 DEF TotalCostsVec
<1>11. b + x + stt + e + s = b + stt + x + e + s
  OBVIOUS
<1> QED
  BY <1>9, <1>10, <1>11

\* ComputeImpact, ImpactCostVec
LEMMA ImpactsAgree ==
    ASSUME RootIsWhole, NEW q \in Int, NEW p \in Nat,
           NEW adv \in Nat \cup {NotANumber}, NEW vol \in Nat \cup {NotANumber}
    PROVE  ComputeImpact(q, p, adv, vol) = ImpactCostVec(q, p, adv, vol)
<1>1. PICK m \in Nat : m = Magnitude(q)
  BY MagnitudeType
<1>2. PICK n \in Int : n = IF adv # NotANumber /\ adv > 0 THEN (Den * m) \div adv ELSE 0
  <2>1. CASE adv # NotANumber /\ adv > 0
    BY <2>1, CostsAssumption
  <2>2. CASE ~(adv # NotANumber /\ adv > 0)
    BY <2>2
  <2> QED
    BY <2>1, <2>2
<1>3. /\ Config.impactK \in Nat /\ Config.halfSpread \in Nat /\ Config.slippage \in Nat
  BY CostsAssumption
<1>4. PICK r \in Int : r = Root(n)
  BY <1>2 DEF RootIsWhole
<1>5. PICK c \in Int : /\ c = IF vol # NotANumber THEN Config.impactK * vol * r ELSE 0
                       /\ c = Config.impactK * (IF vol = NotANumber THEN 0 ELSE vol) * r
  <2>1. CASE vol # NotANumber
    BY <1>3, <2>1
  <2>2. CASE vol = NotANumber
    BY <1>3, <2>2
  <2> QED
    BY <2>1, <2>2
<1>6. ComputeImpact(q, p, adv, vol) = (c + Config.halfSpread + Config.slippage) * m * p
  BY <1>1, <1>2, <1>4, <1>5 DEF ComputeImpact
<1>7. ImpactCostVec(q, p, adv, vol) = (c + Config.halfSpread + Config.slippage) * m * p
  BY <1>1, <1>2, <1>4, <1>5 DEF ImpactCostVec
<1> QED
  BY <1>6, <1>7

\* CapQuantity, CapQuantityVec
LEMMA CapsAgree ==
    ASSUME NEW q \in Int, NEW adv \in Nat \cup {NotANumber}
    PROVE  CapQuantity(q, adv) = CapQuantityVec(q, adv)
<1>1. PICK m \in Nat : m = Magnitude(q) /\ m = IF q < 0 THEN -q ELSE q
  BY MagnitudeType DEF Magnitude
<1>2. CASE adv # NotANumber /\ adv > 0
  <2>1. PICK a \in Nat : a = Config.participation * adv
    BY <1>2, CostsAssumption
  <2>2. PICK c \in Nat : c = (Config.participation * adv) \div Den
    BY <2>1, CostsAssumption
  <2>3. PICK n \in Int : n = Smaller(m, c) /\ (q = 0 => n = 0)
    BY <1>1, <2>2 DEF Smaller
  <2>4. CapQuantity(q, adv) = IF q < 0 THEN -n ELSE n
    BY <1>1, <1>2, <2>2, <2>3 DEF CapQuantity
  <2>5. CapQuantityVec(q, adv) = (IF q > 0 THEN 1 ELSE IF q < 0 THEN -1 ELSE 0) * n
    BY <1>1, <1>2, <2>2, <2>3 DEF CapQuantityVec
  <2> QED
    BY <2>3, <2>4, <2>5
<1>3. CASE ~(adv # NotANumber /\ adv > 0)
  <2>1. adv = NotANumber \/ adv <= 0
    BY <1>3
  <2>2. CapQuantity(q, adv) = q
    BY <2>1 DEF CapQuantity
  <2>3. CapQuantityVec(q, adv) = (IF q > 0 THEN 1 ELSE IF q < 0 THEN -1 ELSE 0) * m
    BY <1>1, <1>3 DEF CapQuantityVec
  <2> QED
    BY <1>1, <2>2, <2>3
<1> QED
  BY <1>2, <1>3

\* What the broker charges for an order and what the backtest charges for it are equal,
\* for any rates, sizes, prices and volumes, if the square root is a whole number of units.
THEOREM CostModelsAgree == ASSUME RootIsWhole PROVE CostsSpec => []ScalarAgreesWithVector
<1>1. CostsInit => OrderType
  BY DEF CostsInit, NoOrder, OrderType
<1>2. OrderType /\ [NewOrder]_order => OrderType'
  BY CostsAssumption DEF NewOrder, OrderType
<1>3. OrderType => ScalarAgreesWithVector
  BY CostsAgree, ImpactsAgree, CapsAgree DEF OrderType, ScalarAgreesWithVector
<1> QED
  BY <1>1, <1>2, <1>3, PTL DEF CostsSpec

-----------------------------------------------------------------------------
(***************************************************************************)
(* What is reported.                                                       *)
(***************************************************************************)
\* A curve over some sessions, which starts with the capital.
IsCurve(c) ==
    /\ DOMAIN c \in SUBSET (1 .. LastSession) /\ DOMAIN c # {}
    /\ \A d \in DOMAIN c : c[d] \in Int
    /\ c[Min(DOMAIN c)] = StartEquity

\* Sets of dates have a first and a last.
LEMMA Dates ==
    ASSUME NEW T \in SUBSET (1 .. LastSession)
    PROVE  /\ IsFiniteSet(T) /\ Cardinality(T) \in Nat /\ \A d \in T : d \in Int
           /\ T # {} => /\ Min(T) \in T /\ Max(T) \in T
                        /\ \A d \in T : Min(T) <= d /\ d <= Max(T)
<1>1. IsFiniteSet(1 .. LastSession)
  BY ReportAssumption, FS_Interval
<1>2. IsFiniteSet(T) /\ \A d \in T : d \in Int
  <2>1. IsFiniteSet(T)
    BY <1>1, FS_Subset
  <2>2. 1 .. LastSession \in SUBSET Int
    BY ReportAssumption
  <2> QED
    BY <2>1, <2>2
<1>3. T # {} => Min(T) \in T /\ Max(T) \in T /\ \A d \in T : Min(T) <= d /\ d <= Max(T)
  BY <1>2, Largest, Smallest
<1> QED
  BY <1>2, <1>3, FS_CardinalityType

\* The high until a session is some session's equity, and no smaller than any.
LEMMA HighIs ==
    ASSUME NEW c, IsCurve(c), NEW d \in DOMAIN c
    PROVE  /\ High(c, d) \in Int /\ High(c, d) >= StartEquity /\ c[d] <= High(c, d)
           /\ \E k \in DOMAIN c : k <= d /\ c[k] = High(c, d)
           /\ \A k \in DOMAIN c : k <= d => c[k] <= High(c, d)
<1> DEFINE B == Before(c, d) \cup {d}
           V == {c[k] : k \in B}
           f == [k \in B |-> c[k]]
<1>1. B \in SUBSET DOMAIN c /\ B \in SUBSET (1 .. LastSession) /\ d \in B
  BY DEF Before, IsCurve
<1>2. \A k \in DOMAIN c : k \in Int /\ (k \in B <=> k <= d)
  BY ReportAssumption DEF Before, IsCurve
<1> HIDE DEF B
<1>3. IsFiniteSet(B)
  BY <1>1, Dates
<1>4. f \in Surjection(B, V)
  BY DEF Surjection
<1>5. IsFiniteSet(V)
  <2> HIDE DEF f, V
  <2> QED
    BY <1>3, <1>4, FS_Surjection
<1>6. V # {} /\ \A v \in V : v \in Int
  BY <1>1 DEF IsCurve
<1>7. Max(V) \in V /\ \A v \in V : v <= Max(V)
  <2> HIDE DEF V
  <2> QED
    BY <1>5, <1>6, Largest
<1>8. High(c, d) = Max(V)
  BY DEF High, B
<1>9. PICK h : h = Max(V)
  OBVIOUS
<1>10. h \in V /\ \A v \in V : v <= h
  BY <1>7, <1>9
<1>11. PICK k \in B : c[k] = h
  BY <1>10
<1>12. h \in Int /\ k \in DOMAIN c /\ k <= d
  BY <1>1, <1>2, <1>6, <1>10, <1>11
<1>13. \A j \in DOMAIN c : j <= d => c[j] <= h
  BY <1>2, <1>10
<1>14. Min(DOMAIN c) \in DOMAIN c /\ Min(DOMAIN c) <= d
  BY Dates DEF IsCurve
<1>15. StartEquity <= h
  BY <1>13, <1>14 DEF IsCurve
<1>16. d <= d
  BY <1>2
<1> QED
  BY <1>8, <1>9, <1>11, <1>12, <1>13, <1>15, <1>16, ReportAssumption

\* Under water is below the high.
LEMMA UnderwaterIs ==
    ASSUME NEW c, IsCurve(c), NEW d \in DOMAIN c
    PROVE  Underwater(c, d) <=> c[d] < High(c, d)
<1>1. PICK h \in Int : /\ h = High(c, d) /\ c[d] <= h
                       /\ (\E k \in DOMAIN c : k <= d /\ c[k] = h)
                       /\ \A k \in DOMAIN c : k <= d => c[k] <= h
  BY HighIs
<1>2. \A k \in DOMAIN c : k \in Int /\ c[k] \in Int
  BY ReportAssumption DEF IsCurve
<1>3. ASSUME Underwater(c, d) PROVE c[d] < h
  <2>1. PICK k \in DOMAIN c : k < d /\ c[k] > c[d]
    BY <1>3 DEF Underwater
  <2>2. c[k] <= h
    BY <1>1, <1>2, <2>1
  <2> QED
    BY <1>2, <2>1, <2>2
<1>4. ASSUME c[d] < h PROVE Underwater(c, d)
  <2>1. PICK k \in DOMAIN c : k <= d /\ c[k] = h
    BY <1>1
  <2>2. k # d
    BY <1>2, <1>4, <2>1
  <2> QED
    BY <1>2, <1>4, <2>1, <2>2 DEF Underwater
<1> QED
  BY <1>1, <1>3, <1>4

\* Fractions with positive denominators compare transitively.
LEMMA Cross ==
    ASSUME NEW a \in Int, NEW b \in Int, NEW c \in Int, NEW h \in Int, NEW i \in Int, NEW j \in Int,
           h > 0, i > 0, j > 0, a * i <= b * h, b * j <= c * i
    PROVE  a * j <= c * h
<1>1. PICK ai \in Int, bh \in Int, bj \in Int, ci \in Int, aj \in Int, ch \in Int :
         ai = a * i /\ bh = b * h /\ bj = b * j /\ ci = c * i /\ aj = a * j /\ ch = c * h
  OBVIOUS
<1>2. ai <= bh /\ bj <= ci
  BY <1>1
<1>3. j * ai <= j * bh
  BY <1>2, Product
<1>4. h * bj <= h * ci
  BY <1>2, Product
<1>5. j * bh = h * bj
  BY <1>1
<1>6. i * aj = j * ai /\ i * ch = h * ci
  BY <1>1
<1>7. i * aj <= i * ch
  <2>1. PICK u \in Int, v \in Int, w \in Int, x \in Int :
           u = j * ai /\ v = j * bh /\ w = h * bj /\ x = h * ci
    OBVIOUS
  <2> QED
    BY <1>3, <1>4, <1>5, <1>6, <2>1
<1> QED
  BY <1>1, <1>7, Cancel

\* There is a session with the worst drawdown.
LEMMA WorstIs ==
    ASSUME NEW c, IsCurve(c)
    PROVE  /\ Worst(c) \in DOMAIN c
           /\ \A k \in DOMAIN c : c[Worst(c)] * High(c, k) <= c[k] * High(c, Worst(c))
<1> DEFINE S == DOMAIN c
           NoWorse(d, k) == c[d] * High(c, k) <= c[k] * High(c, d)
           P == {T \in SUBSET S : T # {} => \E d \in T : \A k \in T : NoWorse(d, k)}
<1>1. IsFiniteSet(S) /\ S # {}
  BY Dates DEF IsCurve
<1>2. ASSUME NEW d \in S PROVE c[d] \in Int /\ High(c, d) \in Int /\ High(c, d) > 0
  <2>1. c[d] \in Int
    BY DEF IsCurve
  <2>2. High(c, d) \in Int /\ High(c, d) >= StartEquity
    BY HighIs
  <2>3. StartEquity \in Nat \ {0}
    BY ReportAssumption
  <2> QED
    BY <2>1, <2>2, <2>3
<1>3. \A d, k \in S : NoWorse(d, k) \/ NoWorse(k, d)
  <2> SUFFICES ASSUME NEW d \in S, NEW k \in S PROVE NoWorse(d, k) \/ NoWorse(k, d)
    OBVIOUS
  <2>1. PICK u \in Int, v \in Int : u = c[d] * High(c, k) /\ v = c[k] * High(c, d)
    BY <1>2
  <2> QED
    BY <2>1
<1>4. \A d, k, l \in S : NoWorse(d, k) /\ NoWorse(k, l) => NoWorse(d, l)
  <2> SUFFICES ASSUME NEW d \in S, NEW k \in S, NEW l \in S, NoWorse(d, k), NoWorse(k, l)
               PROVE  NoWorse(d, l)
    OBVIOUS
  <2> QED
    BY <1>2, Cross
<1> HIDE DEF NoWorse
<1>5. {} \in P
  OBVIOUS
<1>6. ASSUME NEW T \in SUBSET S, NEW x \in S, T \in P, x \notin T PROVE T \cup {x} \in P
  <2>1. CASE T = {}
    BY <1>3, <2>1
  <2>2. CASE T # {}
    <3>1. PICK d \in T : \A k \in T : NoWorse(d, k)
      BY <1>6, <2>2
    <3>2. CASE NoWorse(d, x)
      BY <3>1, <3>2
    <3>3. CASE NoWorse(x, d)
      BY <1>3, <1>4, <3>1, <3>3
    <3> QED
      BY <1>3, <3>1, <3>2, <3>3
  <2> QED
    BY <2>1, <2>2
<1>7. S \in P
  <2> HIDE DEF P
  <2> QED
    BY <1>1, <1>5, <1>6, SetInduction
<1>8. \E d \in S : \A k \in S : NoWorse(d, k)
  BY <1>1, <1>7
<1>9. \A d, k \in S : NoWorse(d, k) <=> ~Deeper(c, k, d)
  <2> SUFFICES ASSUME NEW d \in S, NEW k \in S PROVE NoWorse(d, k) <=> ~Deeper(c, k, d)
    OBVIOUS
  <2>1. PICK u \in Int, v \in Int : u = c[d] * High(c, k) /\ v = c[k] * High(c, d)
    BY <1>2
  <2> QED
    BY <2>1 DEF Deeper, NoWorse
<1>10. \E d \in DOMAIN c : \A k \in DOMAIN c : ~Deeper(c, k, d)
  BY <1>8, <1>9
<1>11. Worst(c) \in DOMAIN c /\ \A k \in DOMAIN c : ~Deeper(c, k, Worst(c))
  BY <1>10 DEF Worst
<1> QED
  BY <1>9, <1>11 DEF NoWorse
-----------------------------------------------------------------------------
\* Sessions with a return above zero.
Hits(c) == {d \in DOMAIN c : PositiveReturn(c, d)}

\* Equity stays above zero.
Solvent(c) == \A d \in DOMAIN c : c[d] > 0

\* The session before.
LEMMA BeforeIs ==
    ASSUME NEW c, IsCurve(c), NEW d \in DOMAIN c, Before(c, d) # {}
    PROVE  /\ Max(Before(c, d)) \in DOMAIN c /\ Max(Before(c, d)) < d
           /\ \A k \in DOMAIN c : k < d => k <= Max(Before(c, d))
<1>1. Before(c, d) \in SUBSET (1 .. LastSession)
  BY DEF Before, IsCurve
<1>2. PICK m : m = Max(Before(c, d))
  OBVIOUS
<1>3. m \in Before(c, d) /\ \A k \in Before(c, d) : k <= m
  BY <1>1, <1>2, Dates
<1> QED
  BY <1>2, <1>3 DEF Before

\* Above zero a hit is a session that closes higher than the one before.
LEMMA HitsRise ==
    ASSUME NEW c, IsCurve(c), Solvent(c), NEW d \in DOMAIN c
    PROVE  PositiveReturn(c, d) <=> Before(c, d) # {} /\ c[d] > c[Max(Before(c, d))]
BY BeforeIs DEF PositiveReturn, Solvent

\* Without hits no session closes above an earlier one.
LEMMA NoHits ==
    ASSUME NEW c, IsCurve(c), Solvent(c), Hits(c) = {}, NEW k \in DOMAIN c, NEW d \in DOMAIN c, k <= d
    PROVE  c[d] <= c[k]
<1> DEFINE Bad == {e \in DOMAIN c : \E l \in DOMAIN c : l <= e /\ c[e] > c[l]}
<1>1. Bad \in SUBSET Nat /\ \A e \in DOMAIN c : e \in Int /\ c[e] \in Int
  BY ReportAssumption DEF IsCurve
<1>2. ASSUME Bad # {} PROVE FALSE
  <2>1. PICK e \in Bad : \A x \in Bad : e <= x
    <3> HIDE DEF Bad
    <3> QED
      BY <1>1, <1>2, LeastNat
  <2>2. PICK l \in DOMAIN c : l <= e /\ c[e] > c[l]
    BY <2>1
  <2>3. l < e
    BY <1>1, <2>2
  <2>4. l \in Before(c, e)
    BY <2>3 DEF Before
  <2>5. PICK m : m = Max(Before(c, e))
    OBVIOUS
  <2>6. m \in DOMAIN c /\ m < e /\ l <= m
    BY <2>1, <2>3, <2>4, <2>5, BeforeIs
  <2>7. m \notin Bad
    BY <1>1, <2>1, <2>6
  <2>8. c[m] <= c[l]
    BY <1>1, <2>6, <2>7
  <2>9. ~(c[e] > c[m])
    BY <2>1, <2>4, <2>5, HitsRise DEF Hits
  <2> QED
    BY <1>1, <2>1, <2>2, <2>6, <2>8, <2>9
<1>3. d \notin Bad
  BY <1>2
<1> QED
  BY <1>1, <1>3

\* How a run above zero ends tells whether it has hits, if it was never under water.
LEMMA EndsAbove ==
    ASSUME NEW c, IsCurve(c), Solvent(c)
    PROVE  /\ Cardinality(Hits(c)) \in Nat
           /\ Cardinality(Hits(c)) = 0 => c[Max(DOMAIN c)] <= StartEquity
           /\ (\A d \in DOMAIN c : ~Underwater(c, d)) =>
                 (Cardinality(Hits(c)) > 0 <=> c[Max(DOMAIN c)] > StartEquity)
<1>1. PICK first, final : first = Min(DOMAIN c) /\ final = Max(DOMAIN c)
  OBVIOUS
<1>2. /\ first \in DOMAIN c /\ final \in DOMAIN c /\ c[first] = StartEquity
      /\ \A d \in DOMAIN c : d \in Int /\ c[d] \in Int /\ first <= d /\ d <= final
  BY <1>1, Dates DEF IsCurve
<1>3. Hits(c) \in SUBSET (1 .. LastSession)
  BY DEF Hits, IsCurve
<1>4. Cardinality(Hits(c)) \in Nat /\ (Cardinality(Hits(c)) = 0 <=> Hits(c) = {})
  BY <1>3, Dates, FS_EmptySet
<1>5. Hits(c) = {} => c[final] <= c[first]
  BY <1>2, NoHits
<1>6. ASSUME \A d \in DOMAIN c : ~Underwater(c, d), Hits(c) # {} PROVE c[final] > c[first]
  <2>1. PICK d \in DOMAIN c : Before(c, d) # {} /\ c[d] > c[Max(Before(c, d))]
    BY <1>6, HitsRise DEF Hits
  <2>2. PICK m : m = Max(Before(c, d))
    OBVIOUS
  <2>3. m \in DOMAIN c /\ m < d /\ c[d] > c[m]
    BY <2>1, <2>2, BeforeIs
  <2>4. \A x, y \in DOMAIN c : x <= y => c[x] <= c[y]
    BY <1>2, <1>6 DEF Underwater
  <2>5. c[first] <= c[m] /\ c[d] <= c[final]
    BY <1>2, <2>3, <2>4
  <2> QED
    BY <1>2, <2>3, <2>5
<1> QED
  BY <1>1, <1>2, <1>4, <1>5, <1>6, ReportAssumption

\* What the worst drawdown says of every drop, and of being under water.
LEMMA WorstDrawdown ==
    ASSUME NEW c, IsCurve(c), NEW e, e = c[Worst(c)], NEW h, h = High(c, Worst(c))
    PROVE  /\ e < h <=> \E d \in DOMAIN c : Underwater(c, d)
           /\ e >= 0 => \A k, d \in DOMAIN c : k <= d => c[d] * h >= c[k] * e
<1>1. Worst(c) \in DOMAIN c /\ \A k \in DOMAIN c : e * High(c, k) <= c[k] * h
  BY WorstIs
<1>2. e \in Int /\ h \in Int /\ h > 0 /\ e <= h
  <2>1. PICK w \in DOMAIN c : w = Worst(c)
    BY <1>1
  <2>2. e = c[w] /\ h = High(c, w) /\ c[w] \in Int
    BY <2>1 DEF IsCurve
  <2>3. High(c, w) \in Int /\ High(c, w) >= StartEquity /\ c[w] <= High(c, w)
    BY HighIs
  <2> QED
    BY <2>2, <2>3, ReportAssumption
<1>3. \A d \in DOMAIN c : c[d] \in Int /\ High(c, d) \in Int /\ c[d] <= High(c, d)
  BY HighIs DEF IsCurve
<1>4. e < h => \E d \in DOMAIN c : Underwater(c, d)
  BY <1>1, UnderwaterIs
<1>5. ASSUME NEW d \in DOMAIN c, Underwater(c, d) PROVE e < h
  <2> SUFFICES ASSUME e = h PROVE FALSE
    BY <1>2
  <2>1. PICK x \in Int, y \in Int : x = c[d] /\ y = High(c, d)
    BY <1>3
  <2>2. x < y
    BY <1>5, <2>1, UnderwaterIs
  <2>3. h * y <= h * x
    <3>1. e * y <= x * h
      BY <1>1, <2>1
    <3> QED
      BY <1>2, <3>1
  <2>4. y <= x
    BY <1>2, <2>3, Cancel
  <2> QED
    BY <2>1, <2>2, <2>4
<1>6. ASSUME e >= 0, NEW k \in DOMAIN c, NEW d \in DOMAIN c, k <= d PROVE c[d] * h >= c[k] * e
  <2>1. PICK x \in Int, y \in Int, z \in Int : x = c[d] /\ y = High(c, d) /\ z = c[k]
    BY <1>3
  <2>2. z <= y
    BY <1>6, <2>1, HighIs
  <2>3. e * z <= e * y
    BY <1>2, <1>6, <2>2, Product
  <2>4. e * y <= x * h
    BY <1>1, <2>1
  <2>5. PICK u \in Int, v \in Int, w \in Int : u = e * z /\ v = e * y /\ w = x * h
    BY <1>2
  <2>6. u <= w /\ z * e = u
    BY <1>2, <2>3, <2>4, <2>5
  <2> QED
    BY <2>1, <2>5, <2>6
<1> QED
  BY <1>4, <1>5, <1>6
-----------------------------------------------------------------------------
\* The sessions in their order.
Turns(c) == Sorted([d \in DOMAIN c |-> d])

\* What the count of drawdown days carries from session to session.
LongerAcc == [current : Nat, longest : Nat]
NoneBelow == [current |-> 0, longest |-> 0]

\* One more session makes the stretch longer or ends it.
LEMMA LongerIs ==
    ASSUME NEW acc \in LongerAcc, NEW below \in BOOLEAN, NEW next, next = Longer(acc, below)
    PROVE  /\ next \in LongerAcc
           /\ next.current = IF below THEN acc.current + 1 ELSE 0
           /\ next.longest = IF next.current > acc.longest THEN next.current ELSE acc.longest
<1>1. acc.current \in Nat /\ acc.longest \in Nat
  BY DEF LongerAcc
<1>2. PICK n \in Nat : n = IF below THEN acc.current + 1 ELSE 0
  BY <1>1
<1>3. PICK l \in Nat : l = IF n > acc.longest THEN n ELSE acc.longest
  BY <1>1
<1>4. next = [current |-> n, longest |-> l]
  BY <1>2, <1>3 DEF Longer
<1> QED
  BY <1>2, <1>3, <1>4 DEF LongerAcc

\* The fold takes the sessions one by one.
LEMMA DaysFold ==
    ASSUME NEW c, NEW n \in Nat, NEW t, t = Turns(c), DOMAIN t = 1 .. n
    PROVE  \E acc : /\ acc[0] = NoneBelow
                    /\ \A k \in 1 .. n : acc[k] = Longer(acc[k - 1], Underwater(c, t[k]))
                    /\ MaxDrawdownDays(c) = acc[n].longest
<1> DEFINE s == Turns(c)
           Is(it) == it = [T \in SUBSET DOMAIN s |->
                             IF T = {} THEN NoneBelow
                             ELSE Longer(it[T \ {Max(T)}], Underwater(c, s[Max(T)]))]
           G == [q \in LongerAcc \X (1 .. n) |-> Longer(q[1], Underwater(c, s[q[2]]))]
           jt == CHOOSE it : Is(it)
           acc == [k \in 0 .. n |-> jt[1 .. k]]
<1>0. s = t /\ DOMAIN s = 1 .. n
  OBVIOUS
<1> HIDE DEF s
<1>1. NoneBelow \in LongerAcc
  BY DEF NoneBelow, LongerAcc
<1>2. \A d : Underwater(c, d) \in BOOLEAN
  BY DEF Underwater
<1>3. G \in [LongerAcc \X (1 .. n) -> LongerAcc]
  <2> SUFFICES ASSUME NEW a \in LongerAcc, NEW k \in 1 .. n
               PROVE  Longer(a, Underwater(c, s[k])) \in LongerAcc
    OBVIOUS
  <2> QED
    BY <1>2, LongerIs
<1>4. PICK it \in [SUBSET (1 .. n) -> LongerAcc] : IsFold(it, G, NoneBelow, n)
  <2> HIDE DEF G
  <2> QED
    BY <1>1, <1>3, FoldsExist
<1>5. Is(it)
  <2>1. \A T \in SUBSET (1 .. n) : T # {} => T \ {Max(T)} \in SUBSET (1 .. n) /\ Max(T) \in 1 .. n
    BY LastOf
  <2>2. \A T \in SUBSET (1 .. n) : T # {} =>
           G[<<it[T \ {Max(T)}], Max(T)>>] = Longer(it[T \ {Max(T)}], Underwater(c, s[Max(T)]))
    BY <1>4, <2>1
  <2> HIDE DEF G
  <2> QED
    BY <1>0, <1>4, <2>2 DEF IsFold
<1>6. Is(jt)
  <2> HIDE DEF Is
  <2> QED
    BY <1>5, Zenon
<1>7. MaxDrawdownDays(c) = jt[DOMAIN s].longest
  BY DEF s, Turns, MaxDrawdownDays, FoldLeft, MapThenFoldSet, NoneBelow
<1> HIDE DEF jt
<1>8. acc[0] = NoneBelow
  <2>1. 1 .. 0 = {}
    OBVIOUS
  <2> QED
    BY <1>0, <1>6, <2>1
<1>9. ASSUME NEW k \in 1 .. n PROVE acc[k] = Longer(acc[k - 1], Underwater(c, s[k]))
  <2>1. (1 .. k) # {} /\ Max(1 .. k) = k /\ (1 .. k) \ {Max(1 .. k)} = 1 .. (k - 1)
    <3>1. k \in Nat /\ k >= 1
      OBVIOUS
    <3> QED
      BY ONLY <3>1, PrefixOf
  <2>2. 1 .. k \in SUBSET (1 .. n)
    OBVIOUS
  <2>3. jt[1 .. k] = Longer(jt[1 .. (k - 1)], Underwater(c, s[k]))
    BY <1>0, <1>6, <2>1, <2>2
  <2> QED
    BY <2>3
<1>10. acc[n] = jt[DOMAIN s]
  BY <1>0
<1> HIDE DEF acc
<1>11. MaxDrawdownDays(c) = acc[n].longest /\ t = s
  BY <1>0, <1>7, <1>10
<1> QED
  BY <1>8, <1>9, <1>11

\* Sessions i to j in their order, all under water.
AllBelow(c, s, i, j) == \A l \in i .. j : Underwater(c, s[l])

\* The current stretch is the longest that ends here, the longest one the
\* longest of all so far.
DaysInv(c, s, k, acc) ==
    /\ acc \in LongerAcc /\ acc.current <= k
    /\ AllBelow(c, s, k - acc.current + 1, k)
    /\ \A i \in 1 .. k : AllBelow(c, s, i, k) => k - i + 1 <= acc.current
    /\ \E j \in 0 .. k : acc.longest <= j /\ AllBelow(c, s, j - acc.longest + 1, j)
    /\ \A i, j \in 1 .. k : i <= j /\ AllBelow(c, s, i, j) => j - i + 1 <= acc.longest

\* One session more.
LEMMA DaysStep ==
    ASSUME NEW c, NEW s, NEW k \in Nat, NEW acc, DaysInv(c, s, k, acc),
           NEW next, next = Longer(acc, Underwater(c, s[k + 1]))
    PROVE  DaysInv(c, s, k + 1, next)
<1>1. PICK below \in BOOLEAN : below = Underwater(c, s[k + 1])
  BY DEF Underwater
<1>2. acc \in LongerAcc /\ acc.current \in Nat /\ acc.longest \in Nat
  BY DEF DaysInv, LongerAcc
<1>3. /\ next \in LongerAcc /\ next.current = (IF below THEN acc.current + 1 ELSE 0)
      /\ next.longest = (IF next.current > acc.longest THEN next.current ELSE acc.longest)
  BY <1>1, <1>2, LongerIs
<1>4. next.current \in Nat /\ next.longest \in Nat
  BY <1>3 DEF LongerAcc
<1>5. PICK a \in Nat, b \in Nat, x \in Nat, y \in Nat :
         a = acc.current /\ b = acc.longest /\ x = next.current /\ y = next.longest
  BY <1>2, <1>4
<1>6. /\ a <= k /\ AllBelow(c, s, k - a + 1, k)
      /\ \A i \in 1 .. k : AllBelow(c, s, i, k) => k - i + 1 <= a
      /\ \E j \in 0 .. k : b <= j /\ AllBelow(c, s, j - b + 1, j)
      /\ \A i, j \in 1 .. k : i <= j /\ AllBelow(c, s, i, j) => j - i + 1 <= b
  BY <1>5 DEF DaysInv
<1>7. x = (IF below THEN a + 1 ELSE 0) /\ y = (IF x > b THEN x ELSE b)
  BY <1>3, <1>5
<1>8. x <= k + 1 /\ AllBelow(c, s, k + 1 - x + 1, k + 1)
  <2>1. CASE below
    <3>1. k + 1 - x + 1 = k - a + 1
      BY <1>6, <1>7, <2>1
    <3>2. \A l \in (k - a + 1) .. (k + 1) : l \in (k - a + 1) .. k \/ l = k + 1
      BY <1>6
    <3>3. AllBelow(c, s, k - a + 1, k + 1)
      BY <1>1, <1>6, <2>1, <3>2 DEF AllBelow
    <3> QED
      BY <1>6, <1>7, <2>1, <3>1, <3>3
  <2>2. CASE ~below
    <3>1. (k + 1 - x + 1) .. (k + 1) = {}
      BY <1>7, <2>2
    <3> QED
      BY <1>7, <2>2, <3>1 DEF AllBelow
  <2> QED
    BY <2>1, <2>2
<1>9. ASSUME NEW i \in 1 .. (k + 1), AllBelow(c, s, i, k + 1) PROVE k + 1 - i + 1 <= x
  <2>1. k + 1 \in i .. (k + 1)
    OBVIOUS
  <2>2. below
    BY <1>1, <1>9, <2>1 DEF AllBelow
  <2>3. CASE i = k + 1
    BY <1>7, <2>2, <2>3
  <2>4. CASE i # k + 1
    <3>1. i \in 1 .. k /\ \A l \in i .. k : l \in i .. (k + 1)
      BY <2>4
    <3>2. AllBelow(c, s, i, k)
      BY <1>9, <3>1 DEF AllBelow
    <3> QED
      BY <1>6, <1>7, <2>2, <3>1, <3>2
  <2> QED
    BY <2>3, <2>4
<1>10. \E j \in 0 .. (k + 1) : y <= j /\ AllBelow(c, s, j - y + 1, j)
  <2>1. CASE x > b
    <3>1. y = x /\ k + 1 \in 0 .. (k + 1)
      BY <1>7, <2>1
    <3> QED
      BY <1>8, <3>1
  <2>2. CASE ~(x > b)
    <3>1. y = b
      BY <1>7, <2>2
    <3> QED
      BY <1>6, <3>1
  <2> QED
    BY <2>1, <2>2
<1>11. ASSUME NEW i \in 1 .. (k + 1), NEW j \in 1 .. (k + 1), i <= j, AllBelow(c, s, i, j)
       PROVE  j - i + 1 <= y
  <2>1. CASE j = k + 1
    <3>1. k + 1 - i + 1 <= x
      BY <1>9, <1>11, <2>1
    <3> QED
      BY <1>7, <2>1, <3>1
  <2>2. CASE j # k + 1
    <3>1. i \in 1 .. k /\ j \in 1 .. k
      BY <1>11, <2>2
    <3>2. j - i + 1 <= b
      BY <1>6, <1>11, <3>1
    <3> QED
      BY <1>7, <3>1, <3>2
  <2> QED
    BY <2>1, <2>2
<1> QED
  BY <1>3, <1>5, <1>8, <1>9, <1>10, <1>11 DEF DaysInv
\* The sessions of a curve in their order.
InTurn(c, s, n) ==
    /\ n \in Nat /\ DOMAIN s = 1 .. n
    /\ \A k \in 1 .. n : s[k] \in DOMAIN c
    /\ \A d \in DOMAIN c : \E k \in 1 .. n : s[k] = d
    /\ \A k, l \in 1 .. n : k <= l <=> s[k] <= s[l]

\* The place of a session in a curve's turns.
LEMMA SessionsInTurn ==
    ASSUME NEW c, IsCurve(c), NEW n, n = Cardinality(DOMAIN c),
           NEW s, s = Turns(c)
    PROVE  InTurn(c, s, n)
<1> DEFINE key == [d \in DOMAIN c |-> d]
<1>1. DOMAIN key = DOMAIN c /\ \A d \in DOMAIN c : key[d] = d /\ d \in Int
  BY Dates DEF IsCurve
<1>2. IsFiniteSet(DOMAIN c)
  BY Dates DEF IsCurve
<1>3. s = Sorted(key)
  BY DEF Turns
<1> HIDE DEF key
<1>4. Keys(key) /\ n = Cardinality(DOMAIN key)
  BY <1>1, <1>2 DEF Keys
<1>5. PICK turn, D : turn = SortOrder(key) /\ D = DOMAIN key /\ D = DOMAIN c
  BY <1>1
<1>6. /\ n \in Nat /\ turn \in [1 .. n -> D]
      /\ \A d \in D : Rank(key, d) \in 1 .. n /\ turn[Rank(key, d)] = d
      /\ \A k, l \in 1 .. n : k <= l <=> NotAfter(key, turn[k], turn[l])
  BY ONLY <1>4, <1>5, SortOrderIs
<1>7. DOMAIN s = 1 .. n /\ \A k \in 1 .. n : s[k] = key[turn[k]]
  BY <1>3, <1>4, <1>5 DEF Sorted
<1>8. \A k \in 1 .. n : s[k] = turn[k] /\ s[k] \in D
  BY <1>1, <1>5, <1>6, <1>7
<1>9. \A d, e \in D : NotAfter(key, d, e) <=> d <= e
  BY <1>1, <1>5 DEF NotAfter
<1>10. \A k, l \in 1 .. n : k <= l <=> s[k] <= s[l]
  BY <1>6, <1>8, <1>9
<1> QED
  BY <1>5, <1>6, <1>7, <1>8, <1>10 DEF InTurn

\* The sessions between two of them.
LEMMA SliceIs ==
    ASSUME NEW c, IsCurve(c), NEW n, NEW s, InTurn(c, s, n), NEW i \in 1 .. n, NEW j \in 1 .. n, i <= j
    PROVE  /\ \A d \in DOMAIN c : s[i] <= d /\ d <= s[j] => \E l \in i .. j : d = s[l]
           /\ \A l \in i .. j : s[l] \in DOMAIN c /\ s[i] <= s[l] /\ s[l] <= s[j]
           /\ \A D : (\A d : d \in D <=> \E l \in i .. j : d = s[l]) => Cardinality(D) = j - i + 1
<1>1. /\ n \in Nat /\ (\A k \in 1 .. n : s[k] \in DOMAIN c /\ s[k] \in Int)
      /\ (\A d \in DOMAIN c : \E k \in 1 .. n : s[k] = d)
      /\ \A k, l \in 1 .. n : k <= l <=> s[k] <= s[l]
  BY Dates DEF InTurn, IsCurve
<1>2. ASSUME NEW d \in DOMAIN c, s[i] <= d, d <= s[j] PROVE \E l \in i .. j : d = s[l]
  <2>1. PICK l \in 1 .. n : s[l] = d
    BY <1>1
  <2>2. i <= l /\ l <= j
    BY <1>1, <1>2, <2>1
  <2> QED
    BY <2>1, <2>2
<1>3. \A l \in i .. j : l \in 1 .. n /\ i <= l /\ l <= j
  BY <1>1
<1>4. \A l \in i .. j : s[l] \in DOMAIN c /\ s[i] <= s[l] /\ s[l] <= s[j]
  BY <1>1, <1>3
<1>5. ASSUME NEW D, \A d : d \in D <=> \E l \in i .. j : d = s[l]
      PROVE  Cardinality(D) = j - i + 1
  <2> DEFINE f == [l \in i .. j |-> s[l]]
  <2>1. \A k, l \in i .. j : s[k] = s[l] => k = l
    <3> SUFFICES ASSUME NEW k \in i .. j, NEW l \in i .. j, s[k] = s[l] PROVE k = l
      OBVIOUS
    <3>1. k \in 1 .. n /\ l \in 1 .. n
      BY <1>3
    <3>2. s[k] <= s[l] /\ s[l] <= s[k]
      BY <1>1, <3>1
    <3> QED
      BY <1>1, <3>1, <3>2
  <2>2. f \in Bijection(i .. j, D)
    BY <1>5, <2>1 DEF Bijection, Injection, Surjection, IsInjective
  <2>3. IsFiniteSet(i .. j) /\ Cardinality(i .. j) = j - i + 1
    BY FS_Interval
  <2>4. ExistsBijection(i .. j, D)
    <3> HIDE DEF f
    <3> QED
      BY <2>2 DEF ExistsBijection
  <2> QED
    BY <2>3, <2>4, FS_Bijection
<1> QED
  BY <1>2, <1>4, <1>5

\* Stretches of dates without a session at a high, and how many sessions each has.
SessionsIn(c, q) == DOMAIN c \cap q[1] .. q[2]
Stretches(c) ==
    {q \in (1 .. LastSession) \X (1 .. LastSession) : \A d \in SessionsIn(c, q) : Underwater(c, d)}
Counts(c) == {Cardinality(SessionsIn(c, q)) : q \in Stretches(c)}

\* The days that are reported are the longest run of sessions under water.
LEMMA DaysInTurn ==
    ASSUME NEW c, IsCurve(c), NEW n, n = Cardinality(DOMAIN c), NEW s, s = Turns(c)
    PROVE  \E acc : DaysInv(c, s, n, acc) /\ MaxDrawdownDays(c) = acc.longest
<1>1. InTurn(c, s, n)
  BY SessionsInTurn
<1>2. n \in Nat /\ DOMAIN s = 1 .. n
  BY <1>1 DEF InTurn
<1>3. PICK acc : /\ acc[0] = NoneBelow
                 /\ \A k \in 1 .. n : acc[k] = Longer(acc[k - 1], Underwater(c, s[k]))
                 /\ MaxDrawdownDays(c) = acc[n].longest
  BY <1>2, DaysFold
<1>4. MaxDrawdownDays(c) = acc[n].longest
  BY <1>3
<1> DEFINE P == {k \in Nat : k <= n => DaysInv(c, s, k, acc[k])}
<1>5. 0 \in P
  <2>1. NoneBelow \in LongerAcc /\ NoneBelow.current = 0 /\ NoneBelow.longest = 0
    BY DEF NoneBelow, LongerAcc
  <2>2. AllBelow(c, s, 1, 0)
    BY DEF AllBelow
  <2>3. DaysInv(c, s, 0, NoneBelow)
    BY <2>1, <2>2 DEF DaysInv
  <2> QED
    BY <1>3, <2>3
<1>6. ASSUME NEW k \in Nat, k \in P PROVE k + 1 \in P
  <2> SUFFICES ASSUME k + 1 <= n PROVE DaysInv(c, s, k + 1, acc[k + 1])
    OBVIOUS
  <2>1. DaysInv(c, s, k, acc[k]) /\ acc[k + 1] = Longer(acc[k], Underwater(c, s[k + 1]))
    BY <1>2, <1>3, <1>6
  <2> QED
    BY <2>1, DaysStep
<1>7. Nat \subseteq P
  <2> HIDE DEF P
  <2> QED
    BY <1>5, <1>6, NumbersFrom0
<1> QED
  BY <1>2, <1>4, <1>7

\* What MaxDrawdownDays returns: the longest stretch below an earlier high.
LEMMA DaysAre ==
    ASSUME NEW c, IsCurve(c), Cardinality(DOMAIN c) >= 2
    PROVE  /\ MaxDrawdownDays(c) \in Nat
           /\ MaxDrawdownDays(c) > 0 <=> \E d \in DOMAIN c : Underwater(c, d)
           /\ MaxDrawdownDays(c) = Max(Counts(c))
<1>1. PICK n, s : n = Cardinality(DOMAIN c) /\ s = Turns(c)
  OBVIOUS
<1>2. InTurn(c, s, n)
  BY <1>1, SessionsInTurn
<1>3. PICK acc : DaysInv(c, s, n, acc) /\ MaxDrawdownDays(c) = acc.longest
  BY <1>1, DaysInTurn
<1>4. PICK b \in Nat : b = MaxDrawdownDays(c)
  BY <1>3 DEF DaysInv, LongerAcc
<1>5. /\ \E j \in 0 .. n : b <= j /\ AllBelow(c, s, j - b + 1, j)
      /\ \A i, j \in 1 .. n : i <= j /\ AllBelow(c, s, i, j) => j - i + 1 <= b
  BY <1>3, <1>4 DEF DaysInv
<1>6. /\ n \in Nat /\ (\A k \in 1 .. n : s[k] \in DOMAIN c /\ s[k] \in Int)
      /\ (\A d \in DOMAIN c : \E k \in 1 .. n : s[k] = d)
      /\ \A k, l \in 1 .. n : k <= l <=> s[k] <= s[l]
  BY <1>2, Dates DEF InTurn, IsCurve
<1>7. PICK j \in 0 .. n : b <= j /\ AllBelow(c, s, j - b + 1, j)
  BY <1>5
<1>8. b > 0 => \E d \in DOMAIN c : Underwater(c, d)
  <2> SUFFICES ASSUME b > 0 PROVE \E d \in DOMAIN c : Underwater(c, d)
    OBVIOUS
  <2>1. j \in 1 .. n /\ j \in (j - b + 1) .. j
    BY <1>7
  <2> QED
    BY <1>6, <1>7, <2>1 DEF AllBelow
<1>9. ASSUME NEW d \in DOMAIN c, Underwater(c, d) PROVE b > 0
  <2>1. PICK k \in 1 .. n : s[k] = d
    BY <1>6
  <2>2. AllBelow(c, s, k, k)
    BY <1>6, <1>9, <2>1 DEF AllBelow
  <2>3. k - k + 1 <= b
    BY <1>5, <1>6, <2>2
  <2> QED
    BY <1>6, <2>3
<1>10. ASSUME NEW q \in Stretches(c) PROVE Cardinality(SessionsIn(c, q)) \in 0 .. b
  <2> DEFINE T == {l \in 1 .. n : q[1] <= s[l] /\ s[l] <= q[2]}
  <2>1. q[1] \in Int /\ q[2] \in Int /\ \A d \in SessionsIn(c, q) : Underwater(c, d)
    BY ReportAssumption DEF Stretches
  <2>2. \A d : d \in SessionsIn(c, q) <=> d \in DOMAIN c /\ d \in Int /\ q[1] <= d /\ d <= q[2]
    BY <2>1, Dates DEF SessionsIn, IsCurve
  <2>3. CASE T = {}
    <3>1. SessionsIn(c, q) = {}
      BY <1>6, <2>2, <2>3
    <3>2. Cardinality(SessionsIn(c, q)) = 0
      BY <3>1, FS_EmptySet
    <3> QED
      BY <3>2
  <2>4. CASE T # {}
    <3>0. T \in SUBSET (1 .. n) /\ IsFiniteSet(1 .. n)
      BY <1>6, FS_Interval
    <3>1. IsFiniteSet(T) /\ \A l \in T : l \in Int
      <4>1. IsFiniteSet(T)
        <5> HIDE DEF T
        <5> QED
          BY ONLY <3>0, FS_Subset
      <4> QED
        BY <1>6, <4>1
    <3>2. PICK i, m : i = Min(T) /\ m = Max(T)
      OBVIOUS
    <3>3. i \in T /\ m \in T /\ \A l \in T : i <= l /\ l <= m
      <4> HIDE DEF T
      <4> QED
        BY <2>4, <3>1, <3>2, Smallest, Largest
    <3>4. i \in 1 .. n /\ m \in 1 .. n /\ i <= m
      BY <3>3
    <3>5. /\ \A d \in DOMAIN c : s[i] <= d /\ d <= s[m] => \E l \in i .. m : d = s[l]
          /\ \A l \in i .. m : s[l] \in DOMAIN c /\ s[i] <= s[l] /\ s[l] <= s[m]
      BY <1>2, <3>4, SliceIs
    <3>6. q[1] <= s[i] /\ s[m] <= q[2]
      BY <3>3
    <3>7. \A d : d \in SessionsIn(c, q) <=> \E l \in i .. m : d = s[l]
      <4>1. ASSUME NEW d, d \in SessionsIn(c, q) PROVE \E l \in i .. m : d = s[l]
        <5>1. d \in DOMAIN c /\ d \in Int /\ q[1] <= d /\ d <= q[2]
          BY <2>2, <4>1
        <5>2. PICK l \in 1 .. n : s[l] = d
          BY <1>6, <5>1
        <5>3. l \in T
          BY <5>1, <5>2
        <5> QED
          BY <3>3, <3>4, <5>2, <5>3
      <4>2. ASSUME NEW l \in i .. m PROVE s[l] \in SessionsIn(c, q)
        <5>1. l \in 1 .. n /\ s[l] \in DOMAIN c /\ s[i] <= s[l] /\ s[l] <= s[m]
          BY <1>6, <3>4, <3>5
        <5> QED
          BY <1>6, <2>1, <2>2, <3>4, <3>6, <5>1
      <4> QED
        BY <4>1, <4>2
    <3>8. Cardinality(SessionsIn(c, q)) = m - i + 1
      BY <1>2, <3>4, <3>7, SliceIs
    <3>9. AllBelow(c, s, i, m)
      BY <2>1, <3>7 DEF AllBelow
    <3> QED
      BY <1>5, <3>4, <3>8, <3>9
  <2> QED
    BY <2>3, <2>4
<1>11. \E q \in Stretches(c) : Cardinality(SessionsIn(c, q)) = b
  <2>1. CASE b = 0
    <3>1. 2 \in 1 .. LastSession /\ 1 \in 1 .. LastSession
      <4>1. IsFiniteSet(1 .. LastSession) /\ Cardinality(1 .. LastSession) = LastSession
        <5>1. 1 \in Int /\ LastSession \in Int /\ LastSession >= 0
          BY ReportAssumption
        <5> QED
          BY ONLY <5>1, FS_Interval
      <4>2. Cardinality(DOMAIN c) <= LastSession
        BY <4>1, FS_Subset DEF IsCurve
      <4> QED
        BY <1>1, <1>6, <4>2, ReportAssumption
    <3>2. PICK q : q = <<2, 1>>
      OBVIOUS
    <3>3. q \in (1 .. LastSession) \X (1 .. LastSession) /\ SessionsIn(c, q) = {}
      BY <3>1, <3>2 DEF SessionsIn
    <3>4. q \in Stretches(c)
      BY <3>3 DEF Stretches
    <3> QED
      BY <2>1, <3>3, <3>4, FS_EmptySet
  <2>2. CASE b > 0
    <3>1. PICK i \in 1 .. n : i = j - b + 1 /\ i <= j /\ j \in 1 .. n
      BY <1>6, <1>7, <2>2
    <3>2. PICK q : q = <<s[i], s[j]>>
      OBVIOUS
    <3>3. s[i] \in DOMAIN c /\ s[j] \in DOMAIN c
      BY <1>6, <3>1
    <3>4. q \in (1 .. LastSession) \X (1 .. LastSession) /\ q[1] = s[i] /\ q[2] = s[j]
      BY <3>2, <3>3 DEF IsCurve
    <3>5. /\ \A d \in DOMAIN c : s[i] <= d /\ d <= s[j] => \E l \in i .. j : d = s[l]
          /\ \A l \in i .. j : s[l] \in DOMAIN c /\ s[i] <= s[l] /\ s[l] <= s[j]
      BY <1>2, <3>1, SliceIs
    <3>6. \A d : d \in SessionsIn(c, q) <=> d \in DOMAIN c /\ d \in Int /\ s[i] <= d /\ d <= s[j]
      BY <1>6, <3>1, <3>4, Dates DEF SessionsIn, IsCurve
    <3>7. \A d : d \in SessionsIn(c, q) <=> \E l \in i .. j : d = s[l]
      <4>1. \A l \in i .. j : s[l] \in Int
        BY <1>6, <3>1
      <4> QED
        BY <3>5, <3>6, <4>1
    <3>8. Cardinality(SessionsIn(c, q)) = j - i + 1
      BY <1>2, <3>1, <3>7, SliceIs
    <3>9. \A d \in SessionsIn(c, q) : Underwater(c, d)
      BY <1>7, <3>1, <3>7 DEF AllBelow
    <3> QED
      BY <3>1, <3>4, <3>8, <3>9 DEF Stretches
  <2> QED
    BY <2>1, <2>2
<1>12. Counts(c) \in SUBSET (0 .. b) /\ b \in Counts(c)
  BY <1>10, <1>11 DEF Counts
<1>13. IsFiniteSet(Counts(c)) /\ \A x \in Counts(c) : x \in Int
  <2>1. IsFiniteSet(0 .. b)
    BY FS_Interval
  <2> QED
    BY <1>12, <2>1, FS_Subset
<1>14. Max(Counts(c)) \in Counts(c) /\ b <= Max(Counts(c))
  BY <1>12, <1>13, Largest
<1>15. b = Max(Counts(c))
  BY <1>12, <1>13, <1>14
<1> QED
  BY <1>4, <1>8, <1>9, <1>15
-----------------------------------------------------------------------------
\* What PointsDescribeTheirRuns says of one point.
Fine(p) ==
    LET c == p.curve
        sessions(q) == DOMAIN c \cap q[1] .. q[2]
        below == {q \in (1 .. LastSession) \X (1 .. LastSession) :
                    \A d \in sessions(q) : \E k \in DOMAIN c : k < d /\ c[k] > c[d]}
        stats == p.stats
        solvent == \A d \in DOMAIN c : c[d] > 0
    IN /\ stats.days > 0 <=> stats.worst[1] < stats.worst[2]
       /\ solvent /\ stats.hits = 0 => p.summary.final <= p.summary.initial
       /\ solvent /\ stats.days = 0 => (stats.hits > 0 <=> p.summary.final > p.summary.initial)
       /\ stats.worst[1] >= 0 => \A k, d \in DOMAIN c :
             k <= d => c[d] * stats.worst[2] >= c[k] * stats.worst[1]
       /\ stats.days = Max({Cardinality(sessions(q)) : q \in below})

\* The point of a run over two sessions or more.
LEMMA PointIsFine ==
    ASSUME NEW c, IsCurve(c), Cardinality(DOMAIN c) >= 2, NEW v, NEW a, NEW b, NEW p, p = Point(v, c, a, b)
    PROVE  Fine(p)
<1>1. PICK days, hits, e, h, final :
         /\ days = MaxDrawdownDays(c) /\ hits = Cardinality(Hits(c))
         /\ e = c[Worst(c)] /\ h = High(c, Worst(c)) /\ final = c[Max(DOMAIN c)]
  OBVIOUS
<1>2. PICK stats : stats = PerformanceStats(c)
  OBVIOUS
<1>3. stats.days = days /\ stats.hits = hits /\ stats.worst[1] = e /\ stats.worst[2] = h
  BY <1>1, <1>2 DEF PerformanceStats, Hits
<1>4. p.curve = c /\ p.stats = stats /\ p.summary.final = final /\ p.summary.initial = StartEquity
  BY <1>1, <1>2 DEF Point, Summary
<1>5. days \in Nat /\ (days > 0 <=> \E d \in DOMAIN c : Underwater(c, d)) /\ days = Max(Counts(c))
  BY <1>1, DaysAre
<1>6. /\ e < h <=> \E d \in DOMAIN c : Underwater(c, d)
      /\ e >= 0 => \A k, d \in DOMAIN c : k <= d => c[d] * h >= c[k] * e
  BY <1>1, WorstDrawdown
<1>7. ASSUME Solvent(c)
      PROVE  /\ hits = 0 => final <= StartEquity
             /\ (\A d \in DOMAIN c : ~Underwater(c, d)) => (hits > 0 <=> final > StartEquity)
  BY <1>1, <1>7, EndsAbove
<1>8. Solvent(c) => /\ hits = 0 => final <= StartEquity
                    /\ days = 0 => (hits > 0 <=> final > StartEquity)
  BY <1>5, <1>7
<1>9. Counts(c) = {Cardinality(DOMAIN c \cap q[1] .. q[2]) :
                     q \in {r \in (1 .. LastSession) \X (1 .. LastSession) :
                              \A d \in DOMAIN c \cap r[1] .. r[2] : \E k \in DOMAIN c : k < d /\ c[k] > c[d]}}
  BY DEF Counts, Stretches, SessionsIn, Underwater
<1>10. PICK longest : longest = Max(Counts(c))
  OBVIOUS
<1>11. days = longest /\ longest = Max({Cardinality(DOMAIN c \cap q[1] .. q[2]) :
                     q \in {r \in (1 .. LastSession) \X (1 .. LastSession) :
                              \A d \in DOMAIN c \cap r[1] .. r[2] : \E k \in DOMAIN c : k < d /\ c[k] > c[d]}})
  BY <1>5, <1>9, <1>10
<1> QED
  BY <1>3, <1>4, <1>5, <1>6, <1>8, <1>11 DEF Fine, Solvent

\* Curves of a run are curves.
LEMMA CurvesAre ==
    ASSUME NEW c \in Curves, Sessions \in SUBSET (1 .. LastSession), Sessions # {}
    PROVE  IsCurve(c) /\ DOMAIN c = Sessions
BY ReportAssumption DEF Curves, IsCurve

-----------------------------------------------------------------------------
\* The grid's places that worked, and a point for each in their order.
Matches(pts, W) ==
    /\ Len(pts) = Cardinality(W)
    /\ \A k \in W : pts[Cardinality({j \in W : j <= k})].value = Grid[k]

IsSeq(s) == \E S : s \in Seq(S)

\* Appending to a sequence of anything.
LEMMA AppendedAny ==
    ASSUME NEW s, IsSeq(s), NEW e, NEW n, n = Len(s), NEW t, t = Append(s, e)
    PROVE  /\ n \in Nat /\ IsSeq(t) /\ Len(t) = n + 1
           /\ DOMAIN s = 1 .. n /\ DOMAIN t = 1 .. (n + 1)
           /\ (\A i \in 1 .. n : t[i] = s[i]) /\ t[n + 1] = e
<1>1. PICK S : s \in Seq(S)
  BY DEF IsSeq
<1>2. PICK R : R = S \cup {e}
  OBVIOUS
<1>3. s \in Seq(R) /\ e \in R
  BY <1>1, <1>2
<1>4. t \in Seq(R)
  BY <1>3, Appended
<1> QED
  BY <1>3, <1>4, Appended DEF IsSeq

\* The next place's point goes to the end.
LEMMA PlaceMore ==
    ASSUME NEW pts, IsSeq(pts), NEW m \in Nat, NEW W \in SUBSET (1 .. m), Matches(pts, W),
           NEW p, p.value = Grid[m + 1]
    PROVE  Matches(Append(pts, p), W \cup {m + 1})
<1>1. PICK n, t : n = Len(pts) /\ t = Append(pts, p)
  OBVIOUS
<1>2. /\ n \in Nat /\ Len(t) = n + 1 /\ (\A i \in 1 .. n : t[i] = pts[i]) /\ t[n + 1] = p
  BY <1>1, AppendedAny
<1>3. IsFiniteSet(W) /\ Cardinality(W) = n /\ m + 1 \notin W
  <2>1. IsFiniteSet(1 .. m)
    BY FS_Interval
  <2>2. IsFiniteSet(W)
    BY ONLY <2>1, W \in SUBSET (1 .. m), FS_Subset
  <2>3. Cardinality(W) = n
    BY <1>1 DEF Matches
  <2> QED
    BY <2>2, <2>3
<1>4. PICK X : X = W \cup {m + 1}
  OBVIOUS
<1>5. IsFiniteSet(X) /\ Cardinality(X) = n + 1
  BY <1>2, <1>3, <1>4, FS_AddElement
<1>6. ASSUME NEW k \in X PROVE t[Cardinality({j \in X : j <= k})].value = Grid[k]
  <2>1. CASE k = m + 1
    <3>1. {j \in X : j <= k} = X
      <4>1. \A j \in X : j <= k
        BY <1>4, <2>1
      <4> QED
        BY ONLY <4>1
    <3> QED
      BY <1>2, <1>5, <2>1, <3>1
  <2>2. CASE k # m + 1
    <3>1. k \in W /\ k <= m
      <4>1. k \in W
        BY <1>4, <2>2
      <4>2. \A j \in W : j <= m
        OBVIOUS
      <4> QED
        BY <4>1, <4>2
    <3>2. PICK U : U = {j \in W : j <= k}
      OBVIOUS
    <3>3. {j \in X : j <= k} = U
      BY <1>4, <3>1, <3>2
    <3>4. IsFiniteSet(U) /\ Cardinality(U) \in Nat /\ Cardinality(U) <= n
      BY <1>2, <1>3, <3>2, FS_Subset, FS_CardinalityType
    <3>5. Cardinality(U) # 0
      <4>1. k \in U
        BY <3>1, <3>2
      <4> QED
        BY <3>4, <4>1, FS_EmptySet
    <3>6. t[Cardinality(U)] = pts[Cardinality(U)]
      BY <1>2, <3>4, <3>5
    <3>7. pts[Cardinality(U)].value = Grid[k]
      BY <3>1, <3>2 DEF Matches
    <3> QED
      BY <3>3, <3>6, <3>7
  <2> QED
    BY <2>1, <2>2
<1> QED
  BY <1>1, <1>2, <1>4, <1>5, <1>6 DEF Matches
-----------------------------------------------------------------------------
Cache == [stocks : [Security -> SUBSET (1 .. LastSession)], benchmark : [1 .. LastSession -> Nat]]
Request == [kind : {"none", "sweep", "backtest"}, window : (1 .. LastSession) \X (1 .. LastSession),
            left : Seq(Int), state : {"none", "running", "refused", "answered"}]

\* A sweep that is m places into the grid.
SweepAt(pts, skip, left, m) ==
    /\ m \in Nat /\ Len(left) + m = Len(Grid)
    /\ \A i \in 1 .. Len(left) : left[i] = Grid[m + i]
    /\ skip \in SUBSET (1 .. m) /\ Matches(pts, (1 .. m) \ skip)

ReportInv ==
    /\ cached \in Cache /\ request \in Request /\ IsSeq(points)
    /\ request.kind = "none" => points = << >> /\ skipped = {} /\ request.state = "none"
    /\ \A i \in DOMAIN points : Fine(points[i])
    /\ request.kind = "sweep" =>
          /\ \E m : SweepAt(points, skipped, request.left, m)
          /\ TooShort => points = << >>
          /\ request.state = "answered" => request.left = << >>
    /\ request.kind = "backtest" =>
          /\ request.state # "answered" => points = << >>
          /\ request.state = "answered" =>
                Len(points) = 1 /\ points[1].benchmark = BenchmarkEquity(Sessions)

\* The empty sequence.
LEMMA NoPoints == IsSeq(<< >>) /\ Len(<< >>) = 0 /\ DOMAIN << >> = {}
<1>1. << >> \in Seq({})
  OBVIOUS
<1> QED
  BY <1>1 DEF IsSeq

\* Nothing is asked at first.
LEMMA ReportStarts == ReportInit => ReportInv
<1> SUFFICES ASSUME ReportInit PROVE ReportInv
  OBVIOUS
<1>1. cached \in Cache
  <2>1. [s \in Security |-> {}] \in [Security -> SUBSET (1 .. LastSession)]
    OBVIOUS
  <2>2. [d \in 1 .. LastSession |-> 0] \in [1 .. LastSession -> Nat]
    OBVIOUS
  <2> QED
    BY <2>1, <2>2 DEF ReportInit, Cache
<1>2. request \in Request
  BY ReportAssumption DEF ReportInit, Request
<1> QED
  BY <1>1, <1>2, NoPoints DEF ReportInit, ReportInv
\* The sessions of a request stay its sessions.
LEMMA SameSessions ==
    ASSUME cached' = cached, request'.window = request.window
    PROVE  /\ Sessions' = Sessions /\ (TooShort' <=> TooShort)
           /\ BenchmarkEquity(Sessions)' = BenchmarkEquity(Sessions)
<1>1. Sessions' = Sessions
  BY DEF Sessions
<1>2. BenchmarkDates' = BenchmarkDates
  BY <1>1 DEF BenchmarkDates
<1>3. \A d : Since(d)' = Since(d)
  BY <1>2 DEF Since
<1> QED
  BY <1>1, <1>2, <1>3 DEF TooShort, BenchmarkEquity

\* A request comes.
LEMMA AskStep ==
    ASSUME ReportInv, NEW kind \in {"sweep", "backtest"}, NEW values, values \in Seq(Int),
           kind = "sweep" => values = Grid, Ask(kind, values)
    PROVE  ReportInv'
<1>1. request.kind = "none" /\ points' = << >> /\ skipped' = {}
  BY DEF Ask, ReportInv
<1>2. PICK stocks \in [Security -> SUBSET (1 .. LastSession)], bench \in BenchmarkBars, w \in Windows :
         /\ cached' = [stocks |-> stocks, benchmark |-> bench]
         /\ request' = [kind |-> kind, window |-> w, left |-> values, state |-> "running"]
  BY DEF Ask
<1>3. cached' \in Cache
  BY <1>2, ReportAssumption DEF Cache
<1>4. request' \in Request
  BY <1>2, ReportAssumption DEF Request
<1>5. request'.kind = kind /\ request'.left = values /\ request'.state = "running"
  BY <1>2
<1>6. kind = "sweep" => SweepAt(<< >>, {}, values, 0)
  <2> SUFFICES ASSUME values = Grid PROVE SweepAt(<< >>, {}, Grid, 0)
    OBVIOUS
  <2>1. Len(Grid) \in Nat
    BY ReportAssumption
  <2>2. (1 .. 0) \ {} = {} /\ Cardinality({}) = 0
    BY FS_EmptySet
  <2>3. Matches(<< >>, (1 .. 0) \ {})
    BY <2>2, NoPoints DEF Matches
  <2> QED
    BY <2>1, <2>3 DEF SweepAt
<1> QED
  BY <1>1, <1>3, <1>4, <1>5, <1>6, NoPoints DEF ReportInv

\* Changes of the state alone.
LEMMA StateStep ==
    ASSUME ReportInv, NEW state \in {"refused", "answered"}, request' = [request EXCEPT !.state = state],
           cached' = cached, points' = points, skipped' = skipped,
           request.kind # "none", request.state = "running",
           state = "answered" => request.kind = "sweep" /\ request.left = << >>
    PROVE  ReportInv'
<1>1. request \in Request
  BY DEF ReportInv
<1>2. /\ request' \in Request /\ request'.kind = request.kind /\ request'.window = request.window
      /\ request'.left = request.left /\ request'.state = state
  BY <1>1 DEF Request
<1>3. TooShort' <=> TooShort
  BY <1>2, SameSessions
<1>4. \A i \in DOMAIN points' : Fine(points'[i])
  BY DEF ReportInv
<1>5. request.kind = "sweep" => \E m : SweepAt(points', skipped', request'.left, m)
  BY <1>2 DEF ReportInv
<1>6. request.kind = "sweep" => (TooShort' => points' = << >>)
  BY <1>3 DEF ReportInv
<1>7. request.kind = "backtest" => points' = << >> /\ state # "answered"
  BY DEF ReportInv
<1> QED
  BY <1>2, <1>4, <1>5, <1>6, <1>7 DEF ReportInv

\* What is left of the grid after one value.
LEMMA NextPlace ==
    ASSUME NEW left, left \in Seq(Int), left # << >>, NEW rest, rest = Tail(left),
           NEW m, m \in Nat /\ Len(left) + m = Len(Grid)
                  /\ \A i \in 1 .. Len(left) : left[i] = Grid[m + i]
    PROVE  /\ rest \in Seq(Int) /\ Len(rest) + (m + 1) = Len(Grid) /\ Head(left) = Grid[m + 1]
           /\ \A i \in 1 .. Len(rest) : rest[i] = Grid[m + 1 + i]
           /\ Len(Grid) - Len(left) + 1 = m + 1
<1>1. PICK n, g : n = Len(left) /\ g = Len(Grid)
  OBVIOUS
<1>2. n \in Nat /\ n >= 1 /\ g \in Nat
  BY <1>1, ReportAssumption
<1>3. rest \in Seq(Int) /\ Len(rest) = n - 1 /\ Head(left) = left[1]
  BY <1>1
<1>4. \A i \in 1 .. (n - 1) : rest[i] = left[i + 1]
  BY <1>1
<1>5. \A i \in 1 .. (n - 1) : rest[i] = Grid[m + 1 + i]
  <2> SUFFICES ASSUME NEW i \in 1 .. (n - 1) PROVE rest[i] = Grid[m + 1 + i]
    OBVIOUS
  <2>1. i + 1 \in 1 .. n /\ m + (i + 1) = m + 1 + i
    BY <1>2
  <2>2. left[i + 1] = Grid[m + (i + 1)]
    BY <1>1, <2>1
  <2> QED
    BY <1>4, <2>1, <2>2
<1>6. Head(left) = Grid[m + 1]
  BY <1>1, <1>2, <1>3
<1>7. n + m = g
  BY <1>1
<1>8. (n - 1) + (m + 1) = g /\ g - n + 1 = m + 1
  BY <1>2, <1>7
<1>9. Len(rest) + (m + 1) = Len(Grid) /\ Len(Grid) - Len(left) + 1 = m + 1
  BY <1>1, <1>3, <1>8
<1>10. \A i \in 1 .. Len(rest) : rest[i] = Grid[m + 1 + i]
  BY <1>3, <1>5
<1> QED
  BY <1>3, <1>6, <1>9, <1>10

\* The sweep is one place further, with a point or without.
LEMMA PlaceWorked ==
    ASSUME NEW pts, NEW skip, NEW left, NEW m, SweepAt(pts, skip, left, m), IsSeq(pts),
           left \in Seq(Int), left # << >>, NEW rest, rest = Tail(left),
           \A i \in DOMAIN pts : Fine(pts[i]),
           NEW p, Fine(p), p.value = Head(left), NEW pts2, pts2 = Append(pts, p)
    PROVE  /\ rest \in Seq(Int) /\ IsSeq(pts2) /\ SweepAt(pts2, skip, rest, m + 1)
           /\ \A i \in DOMAIN pts2 : Fine(pts2[i])
<1>1. /\ m \in Nat /\ Len(left) + m = Len(Grid) /\ \A i \in 1 .. Len(left) : left[i] = Grid[m + i]
  BY DEF SweepAt
<1>2. /\ rest \in Seq(Int) /\ Len(rest) + (m + 1) = Len(Grid) /\ Head(left) = Grid[m + 1]
      /\ \A i \in 1 .. Len(rest) : rest[i] = Grid[m + 1 + i]
  <2>1. left \in Seq(Int) /\ left # << >> /\ rest = Tail(left)
    OBVIOUS
  <2> QED
    BY ONLY <1>1, <2>1, NextPlace
<1>3. PICK n, t : n = Len(pts) /\ t = Append(pts, p)
  OBVIOUS
<1>4. /\ n \in Nat /\ IsSeq(t) /\ DOMAIN pts = 1 .. n /\ DOMAIN t = 1 .. (n + 1)
      /\ (\A i \in 1 .. n : t[i] = pts[i]) /\ t[n + 1] = p
  <2>1. n \in Nat /\ (\A i \in 1 .. n : t[i] = pts[i]) /\ t[n + 1] = p
    BY <1>3, AppendedAny
  <2>2. IsSeq(t)
    BY <1>3, AppendedAny
  <2>3. DOMAIN pts = 1 .. n
    BY <1>3, AppendedAny
  <2>4. DOMAIN t = 1 .. (n + 1)
    BY <1>3, AppendedAny
  <2> QED
    BY <2>1, <2>2, <2>3, <2>4
<1>5. \A i \in DOMAIN t : Fine(t[i])
  <2>1. \A i \in 1 .. (n + 1) : i \in 1 .. n \/ i = n + 1
    BY <1>4
  <2> QED
    BY <1>4, <2>1
<1>6. skip \in SUBSET (1 .. m) /\ Matches(pts, (1 .. m) \ skip)
  BY DEF SweepAt
<1>7. 1 .. (m + 1) = (1 .. m) \cup {m + 1} /\ m + 1 \notin 1 .. m /\ m + 1 \in Nat
  BY <1>1
<1>8. PICK W : W = (1 .. m) \ skip
  OBVIOUS
<1>9. (1 .. (m + 1)) \ skip = W \cup {m + 1} /\ W \in SUBSET (1 .. m)
  BY <1>6, <1>7, <1>8
<1>10. Matches(Append(pts, p), W \cup {m + 1})
  <2>1. p.value = Grid[m + 1]
    BY <1>2
  <2>2. Matches(pts, W)
    BY <1>6, <1>8
  <2> QED
    BY <1>1, <1>9, <2>1, <2>2, PlaceMore
<1>11. pts2 = t
  BY <1>3
<1>12. SweepAt(pts2, skip, rest, m + 1)
  <2>1. Matches(pts2, (1 .. (m + 1)) \ skip)
    BY <1>9, <1>10
  <2>2. skip \in SUBSET (1 .. (m + 1))
    BY <1>6, <1>7
  <2> QED
    BY <1>2, <1>7, <2>1, <2>2 DEF SweepAt
<1> QED
  BY <1>2, <1>4, <1>5, <1>11, <1>12

\* A value is skipped.
LEMMA PlaceSkipped ==
    ASSUME NEW pts, NEW skip, NEW left, NEW m, SweepAt(pts, skip, left, m),
           left \in Seq(Int), left # << >>, NEW rest, rest = Tail(left),
           NEW skip2, skip2 = skip \cup {Len(Grid) - Len(left) + 1}
    PROVE  rest \in Seq(Int) /\ SweepAt(pts, skip2, rest, m + 1)
<1>1. /\ m \in Nat /\ Len(left) + m = Len(Grid) /\ \A i \in 1 .. Len(left) : left[i] = Grid[m + i]
  BY DEF SweepAt
<1>2. /\ rest \in Seq(Int) /\ Len(rest) + (m + 1) = Len(Grid)
      /\ \A i \in 1 .. Len(rest) : rest[i] = Grid[m + 1 + i]
  <2>1. left \in Seq(Int) /\ left # << >> /\ rest = Tail(left)
    OBVIOUS
  <2> QED
    BY ONLY <2>1, <1>1, NextPlace
<1>3. skip \in SUBSET (1 .. m) /\ Matches(pts, (1 .. m) \ skip)
  BY DEF SweepAt
<1>4. 1 .. (m + 1) = (1 .. m) \cup {m + 1} /\ m + 1 \notin 1 .. m /\ m + 1 \in Nat
  BY <1>1
<1>5. skip2 = skip \cup {m + 1}
  <2>1. Len(Grid) - Len(left) + 1 = m + 1
    <3>1. PICK n, g : n = Len(left) /\ g = Len(Grid)
      OBVIOUS
    <3>2. n \in Nat /\ g \in Nat
      BY <3>1, ReportAssumption
    <3>3. n + m = g /\ m \in Nat
      BY <1>1, <3>1
    <3>4. g - n + 1 = m + 1
      BY <3>2, <3>3
    <3> QED
      BY <3>1, <3>4
  <2> QED
    BY <2>1
<1>6. (1 .. (m + 1)) \ skip2 = (1 .. m) \ skip /\ skip2 \in SUBSET (1 .. (m + 1))
  BY <1>3, <1>4, <1>5
<1>7. Matches(pts, (1 .. (m + 1)) \ skip2)
  BY <1>3, <1>6
<1> QED
  BY <1>2, <1>4, <1>6, <1>7 DEF SweepAt

\* A run worked, with a point, or was skipped.
LEMMA SweepStep ==
    ASSUME ReportInv, request.kind = "sweep", request.state = "running", request.left # << >>,
           request' = [request EXCEPT !.left = Tail(@)], cached' = cached,
           NEW p,
           \/ ~TooShort /\ Fine(p) /\ p.value = Head(request.left) /\ points' = Append(points, p)
              /\ skipped' = skipped
           \/ points' = points /\ skipped' = skipped \cup {Len(Grid) - Len(request.left) + 1}
    PROVE  ReportInv'
<1>1. PICK left, rest : left = request.left /\ rest = Tail(left)
  OBVIOUS
<1>2. left \in Seq(Int) /\ left # << >>
  BY <1>1 DEF ReportInv, Request
<1>3. PICK m : SweepAt(points, skipped, left, m)
  BY <1>1 DEF ReportInv
<1>4. PICK pts, skip, pts2, skip2 :
         pts = points /\ skip = skipped /\ pts2 = points' /\ skip2 = skipped'
  OBVIOUS
<1>5. SweepAt(pts, skip, left, m) /\ IsSeq(pts) /\ \A i \in DOMAIN pts : Fine(pts[i])
  BY <1>3, <1>4 DEF ReportInv
<1>6. /\ rest \in Seq(Int) /\ IsSeq(pts2) /\ SweepAt(pts2, skip2, rest, m + 1)
      /\ \A i \in DOMAIN pts2 : Fine(pts2[i])
      /\ TooShort => pts2 = << >>
  <2>1. CASE ~TooShort /\ Fine(p) /\ p.value = Head(request.left) /\ points' = Append(points, p)
             /\ skipped' = skipped
    <3>1. pts2 = Append(pts, p) /\ skip2 = skip /\ p.value = Head(left) /\ Fine(p) /\ rest = Tail(left)
      BY <1>1, <1>4, <2>1
    <3>2. /\ rest \in Seq(Int) /\ IsSeq(pts2) /\ SweepAt(pts2, skip, rest, m + 1)
          /\ \A i \in DOMAIN pts2 : Fine(pts2[i])
      BY ONLY <1>2, <1>5, <3>1, PlaceWorked
    <3> QED
      BY <2>1, <3>1, <3>2
  <2>2. CASE points' = points /\ skipped' = skipped \cup {Len(Grid) - Len(request.left) + 1}
    <3>1. pts2 = pts /\ skip2 = skip \cup {Len(Grid) - Len(left) + 1} /\ rest = Tail(left)
      BY <1>1, <1>4, <2>2
    <3>2. rest \in Seq(Int) /\ SweepAt(pts, skip2, rest, m + 1)
      BY ONLY <1>2, <1>5, <3>1, PlaceSkipped
    <3>3. TooShort => pts = << >>
      BY <1>4 DEF ReportInv
    <3> QED
      BY <1>5, <3>1, <3>2, <3>3
  <2> QED
    BY <2>1, <2>2
<1>7. request' = [request EXCEPT !.left = rest] /\ request \in Request
  BY <1>1 DEF ReportInv
<1>8. /\ request' \in Request /\ request'.kind = "sweep" /\ request'.state = "running"
      /\ request'.window = request.window /\ request'.left = rest
  BY <1>6, <1>7 DEF Request
<1>9. TooShort' <=> TooShort
  BY <1>8, SameSessions
<1>10. cached' \in Cache
  BY DEF ReportInv
<1> QED
  BY <1>4, <1>6, <1>8, <1>9, <1>10 DEF ReportInv

\* The worker's run has the one point.
LEMMA ExecuteStep == ReportInv /\ Sessions \in SUBSET (1 .. LastSession) /\ ExecuteBacktest => ReportInv'
<1> SUFFICES ASSUME ReportInv, Sessions \in SUBSET (1 .. LastSession), ExecuteBacktest PROVE ReportInv'
  OBVIOUS
<1>1. /\ request.kind = "backtest" /\ request.state = "running" /\ Sessions # {} /\ points = << >>
      /\ cached' = cached /\ skipped' = skipped /\ request \in Request
  BY DEF ExecuteBacktest, ReportInv
<1>2. CASE points' = points /\ request' = [request EXCEPT !.state = "refused"]
  BY <1>1, <1>2, StateStep
<1>3. CASE /\ ~TooShort
           /\ \E c \in Curves, alpha \in Attributed :
                points' = <<Point(Head(request.left), c, alpha, BenchmarkEquity(Sessions))>>
           /\ request' = [request EXCEPT !.state = "answered"]
  <2>1. PICK c \in Curves, alpha \in Attributed :
           points' = <<Point(Head(request.left), c, alpha, BenchmarkEquity(Sessions))>>
    BY <1>3
  <2>2. PICK v, b, p : v = Head(request.left) /\ b = BenchmarkEquity(Sessions) /\ p = Point(v, c, alpha, b)
    OBVIOUS
  <2>3. IsCurve(c) /\ DOMAIN c = Sessions
    BY <1>1, CurvesAre
  <2>4. Cardinality(DOMAIN c) >= 2
    <3>1. Cardinality(DOMAIN c) \in Nat
      BY <2>3, Dates
    <3> QED
      BY <1>3, <2>3, <3>1 DEF TooShort
  <2>5. Fine(p) /\ p.benchmark = b
    BY <2>2, <2>3, <2>4, PointIsFine DEF Point
  <2>6. PICK pts : pts = <<p>>
    OBVIOUS
  <2>7. points' = pts /\ Len(pts) = 1 /\ DOMAIN pts = {1} /\ pts[1] = p /\ pts \in Seq({p})
    BY <2>1, <2>2, <2>6
  <2>8. IsSeq(pts) /\ \A i \in DOMAIN pts : Fine(pts[i])
    BY <2>5, <2>7 DEF IsSeq
  <2>9. /\ request' \in Request /\ request'.kind = "backtest" /\ request'.state = "answered"
        /\ request'.window = request.window
    BY <1>1, <1>3 DEF Request
  <2>10. BenchmarkEquity(Sessions)' = b
    BY <1>1, <2>2, <2>9, SameSessions
  <2> QED
    BY <1>1, <2>5, <2>7, <2>8, <2>9, <2>10 DEF ReportInv
<1> QED
  BY <1>2, <1>3 DEF ExecuteBacktest

\* A request's sessions are dates.
LEMMA SessionsAreDates == ReportInv => Sessions \in SUBSET (1 .. LastSession)
<1> SUFFICES ASSUME ReportInv PROVE Sessions \in SUBSET (1 .. LastSession)
  OBVIOUS
<1>1. PICK f \in 1 .. LastSession, t \in 1 .. LastSession : f = request.window[1] /\ t = request.window[2]
  BY DEF ReportInv, Request
<1>2. \A d \in f .. t : d \in 1 .. LastSession
  BY <1>1, ReportAssumption
<1> QED
  BY <1>1, <1>2 DEF Sessions, ReportInv

\* Every step keeps the invariant.
LEMMA ReportStep == ReportInv /\ [ReportNext]_reportVars => ReportInv'
<1> SUFFICES ASSUME ReportInv, [ReportNext]_reportVars PROVE ReportInv'
  OBVIOUS
<1>0. Sessions \in SUBSET (1 .. LastSession)
  BY SessionsAreDates
<1>1. CASE UNCHANGED reportVars
  <2>1. cached' = cached /\ request' = request /\ points' = points /\ skipped' = skipped
    BY <1>1 DEF reportVars
  <2>2. (TooShort' <=> TooShort) /\ BenchmarkEquity(Sessions)' = BenchmarkEquity(Sessions)
    BY <2>1, SameSessions
  <2> QED
    BY <2>1, <2>2 DEF ReportInv
<1>2. CASE AskSweep
  BY <1>2, ReportAssumption, AskStep DEF AskSweep
<1>3. CASE AskBacktest
  <2>1. PICK values : values = <<Head(Grid)>>
    OBVIOUS
  <2>2. Head(Grid) \in Int
    BY ReportAssumption
  <2>3. values \in Seq(Int)
    BY <2>1, <2>2
  <2>4. Ask("backtest", values)
    BY <1>3, <2>1 DEF AskBacktest
  <2> QED
    BY <2>3, <2>4, AskStep
<1>4. CASE NoData
  <2>1. request.kind # "none"
    BY <1>4 DEF NoData, ReportInv
  <2> QED
    BY <1>4, <2>1, StateStep DEF NoData
<1>5. CASE SweepValue
  <2>1. /\ request.kind = "sweep" /\ request.state = "running" /\ Sessions # {} /\ request.left # << >>
        /\ ~TooShort /\ request' = [request EXCEPT !.left = Tail(@)] /\ cached' = cached /\ skipped' = skipped
    BY <1>5 DEF SweepValue
  <2>2. PICK c \in Curves, alpha \in Attributed :
           points' = Append(points, Point(Head(request.left), c, alpha, << >>))
    BY <1>5 DEF SweepValue
  <2>3. PICK v, p : v = Head(request.left) /\ p = Point(v, c, alpha, << >>)
    OBVIOUS
  <2>4. IsCurve(c) /\ DOMAIN c = Sessions
    BY <1>0, <2>1, CurvesAre
  <2>5. Cardinality(DOMAIN c) >= 2
    <3>1. Cardinality(DOMAIN c) \in Nat
      BY <2>4, Dates DEF IsCurve
    <3> QED
      BY <2>1, <2>4, <3>1 DEF TooShort
  <2>6. Fine(p) /\ p.value = v
    BY <2>3, <2>4, <2>5, PointIsFine DEF Point
  <2>7. p.value = Head(request.left) /\ points' = Append(points, p)
    BY <2>2, <2>3, <2>6
  <2> QED
    BY <2>1, <2>6, <2>7, SweepStep
<1>6. CASE SkipValue
  BY <1>6, SweepStep DEF SkipValue
<1>7. CASE SweepEnds
  BY <1>7, StateStep DEF SweepEnds
<1>8. CASE ExecuteBacktest
  BY <1>0, <1>8, ExecuteStep
<1> QED
  BY <1>1, <1>2, <1>3, <1>4, <1>5, <1>6, <1>7, <1>8 DEF ReportNext

-----------------------------------------------------------------------------
\* PointsDescribeTheirRuns holds for any sessions, grid and curves without an exact
\* zero: a sweep's points follow the values whose runs worked, and each point's
\* statistics say what they claim of the run's own curve.  What hits say of the end
\* is claimed of curves above zero only.
THEOREM PointsDescribe == ReportSpec => []PointsDescribeTheirRuns
<1>1. ReportInv => PointsDescribeTheirRuns
  <2> SUFFICES ASSUME ReportInv, request.state = "answered" PROVE PointsDescribeTheirRuns
    BY DEF PointsDescribeTheirRuns
  <2>1. \A i \in DOMAIN points : Fine(points[i])
    BY DEF ReportInv
  <2>2. ASSUME request.kind = "sweep"
        PROVE  /\ Matches(points, DOMAIN Grid \ skipped)
               /\ TooShort => points = << >>
    <3>1. request.left = << >> /\ (TooShort => points = << >>)
      BY <2>2 DEF ReportInv
    <3>2. PICK m : SweepAt(points, skipped, << >>, m)
      BY <2>2, <3>1 DEF ReportInv
    <3>3. m = Len(Grid) /\ DOMAIN Grid = 1 .. m
      BY <3>2, NoPoints, ReportAssumption DEF SweepAt
    <3> QED
      BY <3>1, <3>2, <3>3 DEF SweepAt
  <2> QED
    BY <2>1, <2>2, Zenon DEF PointsDescribeTheirRuns, Fine, Matches
<1> QED
  BY <1>1, ReportStarts, ReportStep, PTL DEF ReportSpec

\* What the overlay carries: a date's latest bar over the first.
LEMMA OverlayIs ==
    ASSUME NEW D, D = Sessions, D \in SUBSET (1 .. LastSession), NEW b, b = BenchmarkEquity(Sessions)
    PROVE  /\ BenchmarkDates \in SUBSET D
           /\ \A d \in D : d \in BenchmarkDates <=> cached.benchmark[d] # 0
           /\ \A d, k : k \in Since(d) <=> k \in BenchmarkDates /\ k <= d
           /\ DOMAIN b = {d \in D : Since(d) # {}}
           /\ \A d \in DOMAIN b :
                 b[d] = <<StartEquity * cached.benchmark[Max(Since(d))], cached.benchmark[Min(BenchmarkDates)]>>
<1>1. BenchmarkDates \in SUBSET D /\ \A d \in D : d \in BenchmarkDates <=> cached.benchmark[d] # 0
  BY DEF BenchmarkDates
<1>2. \A d, k : k \in Since(d) <=> k \in BenchmarkDates /\ k <= d
  BY DEF Since
<1>3. /\ DOMAIN b = {d \in D : Since(d) # {}}
      /\ \A d \in DOMAIN b :
            b[d] = <<StartEquity * cached.benchmark[Max(Since(d))], cached.benchmark[Min(BenchmarkDates)]>>
  BY DEF BenchmarkEquity
<1> QED
  BY <1>1, <1>2, <1>3

\* BenchmarkIsBuyAndHold holds for any sessions and any file of the benchmark.
THEOREM BenchmarkHolds == ReportSpec => []BenchmarkIsBuyAndHold
<1>1. ReportInv => BenchmarkIsBuyAndHold
  <2> SUFFICES ASSUME ReportInv, request.kind = "backtest", request.state = "answered"
               PROVE  BenchmarkIsBuyAndHold
    BY DEF BenchmarkIsBuyAndHold
  <2>1. PICK b, D, B, m : b = BenchmarkEquity(Sessions) /\ D = Sessions /\ B = BenchmarkDates
                          /\ m = cached.benchmark
    OBVIOUS
  <2>2. points[1].benchmark = b
    BY <2>1 DEF ReportInv
  <2>3. D \in SUBSET (1 .. LastSession) /\ \A d \in D : d \in Int
    <3>1. D \in SUBSET (1 .. LastSession)
      BY <2>1, SessionsAreDates
    <3> QED
      BY <3>1, Dates
  <2>4. B \in SUBSET D /\ (\A d \in D : d \in B <=> m[d] # 0)
    BY <2>1, <2>3, OverlayIs
  <2>5. \A d, k : k \in Since(d) <=> k \in B /\ k <= d
    BY <2>1, <2>3, OverlayIs
  <2>6. DOMAIN b = {d \in D : Since(d) # {}}
    BY <2>1, <2>3, OverlayIs
  <2>7. \A d \in DOMAIN b : b[d] = <<StartEquity * m[Max(Since(d))], m[Min(B)]>>
    BY <2>1, <2>3, OverlayIs
  <2>8. PICK H : H = DOMAIN b
    OBVIOUS
  <2>9. H \in SUBSET D /\ \A d : d \in H <=> d \in D /\ \E k \in B : k <= d
    BY <2>5, <2>6, <2>8
  <2>10. H = {d \in D : \E k \in D : k <= d /\ m[k] # 0}
    BY <2>4, <2>9
  <2>11. ASSUME NEW d \in H
         PROVE  IF \A k \in H : k >= d
                THEN b[d][1] = StartEquity * b[d][2] /\ m[d] # 0
                ELSE IF m[d] = 0 THEN b[d] = b[Max({k \in H : k < d})]
                     ELSE /\ b[d][1] = StartEquity * m[d]
                          /\ b[d][2] = b[Max({k \in H : k < d})][2]
    <3>1. PICK S, top, first : S = Since(d) /\ top = Max(S) /\ first = Min(B)
      OBVIOUS
    <3>2. d \in D /\ d \in Int /\ \A k \in B : k \in Int
      BY <2>3, <2>4, <2>9
    <3>3. S # {} /\ S \in SUBSET B /\ (\A k : k \in S <=> k \in B /\ k <= d)
      BY <2>5, <2>9, <3>1
    <3>4. top \in S /\ \A k \in S : k <= top
      <4>1. S \in SUBSET (1 .. LastSession)
        BY <2>3, <2>4, <3>3
      <4> QED
        BY <3>1, <3>3, <4>1, Dates
    <3>5. first \in B /\ \A k \in B : first <= k
      <4>1. B \in SUBSET (1 .. LastSession) /\ B # {}
        BY <2>3, <2>4, <3>3
      <4> QED
        BY <3>1, <4>1, Dates
    <3>6. b[d] = <<StartEquity * m[top], m[first]>>
      BY <2>7, <2>8, <3>1
    <3>7. CASE \A k \in H : k >= d
      <4>1. first \in H
        BY <2>4, <2>9, <3>2, <3>5
      <4>2. first = d
        BY <3>2, <3>3, <3>4, <3>5, <3>7, <4>1
      <4>3. top = d
        BY <3>2, <3>3, <3>4, <3>5, <4>2
      <4>4. m[d] # 0
        BY <2>4, <3>2, <3>5, <4>2
      <4> QED
        BY <3>6, <3>7, <4>2, <4>3, <4>4
    <3>8. CASE \E k \in H : k < d
      <4>1. PICK E, p : E = {k \in H : k < d} /\ p = Max(E)
        OBVIOUS
      <4>2. p \in E /\ \A k \in E : k <= p
        <5>1. E \in SUBSET (1 .. LastSession) /\ E # {}
          BY <2>3, <2>9, <3>8, <4>1
        <5> QED
          BY <4>1, <5>1, Dates
      <4>3. p \in H /\ p < d /\ p \in Int
        BY <2>3, <2>9, <4>1, <4>2
      <4>4. ~ \A k \in H : k >= d
        BY <3>2, <4>3
      <4>5. b[p] = <<StartEquity * m[Max(Since(p))], m[first]>>
        BY <2>7, <2>8, <3>1, <4>3
      <4>6. ASSUME m[d] = 0 PROVE b[d] = b[p]
        <5>1. d \notin B
          BY <2>4, <3>2, <4>6
        <5>2. \A k \in B : k <= d <=> k <= p
          <6> SUFFICES ASSUME NEW k \in B PROVE k <= d <=> k <= p
            OBVIOUS
          <6>1. k \in Int /\ k # d /\ k \in H
            BY <2>4, <2>9, <3>2, <5>1
          <6>2. k < d => k <= p
            BY <4>1, <4>2, <6>1
          <6> QED
            BY <3>2, <4>3, <6>1, <6>2
        <5>3. PICK T : T = Since(p)
          OBVIOUS
        <5>4. \A k : k \in T <=> k \in B /\ k <= p
          BY <2>5, <5>3
        <5>5. T = S
          BY <3>3, <5>2, <5>4
        <5> QED
          BY <3>1, <3>6, <4>5, <5>3, <5>5
      <4>7. ASSUME m[d] # 0 PROVE b[d][1] = StartEquity * m[d] /\ b[d][2] = b[p][2]
        <5>1. d \in S
          BY <2>4, <3>2, <3>3, <4>7
        <5>2. top = d
          BY <3>2, <3>3, <3>4, <5>1
        <5> QED
          BY <3>6, <4>5, <5>2
      <4> QED
        BY <4>1, <4>4, <4>6, <4>7
    <3>9. (\A k \in H : k >= d) \/ \E k \in H : k < d
      BY <2>3, <2>9, <3>2
    <3> QED
      BY <3>7, <3>8, <3>9
  <2>12. b = points[1].benchmark /\ H = DOMAIN b /\ D = Sessions /\ m = cached.benchmark
    BY <2>1, <2>2, <2>8
  <2>13. DOMAIN b = {d \in Sessions : \E k \in Sessions : k <= d /\ cached.benchmark[k] # 0}
    BY <2>10, <2>12, Zenon
  <2>14. \A d \in DOMAIN b :
            IF \A k \in DOMAIN b : k >= d
            THEN b[d][1] = StartEquity * b[d][2] /\ cached.benchmark[d] # 0
            ELSE IF cached.benchmark[d] = 0 THEN b[d] = b[Max({k \in DOMAIN b : k < d})]
                 ELSE /\ b[d][1] = StartEquity * cached.benchmark[d]
                      /\ b[d][2] = b[Max({k \in DOMAIN b : k < d})][2]
    BY ONLY <2>11, <2>12, Zenon
  <2>15. b = points[1].benchmark
    BY <2>12
  <2> QED
    BY ONLY <2>13, <2>14, <2>15, Zenon DEF BenchmarkIsBuyAndHold
<1> QED
  BY <1>1, ReportStarts, ReportStep, PTL DEF ReportSpec
=============================================================================

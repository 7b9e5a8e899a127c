--------------------------- MODULE BacktestEngine ---------------------------
(***************************************************************************)
(* The backtest of engine/backtest/engine.py: a day opens, the target that *)
(* was decided on an earlier close is traded if it changed, the holdings   *)
(* are valued at the close.                                                *)
(*                                                                         *)
(* Weights are in units of 1 / Unit and shares are whole: a target is      *)
(* rounded towards zero.  A price of 0 stands for a missing or             *)
(* non-positive one.                                                       *)
(***************************************************************************)
EXTENDS Integers, FiniteSetsExt

CONSTANTS
    Stock,
    Unit,
    Capital,       \* initial_capital
    Quotes,        \* a stock's day: [open, close, halted]
    Adv,           \* stock -> trailing median volume, 0 for unknown
    CapDiv,        \* max_adv_participation is 1 / CapDiv
    TradeCost(_, _),   \* charges and impact of |quantity| shares at a price
    Targets,       \* rows a strategy may decide: stock -> weight
    LastTradingDay \* bound: days of the backtest

ASSUME EngineAssumption ==
    /\ IsFiniteSet(Stock) /\ Unit \in Nat \ {0} /\ CapDiv \in Nat \ {0} /\ Capital \in Int
    /\ Quotes \subseteq [open : Nat, close : Nat, halted : BOOLEAN]
    /\ Adv \in [Stock -> Nat] /\ Targets \subseteq [Stock -> Int]

VARIABLES
    day,
    shares, cash,
    decided,       \* target_weights, forward-filled up to the last close
    prevTarget,
    equity,        \* value at the last close
    last           \* the last rebalance: [target, worth, cost, heldBack] (history)

engineVars == <<day, shares, cash, decided, prevTarget, equity, last>>

Flat == [s \in Stock |-> 0]
Total(f) == MapThenSumSet(LAMBDA s : f[s], Stock)
AbsVal(n) == IF n < 0 THEN -n ELSE n
Toward0(a, b) == IF a < 0 THEN -((-a) \div b) ELSE a \div b

EngineInit ==
    /\ day = 0
    /\ shares = Flat /\ cash = Capital /\ equity = Capital
    /\ decided = Flat /\ prevTarget = Flat
    /\ last = [target |-> Flat, worth |-> Capital, cost |-> 0, heldBack |-> 0]

Tradeable(q) == q.open > 0 /\ ~q.halted

\* equity_open: what has no price counts nothing.
Worth(quote) == cash + Total([s \in Stock |-> shares[s] * quote[s].open])

\* Mutant: targets are sized by the initial capital.
TargetShares_OfCapital(quote, target) ==
    [s \in Stock |-> IF Tradeable(quote[s])
        THEN Toward0(target[s] * Capital, Unit * quote[s].open) ELSE shares[s]]

\* A target weight in shares; what cannot trade keeps its shares.
TargetShares(quote, target) ==
    [s \in Stock |-> IF Tradeable(quote[s])
        THEN Toward0(target[s] * Worth(quote), Unit * quote[s].open) ELSE shares[s]]

\* cap_quantity_vec: the sign of the order and the smaller of size and cap.
Capped(s, desired) ==
    LET cap == Adv[s] \div CapDiv
    IN IF Adv[s] > 0 /\ AbsVal(desired) > cap
       THEN IF desired < 0 THEN -cap ELSE cap
       ELSE desired

\* What should have been sold and stays: the cap or a halt held it back.
HeldBack(quote, target, goal, after) ==
    LET excess(s) == IF Tradeable(quote[s]) THEN (after[s] - goal[s]) * quote[s].open
                     ELSE after[s] * quote[s].open - (target[s] * Worth(quote)) \div Unit
    IN Total([s \in Stock |-> IF excess(s) > 0 THEN excess(s) ELSE 0])

Rebalance(quote, target) ==
    LET goal == TargetShares(quote, target)
        filled == [s \in Stock |-> Capped(s, goal[s] - shares[s])]
        cost == Total([s \in Stock |-> TradeCost(quote[s].open, AbsVal(filled[s]))])
    IN /\ shares' = [s \in Stock |-> shares[s] + filled[s]]
       /\ cash' = cash - Total([s \in Stock |-> filled[s] * quote[s].open]) - cost
       /\ last' = [target |-> target, worth |-> Worth(quote), cost |-> cost,
                   heldBack |-> HeldBack(quote, target, goal, shares')]

\* Mutant: the row is not shifted, the day's own close decides its open.
TradingDay_Unshifted(quote, row) ==
    /\ day < LastTradingDay
    /\ day' = day + 1
    /\ IF day = 0 \/ row # prevTarget
       THEN Rebalance(quote, row) /\ prevTarget' = row
       ELSE UNCHANGED <<shares, cash, prevTarget, last>>
    /\ equity' = cash' + Total([s \in Stock |-> shares'[s] * quote[s].close])
    /\ decided' = row

\* One iteration of run; `row' is the strategy's target at this day's close,
\* or the one in force if it decides nothing.
TradingDay(quote, row) ==
    /\ day < LastTradingDay
    /\ day' = day + 1
    /\ IF day = 0 \/ decided # prevTarget
       THEN Rebalance(quote, decided) /\ prevTarget' = decided
       ELSE UNCHANGED <<shares, cash, prevTarget, last>>
    /\ equity' = cash' + Total([s \in Stock |-> shares'[s] * quote[s].close])
    /\ decided' = row

EngineNext ==
    \E quote \in [Stock -> Quotes], row \in Targets \cup {decided} : TradingDay(quote, row)

EngineSpec == EngineInit /\ [][EngineNext]_engineVars

-----------------------------------------------------------------------------
LongOnly(row) == Total(row) <= Unit /\ \A s \in Stock : row[s] >= 0

\* With a long-only target within the capital and an account that is worth
\* something at the open's prices, a rebalance borrows no more than its costs
\* and what a halt or the cap kept from being sold.
BorrowsOnlyForHeldBack ==
    (LongOnly(last.target) /\ last.worth >= 0)
        => cash + last.cost + last.heldBack >= 0

\* Holdings change only to follow a target that had been decided by an earlier
\* close and differs from the one last executed: no look-ahead, no daily churn,
\* and nothing that a cap or a halt left over is tried again.
TradesFollowDecisions ==
    [][shares' # shares => day > 0 /\ decided # prevTarget /\ prevTarget' = decided]_engineVars
=============================================================================

------------------------------- MODULE Costs -------------------------------
(***************************************************************************)
(* Charges and impact of one order: engine/backtest/costs.py and           *)
(* engine/backtest/impact.py.  Each exists twice, as a scalar form that    *)
(* takes the side and the size and as the form the engine applies to       *)
(* signed quantities; costs.py:8 says both share one formula.           *)
(*                                                                         *)
(* Rates are in units of 1 / Den; the square root of the participation is  *)
(* the constant function Root of that participation in units of 1 / Den.   *)
(***************************************************************************)
EXTENDS Integers

CONSTANTS
    Config,        \* CostConfig and ImpactConfig: the rates below
    Den,
    Root(_),
    NotANumber,    \* an unknown ADV or volatility
    Quantities, Prices, Advs, Vols, Segments

ASSUME CostsAssumption ==
    /\ \A rate \in DOMAIN Config : Config[rate] \in Nat
    /\ DOMAIN Config = {"flatFee", "brokerage", "exchange", "sttDelivery", "sttIntradaySell",
                       "gst", "sebi", "stamp", "impactK", "halfSpread", "slippage", "participation"}
    /\ Den \in Nat \ {0} /\ Quantities \subseteq Int /\ Prices \subseteq Nat
    /\ Advs \subseteq Nat \cup {NotANumber} /\ Vols \subseteq Nat \cup {NotANumber}

VARIABLES order    \* the order that is priced: [qty, price, adv, vol, segment]

NoOrder == [qty |-> 0, price |-> 1, adv |-> NotANumber, vol |-> NotANumber, segment |-> "delivery"]

CostsInit == order = NoOrder

NewOrder ==
    \E q \in Quantities, p \in Prices, a \in Advs, v \in Vols, s \in Segments :
        order' = [qty |-> q, price |-> p, adv |-> a, vol |-> v, segment |-> s]

CostsSpec == CostsInit /\ [][NewOrder]_order

Magnitude(n) == IF n < 0 THEN -n ELSE n
Smaller(a, b) == IF a < b THEN a ELSE b

-----------------------------------------------------------------------------
(***************************************************************************)
(* The scalar forms, in units of 1 / (Den * Den).                          *)
(***************************************************************************)
Brokerage(turnover) ==
    IF turnover # 0 THEN Smaller(Config.flatFee * Den, Config.brokerage * turnover) ELSE 0

ComputeCosts(side, price, quantity, segment) ==
    LET turnover == price * Magnitude(quantity)
        exchange == Config.exchange * turnover
        stt == CASE segment = "delivery" -> Config.sttDelivery * turnover
                 [] segment # "delivery" /\ side = "buy" -> 0
                 [] OTHER -> Config.sttIntradaySell * turnover
        stamp == IF side = "buy" THEN Config.stamp * turnover ELSE 0
    IN Den * (Brokerage(turnover) + exchange + stt + Config.sebi * turnover + stamp)
         + Config.gst * (Brokerage(turnover) + exchange)

ComputeImpact(quantity, price, adv, vol) ==
    LET qty == Magnitude(quantity)
        participation == IF adv # NotANumber /\ adv > 0 THEN (Den * qty) \div adv ELSE 0
        temporary == IF vol # NotANumber THEN Config.impactK * vol * Root(participation) ELSE 0
    IN (temporary + Config.halfSpread + Config.slippage) * qty * price

\* cap_quantity
CapQuantity(desired, adv) ==
    IF adv = NotANumber \/ adv <= 0 THEN desired
    ELSE LET n == Smaller(Magnitude(desired), (Config.participation * adv) \div Den)
         IN IF desired < 0 THEN -n ELSE n

-----------------------------------------------------------------------------
(***************************************************************************)
(* The vectorised forms, per element.                                      *)
(***************************************************************************)

\* Mutant: securities transaction tax on both intraday legs.
TotalCostsVec_TaxesBothLegs(price, quantity, segment) ==
    LET turnover == price * Magnitude(quantity)
        brokerage == IF turnover > 0
            THEN Smaller(Config.flatFee * Den, Config.brokerage * turnover) ELSE 0
        exchange == Config.exchange * turnover
        stt == IF segment = "delivery" THEN Config.sttDelivery * turnover
                                       ELSE Config.sttIntradaySell * turnover
        stamp == IF quantity > 0 THEN Config.stamp * turnover ELSE 0
    IN Den * (brokerage + stt + exchange + Config.sebi * turnover + stamp)
         + Config.gst * (brokerage + exchange)

\* The sign of the quantity is the side.
TotalCostsVec(price, quantity, segment) ==
    LET turnover == price * Magnitude(quantity)
        brokerage == IF turnover > 0
            THEN Smaller(Config.flatFee * Den, Config.brokerage * turnover) ELSE 0
        exchange == Config.exchange * turnover
        stt == IF segment = "delivery" THEN Config.sttDelivery * turnover
               ELSE IF quantity > 0 THEN 0 ELSE Config.sttIntradaySell * turnover
        stamp == IF quantity > 0 THEN Config.stamp * turnover ELSE 0
    IN Den * (brokerage + stt + exchange + Config.sebi * turnover + stamp)
         + Config.gst * (brokerage + exchange)

ImpactCostVec(quantity, price, adv, vol) ==
    LET known == adv # NotANumber /\ adv > 0
        participation == IF known THEN (Den * Magnitude(quantity)) \div adv ELSE 0
        sigma == IF vol = NotANumber THEN 0 ELSE vol
        fraction == Config.impactK * sigma * Root(participation)
                      + Config.halfSpread + Config.slippage
    IN fraction * Magnitude(quantity) * price

CapQuantityVec(desired, adv) ==
    LET known == adv # NotANumber /\ adv > 0
        size == IF known THEN Smaller(Magnitude(desired), (Config.participation * adv) \div Den)
                         ELSE Magnitude(desired)
        sign == IF desired > 0 THEN 1 ELSE IF desired < 0 THEN -1 ELSE 0
    IN sign * size

-----------------------------------------------------------------------------
\* The form the broker charges and the form the backtest charges agree on
\* every order of either side and segment, and so do the two caps.
ScalarAgreesWithVector ==
    LET o == order
        side == IF o.qty > 0 THEN "buy" ELSE "sell"
    IN /\ ComputeCosts(side, o.price, Magnitude(o.qty), o.segment)
            = TotalCostsVec(o.price, o.qty, o.segment)
       /\ ComputeImpact(o.qty, o.price, o.adv, o.vol) = ImpactCostVec(o.qty, o.price, o.adv, o.vol)
       /\ CapQuantity(o.qty, o.adv) = CapQuantityVec(o.qty, o.adv)
=============================================================================

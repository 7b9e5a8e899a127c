--------------------------- MODULE MCPaperBroker ---------------------------
(***************************************************************************)
(* Instance of PaperBroker: one symbol with two price levels, a tenth of   *)
(* the mark as impact and a tenth of the turnover as cost.  The cash of 30 *)
(* buys two shares at the low mark and one at the high one, so that of two *)
(* resting purchases a sweep fills one and rejects the other.              *)
(***************************************************************************)
EXTENDS PaperBroker

CONSTANTS o1, o2, o3, a

MCOrderId == {o1, o2, o3}
MCImpact(p) == p \div 10
MCCost(side, p, q) == (p * q) \div 10

\* A purchase that may rest, an immediate one, and a sale that may rest.
MCOrders == {
    [id |-> o1, symbol |-> a, side |-> "buy", quantity |-> 2,
     order_type |-> "limit", limit_price |-> 10],
    [id |-> o2, symbol |-> a, side |-> "buy", quantity |-> 1,
     order_type |-> "market", limit_price |-> NoLimit],
    [id |-> o3, symbol |-> a, side |-> "sell", quantity |-> 1,
     order_type |-> "limit", limit_price |-> 20]}
=============================================================================

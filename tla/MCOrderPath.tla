---------------------------- MODULE MCOrderPath ----------------------------
(***************************************************************************)
(* Instance of OrderPath: two threads, a purchase that may rest and one    *)
(* that executes at once, cash for one of them at the high mark.           *)
(***************************************************************************)
EXTENDS OrderPath

CONSTANTS o1, o2, a

MCImpact(p) == p \div 10
MCCost(side, p, q) == (p * q) \div 10

MCOrders == {
    [id |-> o1, symbol |-> a, side |-> "buy", quantity |-> 1,
     order_type |-> "limit", limit_price |-> 10],
    [id |-> o2, symbol |-> a, side |-> "buy", quantity |-> 1,
     order_type |-> "market", limit_price |-> -1]}
=============================================================================

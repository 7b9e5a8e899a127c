-------------------------- MODULE MCSmartApiBroker --------------------------
(* The instance of SmartApiBroker that TLC checks. *)
EXTENDS SmartApiBroker

\* A purchase and a smaller sale of one symbol, a purchase of another without an
\* expected price, and one of a symbol that has no token.
MCTradingSymbol(r) ==
    CASE r \in {"r1", "r2"} -> "infy" [] r = "r3" -> "tcs" [] OTHER -> "gold"
MCSignedQty(r) == IF r = "r2" THEN -1 ELSE 2
MCExpected(r) == IF r = "r3" THEN 0 ELSE 1000
=============================================================================

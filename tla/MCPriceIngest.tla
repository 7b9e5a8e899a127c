--------------------------- MODULE MCPriceIngest ---------------------------
(* The instance of PriceIngest that TLC checks. *)
EXTENDS PriceIngest, TLC

MCRanges == {<<1, 2>>, <<1, 3>>}
MCAsks == {<<"bars", <<1, 3>>>>, <<"prices", <<1, 3>>>>, <<"liquidity", <<1, 3>>>>}

\* An earlier ingest of the third day leaves a hole after the ranges above.
MCEarlier == {{}, {3}}

\* One job; the batch names a symbol twice, so that the second fetch meets what
\* the first one left.
MCBatches == "j1" :> [syms |-> <<"infy", "infy">>, range |-> <<1, 2>>]
=============================================================================

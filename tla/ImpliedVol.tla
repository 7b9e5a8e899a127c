----------------------------- MODULE ImpliedVol -----------------------------
(***************************************************************************)
(* The implied volatility of an option: Newton's method and bisection over *)
(* the price as a function of volatility (engine/models/black_scholes.py). *)
(*                                                                         *)
(* Volatilities are the grid 1 .. Beyond, where Top stands for 5.0, the    *)
(* largest that is searched, and neighbours are adjacent numbers; the price*)
(* is any function on it that does not decrease, flat where the option has *)
(* no vega.  A Newton step goes any distance in the right direction.       *)
(***************************************************************************)
EXTENDS Integers

CONSTANTS
    Top, Beyond,
    OptionPrices,  \* prices that occur
    Tol,           \* a price closer than this to the market's is it
    MaxNewton,     \* max_iter
    Halvings       \* iterations of the bisection, enough to go through the grid

ASSUME GridAssumption ==
    /\ Top \in Nat /\ Beyond \in Nat /\ 1 < Top /\ Top < Beyond
    /\ OptionPrices \subseteq Int /\ Tol \in Nat \ {0} /\ MaxNewton \in Nat

\* Halving the range of the search, rounded up, leaves neighbours in the end.
Narrows(span) ==
    /\ span[0] = Top - 1 /\ span[Halvings] <= 1
    /\ \A n \in 0 .. Halvings - 1 : span[n + 1] = (span[n] + 1) \div 2

ASSUME HalvingsAssumption ==
    Halvings \in Nat /\ \E span \in [0 .. Halvings -> 0 .. Top] : Narrows(span)

VARIABLE solve     \* [stage, alive, price, market, low, up, sigma, lo, hi, n]

Vol == 1 .. Beyond
Rising == {f \in [Vol -> OptionPrices] : \A s \in 1 .. Beyond - 1 : f[s] <= f[s + 1]}

ImpliedVolInit ==
    solve = [stage |-> "idle", alive |-> FALSE, price |-> [s \in Vol |-> 0], market |-> 0,
             low |-> 0, up |-> 0, sigma |-> 1, lo |-> 1, hi |-> Top, n |-> 0]

\* A quote of an option that has days to live or none; the no-arbitrage bounds
\* are at or around what the price tends to.
Quote ==
    /\ solve.stage = "idle"
    /\ \E f \in Rising, market \in OptionPrices, gap \in {0, 2}, alive \in BOOLEAN :
          solve' = [solve EXCEPT !.stage = "asked", !.alive = alive, !.price = f,
                        !.market = market, !.low = f[1] - gap, !.up = f[Beyond] + gap]

Diff(s) == solve.price[s] - solve.market
Close(s) == -Tol < Diff(s) /\ Diff(s) < Tol

Ends(stage, s) == solve' = [solve EXCEPT !.stage = stage, !.sigma = s]

\* The first lines: T > 0, the bounds, and a seed that may lie beyond Top.
CheckBounds ==
    /\ solve.stage = "asked"
    /\ IF solve.alive /\ solve.low - Tol <= solve.market /\ solve.market <= solve.up + Tol
       THEN \E seed \in Vol : Ends("newton", seed)
       ELSE Ends("raised", 1)

\* One iteration: the answer, no vega, or a step, clipped to the range.
Newton ==
    /\ solve.stage = "newton" /\ solve.n < MaxNewton
    /\ \/ Close(solve.sigma) /\ Ends("answered", solve.sigma)
       \/ ~Close(solve.sigma) /\ solve' = [solve EXCEPT !.stage = "bisect", !.n = 0]
       \/ /\ ~Close(solve.sigma)
          /\ \E s \in 1 .. Top :
                /\ IF Diff(solve.sigma) > 0 THEN s <= solve.sigma
                   ELSE s >= solve.sigma \/ s = Top
                /\ solve' = [solve EXCEPT !.sigma = s, !.n = @ + 1]

GiveUpNewton ==
    /\ solve.stage = "newton" /\ solve.n = MaxNewton
    /\ solve' = [solve EXCEPT !.stage = "bisect", !.n = 0]

Mid == (solve.lo + solve.hi) \div 2

\* Mutant: the half that cannot hold the price is kept.
Halve_Swapped == IF Diff(Mid) > 0 THEN [solve EXCEPT !.lo = Mid, !.n = @ + 1]
                                  ELSE [solve EXCEPT !.hi = Mid, !.n = @ + 1]

Halve == IF Diff(Mid) > 0 THEN [solve EXCEPT !.hi = Mid, !.n = @ + 1]
                          ELSE [solve EXCEPT !.lo = Mid, !.n = @ + 1]

Bisect ==
    /\ solve.stage = "bisect"
    /\ IF solve.n = Halvings \/ Close(Mid) THEN Ends("answered", Mid) ELSE solve' = Halve

ImpliedVolNext == Quote \/ CheckBounds \/ Newton \/ GiveUpNewton \/ Bisect

ImpliedVolSpec == ImpliedVolInit /\ [][ImpliedVolNext]_solve

-----------------------------------------------------------------------------
\* Whatever Newton's method did, the volatility that is answered reprices the
\* option, or the price crosses the market's next to it; if no volatility up to
\* 5.0 does either, the answer is the end of the searched range that comes
\* closest, and nothing is raised.  Only an expired option or a price that no
\* volatility explains raises.
AnswerExplainsPrice ==
    /\ solve.stage = "answered" =>
          \/ Close(solve.sigma)
          \/ /\ \A s \in 2 .. Top : s <= solve.sigma => Diff(s) <= -Tol
             /\ \A s \in 1 .. Top - 1 : s > solve.sigma => Diff(s) >= Tol
    /\ solve.stage = "raised" => ~solve.alive \/ \A s \in Vol : ~Close(s)
=============================================================================

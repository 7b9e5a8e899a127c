--------------------------- MODULE BacktestReport ---------------------------
(***************************************************************************)
(* What a caller is told of a backtest or a parameter sweep: the frame of  *)
(* cached prices, the runs of the engine over it, the benchmark and the    *)
(* metrics (execute_backtest and sweep_parameter of workers/tasks.py,      *)
(* api/routers/sweep.py, engine/analysis/performance.py).                  *)
(*                                                                         *)
(* The equity curve of a run is an input here (BacktestEngine models it);  *)
(* all curves start with the initial capital, since the first target is    *)
(* executed on the second session.  Equity may fall below zero (a short    *)
(* position has no limit); a curve that is exactly zero at a session is    *)
(* left out, its returns are not numbers.  Ratios of statistics are left   *)
(* out.                                                                    *)
(***************************************************************************)
EXTENDS Integers, Sequences, FiniteSetsExt, SequencesExt, Ranking

CONSTANTS
    Security,          \* symbols of the request
    LastSession,       \* dates are 1 .. LastSession
    Windows,           \* <<start, end>> of requests
    BenchmarkBars,     \* contents of the benchmark's file: date -> close, 0 for none
    StartEquity,       \* initial_capital
    Equities,          \* equities that occur
    Grid               \* values of the sweep, in order

ASSUME ReportAssumption ==
    /\ LastSession \in Nat \ {0} /\ Windows \subseteq (1 .. LastSession) \X (1 .. LastSession)
    /\ BenchmarkBars \subseteq [1 .. LastSession -> Nat]
    /\ StartEquity \in Nat \ {0} /\ Equities \subseteq Int \ {0}
    /\ Grid \in Seq(Int) /\ Grid # << >>

VARIABLES
    cached,            \* [stocks: symbol -> dates with a bar, benchmark]
    request,           \* [kind, window, left, state]
    points,            \* what is answered, one for each run that worked
    skipped            \* places in the grid whose run raised (history)

reportVars == <<cached, request, points, skipped>>

ReportInit ==
    /\ cached = [stocks |-> [s \in Security |-> {}], benchmark |-> [d \in 1 .. LastSession |-> 0]]
    /\ request = [kind |-> "none", window |-> <<1, LastSession>>, left |-> << >>, state |-> "none"]
    /\ points = << >> /\ skipped = {}

\* _prices_from_cache: the rows are the dates on which any symbol has a bar.
Sessions ==
    {d \in request.window[1] .. request.window[2] : \E s \in Security : d \in cached.stocks[s]}

\* _close_from_cache and reindex: bars on other dates than the sessions are lost.
BenchmarkDates == {d \in Sessions : cached.benchmark[d] # 0}
Since(d) == {k \in BenchmarkDates : k <= d}

\* Mutant: normalised by the first close of the file.
BenchmarkEquity_ByFirstBar(D) ==
    LET bars == {d \in DOMAIN cached.benchmark : cached.benchmark[d] # 0}
    IN [d \in {e \in D : Since(e) # {}} |->
           <<StartEquity * cached.benchmark[Max(Since(d))], cached.benchmark[Min(bars)]>>]

\* _benchmark_equity: forward-filled, normalised by the first aligned close;
\* a pair <<a, b>> stands for a / b.  The empty function stands for None.
BenchmarkEquity(D) ==
    [d \in {e \in D : Since(e) # {}} |->
        <<StartEquity * cached.benchmark[Max(Since(d))], cached.benchmark[Min(BenchmarkDates)]>>]

\* drawdown_series is negative.
Underwater(curve, d) == \E k \in DOMAIN curve : k < d /\ curve[k] > curve[d]

\* Mutant: a new high does not end the stretch.
Longer_NoReset(acc, below) ==
    LET n == IF below THEN acc.current + 1 ELSE acc.current
    IN [current |-> n, longest |-> IF n > acc.longest THEN n ELSE acc.longest]

\* One session, below the last high or not.
Longer(acc, below) ==
    LET n == IF below THEN acc.current + 1 ELSE 0
    IN [current |-> n, longest |-> IF n > acc.longest THEN n ELSE acc.longest]

\* _max_drawdown_days: the longest stretch of sessions below the last high.
MaxDrawdownDays(curve) ==
    FoldLeft(LAMBDA acc, d : Longer(acc, Underwater(curve, d)), [current |-> 0, longest |-> 0],
             Sorted([d \in DOMAIN curve |-> d])).longest

\* The summary of a run.
Summary(curve) == [initial |-> StartEquity, final |-> curve[Max(DOMAIN curve)]]

Before(curve, d) == {k \in DOMAIN curve : k < d}

\* drawdown_series: equity below the running maximum, <<below, high>>.
High(curve, d) == Max({curve[k] : k \in Before(curve, d) \cup {d}})
Deeper(curve, d, k) == curve[d] * High(curve, k) < curve[k] * High(curve, d)
Worst(curve) == CHOOSE d \in DOMAIN curve : \A k \in DOMAIN curve : ~Deeper(curve, k, d)

\* A return above zero: equity above the session before or, where that is
\* negative, below it, since pct_change divides by it.
PositiveReturn(curve, d) ==
    /\ Before(curve, d) # {}
    /\ LET last == curve[Max(Before(curve, d))]
       IN  IF last > 0 THEN curve[d] > last ELSE curve[d] < last

\* performance_stats without its ratios: the first session's return is 0 and
\* counts; the maximal drawdown is that of the worst session.
PerformanceStats(curve) ==
    [n |-> Cardinality(DOMAIN curve),
     hits |-> Cardinality({d \in DOMAIN curve : PositiveReturn(curve, d)}),
     days |-> MaxDrawdownDays(curve),
     worst |-> <<curve[Worst(curve)], High(curve, Worst(curve))>>]

\* BacktestEngine.run
Curves == {c \in [Sessions -> Equities] : c[Min(Sessions)] = StartEquity}

\* performance_stats raises for a single return.
TooShort == Cardinality(Sessions) < 2

-----------------------------------------------------------------------------
Ask(kind, values) ==
    /\ request.kind = "none"
    /\ \E stocks \in [Security -> SUBSET (1 .. LastSession)], bench \in BenchmarkBars, w \in Windows :
          /\ cached' = [stocks |-> stocks, benchmark |-> bench]
          /\ request' = [kind |-> kind, window |-> w, left |-> values, state |-> "running"]
    /\ UNCHANGED <<points, skipped>>

\* run_sweep and a job of run_backtest.
AskSweep == Ask("sweep", Grid)
AskBacktest == Ask("backtest", <<Head(Grid)>>)

\* A sweep answers 422, a backtest fails.
NoData ==
    /\ request.state = "running" /\ Sessions = {}
    /\ request' = [request EXCEPT !.state = "refused"]
    /\ UNCHANGED <<cached, points, skipped>>

\* Single-factor attribution: None without a benchmark or if the regression raises.
Attributed == IF BenchmarkEquity(Sessions) = << >> THEN {FALSE} ELSE BOOLEAN

\* A report carries the benchmark too, a point of a sweep does not.
Point(value, curve, alpha, benchmark) ==
    [value |-> value, summary |-> Summary(curve), stats |-> PerformanceStats(curve),
     alpha |-> alpha, curve |-> curve, benchmark |-> benchmark]

\* One value of the sweep.
SweepValue ==
    /\ request.kind = "sweep" /\ request.state = "running" /\ Sessions # {}
    /\ request.left # << >>
    /\ ~TooShort
    /\ \E c \in Curves, alpha \in Attributed :
          points' = Append(points, Point(Head(request.left), c, alpha, << >>))
    /\ request' = [request EXCEPT !.left = Tail(@)]
    /\ UNCHANGED <<cached, skipped>>

\* A degenerate value raises and is skipped.
SkipValue ==
    /\ request.kind = "sweep" /\ request.state = "running" /\ Sessions # {}
    /\ request.left # << >>
    /\ skipped' = skipped \cup {Len(Grid) - Len(request.left) + 1}
    /\ request' = [request EXCEPT !.left = Tail(@)]
    /\ UNCHANGED <<cached, points>>

SweepEnds ==
    /\ request.kind = "sweep" /\ request.state = "running" /\ Sessions # {}
    /\ request.left = << >>
    /\ request' = [request EXCEPT !.state = "answered"]
    /\ UNCHANGED <<cached, points, skipped>>

\* The worker's run: the report carries the curve and the benchmark by date, or
\* the run fails.
ExecuteBacktest ==
    /\ request.kind = "backtest" /\ request.state = "running" /\ Sessions # {}
    /\ \/ /\ ~TooShort
          /\ \E c \in Curves, alpha \in Attributed :
                points' = <<Point(Head(request.left), c, alpha, BenchmarkEquity(Sessions))>>
          /\ request' = [request EXCEPT !.state = "answered"]
       \/ /\ request' = [request EXCEPT !.state = "refused"]
          /\ UNCHANGED points
    /\ UNCHANGED <<cached, skipped>>

ReportNext ==
    AskSweep \/ AskBacktest \/ NoData \/ SweepValue \/ SkipValue \/ SweepEnds \/ ExecuteBacktest

ReportSpec == ReportInit /\ [][ReportNext]_reportVars

-----------------------------------------------------------------------------
\* The benchmark that a report overlays is the buy-and-hold of what is known on
\* each session: it starts with the capital on the first session that has a
\* benchmark bar, is there on every later one, moves with the close where there
\* is a bar and stands still where there is none.
BenchmarkIsBuyAndHold ==
    (request.kind = "backtest" /\ request.state = "answered") =>
        LET b == points[1].benchmark
            held == DOMAIN b
            before(d) == Max({k \in held : k < d})
        IN /\ held = {d \in Sessions : \E k \in Sessions : k <= d /\ cached.benchmark[k] # 0}
           /\ \A d \in held :
                 IF \A k \in held : k >= d
                 THEN b[d][1] = StartEquity * b[d][2] /\ cached.benchmark[d] # 0
                 ELSE IF cached.benchmark[d] = 0 THEN b[d] = b[before(d)]
                      ELSE b[d][1] = StartEquity * cached.benchmark[d] /\ b[d][2] = b[before(d)][2]

\* Each point of an answered sweep describes the run of its own value: the
\* points follow the grid, every value has one unless its run raised, which
\* over a single session all of them do; its drawdown days are the longest
\* stretch of sessions that its own curve stayed below an earlier high, which
\* there is exactly if the worst drawdown is one, and no drop from a session to
\* a later one is deeper, if equity did not fall below zero; nor then does a run
\* without hits end higher than it began, and one without drawdown days ends
\* higher exactly if it has hits.
PointsDescribeTheirRuns ==
    request.state = "answered" =>
        /\ request.kind = "sweep" =>
              /\ LET worked == DOMAIN Grid \ skipped
                 IN /\ Len(points) = Cardinality(worked)
                    /\ \A k \in worked :
                          points[Cardinality({j \in worked : j <= k})].value = Grid[k]
              /\ TooShort => points = << >>
        /\ \A i \in DOMAIN points :
              LET c == points[i].curve
                  sessions(q) == DOMAIN c \cap q[1] .. q[2]
                  below == {q \in (1 .. LastSession) \X (1 .. LastSession) :
                              \A d \in sessions(q) : \E k \in DOMAIN c : k < d /\ c[k] > c[d]}
                  stats == points[i].stats
                  solvent == \A d \in DOMAIN c : c[d] > 0
              IN /\ stats.days > 0 <=> stats.worst[1] < stats.worst[2]
                 /\ solvent /\ stats.hits = 0 => points[i].summary.final <= points[i].summary.initial
                 /\ solvent /\ stats.days = 0 =>
                       (stats.hits > 0 <=> points[i].summary.final > points[i].summary.initial)
                 /\ stats.worst[1] >= 0 => \A k, d \in DOMAIN c :
                       k <= d => c[d] * stats.worst[2] >= c[k] * stats.worst[1]
                 /\ stats.days = Max({Cardinality(sessions(q)) : q \in below})
=============================================================================

# Verification of quant-pilot

TLA+ modules that model the parts of quant-pilot where order, failure and concurrency decide
what is correct, TLC runs over small instances of them, and TLAPS proofs for all instances.
Paths such as `api/routers/orders.py` are relative to `src/src/quant_pilot/`.

## 1. Inventory

quant-pilot is a FastAPI service, an RQ worker, a scheduler and a React dashboard around a
library of strategies, a backtest engine and risk code. PostgreSQL keeps rows, Redis the job
queue, the file system the price cache and the artifacts. The paper broker is an object inside
the API process.

| Component | State | Operations | Interaction | What is hard | What makes it correct |
|---|---|---|---|---|---|
| Paper broker (`adapters/broker/paper_broker.py`) | cash, positions, marks, `_orders`, halt flag | place, modify, cancel, set_mark, update_marks, halt, resume | called by API threads and a mark feed, no lock | sweep over a snapshot; orders superseded by id; restart loses all | never overdrawn, each fill booked once, no reached order rests, halt stops new orders |
| Broker port (`domain/ports.py`) | none | the interface | between API and brokers | the promise is implicit | stated in `BrokerContract` |
| Order path (`api/routers/orders.py`, `system.py`, `api/security/auth.py`) | orders and audit tables | propose, approve, halt, resume, list | one session per request, the broker acts before the commit | broker and table disagree after a failure; concurrent approvals | the table and the log never tell of what did not happen; a decided row changes only with the object it names |
| Unit of work, repository (`db/session.py`, `adapters/persistence/repository.py`) | rows | save, get, append, list | commit after the handler | rows loaded twice, row locks, lost columns | see the order path and the jobs |
| Backtest jobs (`api/routers/backtests.py`, `workers/tasks.py`, `workers/queue.py`, `adapters/artifacts/local_store.py`) | run rows, RQ jobs, artifact files | submit, execute, settle | API enqueues, worker loads and stores | enqueue before commit; two transactions around the computation; dying workers | outcomes final, success has its curve, every visible run gets an outcome |
| Job status and stream (`api/routers/jobs.py`) | none | poll, stream | reads RQ | bounded stream | ends; an outcome it tells is true |
| Ingest and sweep endpoints (`api/routers/data.py`, `sweep.py`, `universe.py`, `portfolio.py`) | none | enqueue or compute | queue, cache | partial batches; points of a sweep that are skipped | the result accounts for every symbol, the points for their own runs |
| Price cache, provider (`adapters/data/parquet_cache.py`, `yfinance_provider.py`) | one parquet file per symbol | read, merge, fetch | several workers on one file | lost update, torn read, coverage with holes | bars neither vanish nor age; a covered range has its bars |
| Universe and quality (`engine/data/`) | membership rows | intervals, matrix, checks, adjustment | ingest task | half-open intervals, rerun | intervals reproduce the list of each date, once; a repeated ingest does not, see the findings |
| Backtest engine (`engine/backtest/`) | shares, cash per day | rebalance | strategies' weights | caps, halted symbols, missing prices; formulas written twice | trades follow decisions of earlier closes, no borrowing but for what was held back, both cost forms agree |
| Strategies (`engine/strategies/`) | pair automaton, band | weights per bar | engine | stop-out and re-entry, missing bars | a position has its entry, a pair is retired when it stopped crossing, the tilt stays invested |
| Risk (`engine/risk/`) | drawdown monitor | update, mask, caps | engine, live | monitor and mask are written twice | they agree; caps hold after scaling |
| SmartAPI broker (`adapters/broker/smartapi_broker.py`) | none | the Broker port over HTTP | exchange | lost responses, lenient parsing, unknown states | what an order book read calls final is final at the exchange |
| Live readiness (`live/`) | slippage samples | reconcile, slippage, pnl | snapshots | answers that read as empty | a report that is ok means that book and exchange agree; a flag means an adverse fill |
| Scheduler (`workers/scheduler.py`) | one cron job | enqueue nightly | queue | overlaps with manual ingests | |
| Analysis, pricing models (`engine/analysis/`, `engine/models/`) | none | metrics, implied volatility, tail risk; floating-point functions | report, sizing | a search that leaves its range | an answered volatility explains the price, the tail is the tail |
| Application shell, migrations, dashboard | settings, schema | wiring, rendering | | | |

The hazards of this code, each at its line with the properties that cover it, are the
`hazards` of `PROJECT.json`. Where the code has the fault that a hazard names, and a property
holds only because of a premise that excludes it, the hazard has no property and says so.

## 2. Plan

Written, in this order, the most important behaviour first:

1. `BrokerContract`, `PaperBroker`: the broker and what the API relies on.
2. `OrderPath`: the broker composed with API threads, the tables and failures.
3. `BacktestJobs`: submission, queue, worker, artifact, row.
4. `PaperBroker_proofs`, `BacktestJobs_proofs`: their safety properties, proved.
5. `PriceCache`, and `PriceIngest` on top of it: the file, the job that fills it, the stream
   that tells of the job.
6. `SmartApiBroker`: the live adapter, an exchange that loses answers, the checks of `live/`.
7. `BacktestEngine`, `PairSignal`, `Momentum`, `Costs`, `BacktestReport`: a backtest from the
   strategies' targets to the report.
8. `Universe`, `Quality`, `Selection`, `Sizing`, `Drawdown`, `TailRisk`, `ImpliedVol`: research
   and risk.
9. `OrderPath_proofs`, `PriceIngest_proofs`, `SmartApiBroker_proofs`: the other components with
   concurrency, failures or an exchange.
10. `DataLemmas`: sums over finite sets, folds and sorted orders, for the proofs about money,
    quantities, weights and series.
11. `Backtest_proofs`, `Research_proofs`: the algorithms, for series and rows of any length.
12. `Ranking`: sorting as an operator that can be proved about, and with it the proofs about
    `Universe`, `Selection`, `TailRisk`, `BacktestReport` and the stale runs of `Quality`, in
    the modules of 11.

Left, in the order of what each would add:

13. The broker at the grain of single assignments, for two threads inside one method.
14. Average prices of positions as rationals; the P&L divergence of `live/pnl.py`.

## 3. Modules

### PaperBroker

One action per method of `PaperBroker`; the helper operators are its private methods under the
same names (`Marketable`, `Fill`, `Reject`, `ProcessPending`). A method is one step, except the
sweep `_process_pending`: `set_mark` and `update_marks` store the marks and take the snapshot
`list(self._orders.values())` into `sweep`, and each iteration is a step, so that other threads'
calls fall between iterations. The marks come from one feed thread: a new mark waits for the
end of the sweep.

Order objects have identity, because the code's hazards depend on it: `place_order` copies its
argument under a new `broker_order_id`, the dictionary maps the order's id to the copy stored
last, and the snapshot, the caller and the dictionary may hold different copies of one order.
`objects` is the heap (index = broker_order_id), `orders` and `keys` the dictionary with its
insertion order. Objects of earlier processes stay in `objects`; `boot` tells them apart.

What is abstracted:

- A price is a positive natural; `Impact(p)` and `Cost(side, p, q)` are constant operators with
  the bounds of `compute_impact` (0 to the mark) and `compute_costs` (0 to the turnover: each
  charge is a fraction of the turnover, the brokerage the lower of a fee and a fraction). Float
  rounding is left out.
- The absent mark and a mark of 0 or below are `NoMark`: every method treats them alike, except
  a negative mark in the sweep, which no feed delivers.
- `modify_order` takes quantities of `Qty`; the code does not check them. Each call sets both
  fields; to change one of them is to set the other to its value.
- The average price of a position, reasons and time stamps are left out; the getters are
  read-only.

### BrokerContract

The abstract specification: objects are decided once, a halted broker executes only what was
resting, cash moves with executions and sessions only and stays at zero or above.
`PaperBroker!Contract` is the refinement mapping; `status` of an object that does not exist yet
is `"none"`.

### OrderPath

API threads over `Broker == INSTANCE PaperBroker`, the tables `rows` and `audit`, and failures.
An approval is seven steps (read, place, load, assign, save, audit, commit), because its session
sees the table only when it reads and others see its writes only after the commit (PostgreSQL's
READ COMMITTED), while the broker acts at once.

The row is loaded twice. `get_order` returns a copy and keeps no reference to the mapped object;
the session's identity map is weak, so the object is gone when `save_order` asks for it
(`repository.py:127`), which selects again and sees what others committed in between
(`ApproveLoad`). `save_order` assigns all columns (`ApproveAssign`) and flushes
(`ApproveSave`); the UPDATE writes those that differ from the row loaded last, so `Written` is
`Same` for an equal status. It locks the row (`Locked`) until the session ends. `result[t]`
refers to the broker's live object; its status is read again for the audit event. Requests that
a gate refuses change nothing and are no steps. `propose_order` is one step, for nobody sees its
rows before the commit. The mark feed is the caller of `set_mark` and `update_marks`: in `src/`
these are called from tests only.

So a decided row does not always stay decided. Two approvals of a limit order may overlap: the
object of the first executes and its row becomes filled; the object of the second rests, its
session loads the filled row and writes pending over it, or rejected. `DecisionsFollowObjects`
says what does hold: the status of a decided row changes only together with the object the row
names, to what this object came to, and only a limit order can be pending again. A row that has
been reopened can be approved again; that one order executes twice is the finding of
`order_twice`, which needs no overlap.

### BacktestJobs

`submit_backtest` in three steps (insert, enqueue, commit), RQ's queue and job states as far as
the code observes them (external), and `run_backtest`: load and mark RUNNING, compute, write
the artifact in place, settle in a second transaction, return. `ComputeFails` is everything the
try block catches, the time limit of the queue included; `JobFails` is what it does not catch
and the death of the worker process; RQ does not retry. `Quiet` marks the states in which all
submissions have ended. A run's row is its status (`WithRun`, `Updated`); `GetEquityCurve` serves
the file as it is.

### PriceCache

The parquet file of a symbol and the three kinds of calls that touch it: `get_ohlcv` (bars),
`_prices_from_cache` (a backtest or a sweep) and `get_liquidity`. A call is a record
`call[p]` that goes through the stages read, download, merge, open, close, one step per access
of the file, because several processes use it without a lock: opening for writing truncates
(`torn`, and reading a torn file raises), and what two writers that had it open at once leave
behind is either's bars or a mixture. A bar is the revision of the vendor's data it was
downloaded from, 0 for none; `Restate` is the vendor that adjusts its history. `CallFails` is
an I/O error or the time limit of the job, `ProcessDies` the end of the process.

`serial` and `answered` are history. `serial` says that no two calls fetched one symbol at once
and no write broke off; without it the code does lose bars (the lost update is in
`MergeRead`/`CloseFile`, and dropping `serial` from AnsweredStaysCached makes TLC show it).
`Covers` looks at the first and the last cached bar, as the code does, hence the exception for
holes in CacheAnswersWhole; an end beyond the last bar is never covered.

### PriceIngest

Extends PriceCache with the job (`queue`, `job`, `todo`: RQ as far as the code observes it), the
loop of `ingest_ohlcv` over its batch, the event stream (`stream`) and the requests of API
threads. A job's result is kept as the sequences of symbols that worked and failed, where the
code returns the count of the first and the list of the second. `Expire` is the time to live
of the result, after which `Status` is unknown. `Status` is also unknown whenever Redis does not
answer (`~heard`: the bare except of `workers/queue.py:54` takes every exception alike), and
every poll may meet that. The client cannot tell the two, hence the form of
`StreamEndsWithTheJob`: finished and failed are true, unknown says that the job is gone only if
Redis answered.

### SmartApiBroker

The adapter's methods against `exchange`, the true state of each order. The exchange opens,
executes and rejects orders on its own. A response has a shape: the payload under `"data"`, the
bare payload, a text (which `_order_id` takes for the id), or an error body, which `_rows` reads
as empty; `Malformed` is a field that is not a number, which `_f` reads as 0. `PlaceOrder`
covers an order that was taken though the caller saw an exception. The trader's own acts are the
environment: which calls are made when, and that `book` gets every fill an order book read
shows. `positions` is the exchange's truth, `report` the last reconciliation with the sets it
compared, `samples` the slippage monitor's fills. `get_margin` is left out.

### BacktestEngine

One action per iteration of the daily loop: the open trades the target decided on an earlier
close, if it changed; the close values the holdings, and the row that the strategy decides at
this close waits for the next day (the shift of the target frame). Shares are whole and weights
are units of 1/Unit, rounded towards zero; the code's shares are fractions. `last` is history:
the last rebalance, what it cost and what halted or capped sales it left (`HeldBack`).

### PairSignal

One action per bar, one clause per branch of `pair_leg_weights`. The z-scores come in any
order, so a series that no rolling statistics produces is covered too. `zs` is history; the
properties recompute from it, without the code's counters, when the pair is retired and which
bar entered.

### Momentum

One target row per month from scores, membership and inverse volatility. Ties go to the
earlier column, as `nlargest` does. The infinite inverse of a zero volatility counts as
unknown, as in the code. Fractions are units of 1/WeightUnit, rounded down.

### Costs

Scalar and vectorised forms of charges, impact and participation cap, in integers; rates are
units of 1/Den, and the square root is any function.

### BacktestReport

The frame of cached prices, the sweep over a grid (a value that raises is skipped), the
benchmark and the metrics that count and compare (drawdown, its duration, hits). An equity
curve is an input here and an output of BacktestEngine.

`skipped` is history: the places of the grid whose run raised. A drawdown is the pair of the
worst session's equity and the high before it (`Worst`, `High`); `Longer` is one turn of the
loop that counts its days. A point carries a benchmark field, which only a report fills
(`BenchmarkEquity`, the empty function where the code has None). Equities may be negative, as
the engine's can; the sign of a return then turns around, since `pct_change` divides by the
session before, and hits are the returns above zero (`PositiveReturn`). A curve that is exactly
zero at a session is left out: the next return is infinite or not a number and so is the
drawdown. What the hits tell of the end of a curve is claimed for curves above zero; that no
later drop is deeper than the worst drawdown is claimed only where the worst equity is not
negative: below zero, the same equity is the deeper drop the lower the session it is compared
with.

### Ranking

What `list.sort`, `sorted` and numpy's `sort` do, for integer keys of any finite set of
positions or dates: the place of a key is the number of keys that are not after it, equal keys
in the order of what they are keys of. The recursive and higher-order operators for sorting of
the community modules are out of the provers' reach.

### Universe

Add and drop events of one symbol in one index, the jobs that turn the whole file into
intervals and append them, and the queries by date. `committed` remembers the contents that
were ingested. The end of an interval is the date of the drop, exclusive; `Open` is no end.
`Members` is the set of the rows that a query by date returns, one position for each row.
`MembershipIsExact` says what the rows are worth: one ingest gives exactly the names of its
file, each once; several give at least the names that all their files have and no name that
none has. Where the files differ the code does not rebuild: `RebuildIsExact` is the sentence of
the docstrings, and a finding.

### Quality, Selection, Sizing, TailRisk, Drawdown, ImpliedVol

Pure algorithms, each with an action that chooses the next input and an invariant that compares
the result with a definition of its own. Quality grows a series row by row. Selection takes
p-values and fits as inputs and applies the multiple-testing control to the candidates with a
liquid future (`Liquid`). Sizing rounds a scaled
weight towards zero. TailRisk keeps fractions as pairs. Drawdown feeds the latching monitor
and recomputes the mask over the curve; the two differ when the peak is zero or below, and
equal limits at the last digit of a float are outside the model. ImpliedVol searches a grid
over which the price is any rising function; a Newton step goes any distance in the right
direction, which includes the steps the code really takes.

### Modules of proofs

One per component or group of components, each EXTENDS the modules it proves about:
`PaperBroker_proofs`, `OrderPath_proofs`, `BacktestJobs_proofs`, `PriceIngest_proofs` (with
`PriceCache`), `SmartApiBroker_proofs`, `Backtest_proofs` (`BacktestEngine`, `PairSignal`,
`Momentum`, `Costs`, `BacktestReport`), `Research_proofs` (`Universe`, `Quality`, `Selection`,
`Sizing`, `Drawdown`, `TailRisk`, `ImpliedVol`). `DataLemmas` holds the lemmas they share. Section 5 tells what they prove.

## 4. Runs

| Run | Instance | Shows |
|---|---|---|
| `paper_broker` | 1 symbol, 2 marks, quantities 1 and 2, 3 orders (a resting purchase, a market purchase, a resting sale), 3 objects, cash for 2 shares at the low mark | types, CashNonNegative, RestingOrdersUncrossed, BookMatchesFills, ImplementsContract |
| `kill_switch` | the same | a resting order executes while halted, by `modify_order` after the halt (finding); a mark that reaches it does the same |
| `order_path` | 2 threads, 2 orders, 2 objects, database failures, restarts | FilledRowWasExecuted, AuditTellsTheOutcome, RowObjectIsAudited, DecisionsFollowObjects |
| `order_requests` | the same without failures | MarketFillIsRecorded, RequestsEnd |
| `order_twice` | 1 thread, no failures | a resting order is approved twice and executes twice (finding) |
| `halt_restart` | as `order_path` | a restart ends a halt (finding) |
| `backtest_jobs` | 2 runs, 2 workers, failures | SucceededHasCurve, RunningHasWorker, OutcomeIsFinal, VisibleRunSettles |
| `job_race` | 1 run, 1 worker, no failures | a finished job leaves its run queued (finding) |
| `price_ingest` | a worker and an API thread, 1 symbol, 3 days, 2 ranges, 2 revisions, one batch that names the symbol twice, 1 request, 1 failure, a stream of at most 3 events | AnsweredStaysCached, FinishedIsAccounted, StreamEndsWithTheJob, CacheAnswersWhole, StreamsAndJobsEnd |
| `live` | 4 requests (a purchase and a smaller sale of one symbol, a purchase without an expected price, one without a token), 1 lost or malformed answer | ViewTellsTheTruth, ReportMatchesFills, FlaggedMeansAdverse |
| `analysis` | see below | of a backtest BorrowsOnlyForHeldBack, TradesFollowDecisions, RetiredAfterNoCross, PositionHasItsEntry, TiltIsInvestable, ScalarAgreesWithVector, BenchmarkIsBuyAndHold, PointsDescribeTheirRuns; of research and risk MembershipIsExact, StaleRunsAreMaximal, SelectedAreDiscoveries, CapsHold, MonitorAgreesWithMask, PassedSeriesIsContinuous, SizesRespectRisk, AnswerExplainsPrice |
| `universe_rebuild` | 2 ingests, 2 events, 2 dates | a drop that was added to the file leaves the name in the index (finding) |

Bounds. `MaxObjects` limits the order objects of a behaviour; three let one order supersede
another's object while a third is in the sweep, two let both threads place the same order or
one each. Two marks make every limit reached or not. A cash of 30 lets one of two purchases
fail for want of cash, also within one sweep. One symbol is enough for what the broker's
methods share (cash and the dictionary); positions of different symbols never meet.
`ApproveRead` keeps approvals within `MaxObjects` so that no handler is stuck at the bound.
Two runs and two workers let an orphaned job and a live one compete.

`order_path` (770 000 states) and `order_requests` (245 000). Two requests and two objects are
enough for a row that one session loads before and another after a commit.

`price_ingest` (173 000 states). Two processes are enough for a lost update and for a reader
that meets a torn file, three days for a hole, two revisions for a bar that could age. Ranges
and requests end before or on the last day, so that a call may be covered or not. One failure
is one of: a refused or partial download, an error anywhere in a call, the death of the worker.

`live` (1.7 million states). Each request has the feature that its comment in
`MCSmartApiBroker` names; one fault at a time is what the adapter's caller can be expected to
survive, and it meets every order of the exchange's steps.

`analysis` (730 000 states). The modules composed in `MCAnalysis` share no state. A behaviour
chooses one of them at the start (`part`), so that their state spaces add up. Instances: two
stocks, one with a volume that caps it, over 4 days; pairs of 5 bars around all four bands; four
stocks over 3 months; orders of both sides where the flat fee binds and where it does not;
reports over 4 sessions with late, missing and absent benchmarks and curves above the capital
and below zero. Two ingests of a file of up to 3 events on 3 dates; series of 5 rows
with gaps, zeros and jumps; up to 3 candidate pairs with p-values on and between the thresholds;
all rows of 4 symbols in two sectors and none; curves of 5 equities around a limit of 15
percent; 5 returns with ties; all rising prices over a grid of 7 volatilities.

`CHECK_DEADLOCK FALSE` stands in `price_ingest`, `live`, `analysis` and `universe_rebuild`: their
systems really stop, when all series have their full length, all jobs have expired or ended, or
all orders are decided.

Fairness. `OrderPath` assumes weak fairness of each thread's handler: the thread pool runs its
threads. A thread that waits for a row is enabled once the row is free, and the holder is
itself fair. Failures, restarts, marks and new requests are not fair. `BacktestJobs` assumes it
of submissions that have started and of worker processes; no fairness of failures. The paper
broker has no liveness of its own. `PriceIngest` assumes it of the worker's steps (RQ's worker
goes on with the job it has; a call ends or raises) and of the polls of a stream (a loop with a
sleep of a second); API threads, new requests, failures, expiry and the vendor are not fair.

Findings. Five runs expect a violation, each of a sentence of the documentation or a comment;
`PROJECT.json` quotes them.

## 5. Proofs

`PaperBroker_proofs` assumes what `PaperBroker` assumes of its constants (prices and quantities
positive, impact at most the mark, cost at most the turnover, orders well-typed) and proves,
for all constants:

- `TypeCorrect`: `Spec => []TypeOK`. TypeOK is not inductive, since a sweep collects
  `orders[keys[k]]` and 0 (absent) is no object. `BookInv` adds `KeysAreStored`: `keys` lists
  exactly the ids that are stored. `StoreKeepsBook` shows that a store keeps it, whether the id
  is new or known.
- `NeverOverdrawn`: `Spec => []CashNonNegative`, from `BookInv` and `FillMoney`: a purchase
  passed `Affordable`, and a sale's charges are at most its proceeds.
- `RestingUncrossed`: `Spec => []RestingOrdersUncrossed`, with `BookInv`. `StoreKeepsResting`
  treats every method at once: the object stored is decided or not reached, and the sweep gives
  up at most this object. `SweepHoldsAll` needs `KeysAreStored` again.
- `ContractImplemented`: `Spec => Contract!Spec`. `StoreIsStatusChange` maps a store to a
  change of one status, `FillIsContractStep` a fill to Execute or Refuse.
- `BooksBalance`: `Spec => []BookMatchesFills`. The invariant `MoneyInv` adds two facts to
  `BookInv`: a filled object shows a price of `FillPrice` (`FilledAtMark`), so that its costs
  are those the assumption bounds, and the dictionary and the sweep hold objects of this
  process only (`OwnObjects`), so that a fill adds to the sum over this process's fills.
  `BooksGrow` is the step: one object more is filled, and cash and one position change by what
  it paid and bought.

`BacktestJobs_proofs` assumes only that `NoRun` is no run and proves, for all sets of runs and
workers and with or without failures:

- `CurveForEverySuccess`: `Spec => []SucceededHasCurve`.
- `RunningIsWorkedOn`: `Spec => []RunningHasWorker`.
- `OutcomesAreFinal`: `Spec => OutcomeIsFinal`.
- `TypeCorrect`: `Spec => []TypeOK`.

The first three properties look at rows, files and jobs only and are not inductive. `Inv` adds
`JobInv` (a job that waits is in the queue once and at no worker, two workers never hold the
same run) and `OutcomeInv` (what the worker at each point of `run_backtest` knows of the row
and the file, for example that the row it is about to settle is running). There is one lemma
per action; `EndJobStep` and `ComputedStep` serve the actions that end a job or a try block.

`OrderPath_proofs` assumes `BrokerAssumption`, which is the paper broker's assumption on prices,
impact and costs for the constants of the order path, and proves, for all sets of threads and
orders, with or without failures and restarts except in the last:

- `FilledRowsWereExecuted`: `Spec => []FilledRowWasExecuted`.
- `AuditIsTrue`: `Spec => []AuditTellsTheOutcome`.
- `RowsAreAudited`: `Spec => []RowObjectIsAudited`.
- `DecisionsFollow`: `Spec => DecisionsFollowObjects`.
- `DrivesBroker`: `Spec => BP!Spec`, and `SharedBrokerIsSound`:
  `Spec => [](BP!CashNonNegative /\ BP!RestingOrdersUncrossed /\ BP!BookMatchesFills)` and
  `Spec => BP!ImplementsContract`.
- `MarketFillsAreRecorded`: `Spec => []MarketFillIsRecorded` where the database does not fail
  and the process does not restart (`~DbFailures`, `~Restarts`), the conditions of the run
  `order_requests`. With either the property does not hold: a broker that executed before a
  commit that failed is what the code has.

What an approval commits was true when it looked at the broker's object, some steps earlier, and
the broker went on meanwhile. The argument is that the broker's objects only change in one
direction: `ObjectsKept` (no object disappears, changes its order or takes back a decision) is
proved in `PaperBroker_proofs` for every method and reaches this module through
`BP == INSTANCE PaperBroker_proofs`. The inductive invariant `PathInv` joins the broker's
`BookInv`, the types, `TablesInv` (what rows and events claim) and `ThreadOK`, what a handler
between two of its steps knows. `DecisionsFollow` needs two invariants more (`DecisionInv`):
each handler has an object of its own (`OwnObject`), so that a commit changes the object a
decided row names, and it is an object of the row's order (`OfItsRow`); what the handler writes
is what its object came to, or pending, which a market order's object never is.
`MarketFillsAreRecorded` follows the object of
a market order from its placement to the commit of the request that placed it (`RecordInv`):
the object is decided when `place_order` returns, so the request reads a status it will write.
`DrivesBroker` is the composition: a step of the order path is one step of the broker or none
(`BrokerStep`; `PathInv` is needed because a handler places the order of the row it read), so
the theorems about the broker alone carry over to the one that all threads share.

`DataLemmas` proves what the others need of `MapThenSumSet`. The library states induction over
finite sets for an operator parameter, which the provers cannot instantiate; `SetInduction`
states it for a set of good subsets instead and follows from `LeastNat` (a set of natural
numbers has a least element, by the library's `WFMin`), by way of a smallest bad subset.
`SumOf(F, S)` is the sum of a function; `SumIs` and `FunctionSum` show that every function that
unfolds as the fold does gives the same values, so that the sums of the models are sums of
functions. From these follow type, addition of an element, bounds, monotony, products, and
`QuotientSum`: rounded quotients add up to the quotient of the sum but for less than one unit
each.

`FoldLeft` is treated the same way. It unfolds a recursion over the subsets of the positions
that takes the last position of the set; `FoldsExist` builds the function of that recursion
from functions for the sets of up to k positions, and `PrefixOf` says that on the first k
positions it removes the k-th. So a fold over a sequence has a value after each of its elements,
of which the next is one turn of the loop (`StaleFold`, `ConsumeFold`, `DaysFold`), and an
invariant of the loop goes through by `NumbersFrom0`. `RankIs`, `SortOrderIs` and `SortedIs` are
the facts about `Ranking`: ranks are the places 1 to n and each is taken once, the order of
places is the order of the keys, and what is sorted rises.

`PriceIngest_proofs` assumes `CacheAssumption` and `IngestAssumption` (days are numbered, ranges
are pairs of days, a worker is a process, a batch is a sequence of symbols) and proves, for all
sets of processes, symbols, jobs and clients, whatever fails, is restated or expires:

- `AnswersStayCached`: `Spec => []AnsweredStaysCached`. The invariant `CacheInv` says what a
  call at each of its stages holds against the file, as long as calls are serial: what it will
  merge is not older than the file, what it will write is not older than the file either, and
  while it writes, the file is torn and what it holds is not older than anything answered.
  Only one call writes a symbol (`OneWriter`). There is one lemma per step of a call.
- `CacheAnswersAreWhole`: `Spec => CacheAnswersWhole`. A file without a hole has every day
  between its first and its last.
- `FinishedJobsAreAccounted`: `Spec => []FinishedIsAccounted`, and `StreamsEndWithTheirJobs`:
  `Spec => []StreamEndsWithTheJob`, whatever Redis fails to answer. The invariant `IngestInv` adds to `CacheInv`: a queued job
  is in the queue once and has no result yet, at most one worker holds a job, and done, failed
  and left count each symbol as often as the batch does (`WorkerOK`); a stream's last status is
  true of its job (`StreamOK`). `CountAppend` and `CountTail` count in sequences.

`SmartApiBroker_proofs` assumes `TraderAssumption` (finitely many requests, whole quantities
other than 0, a malformed number is no number) and proves:

- `FinalIsFinal`: `Spec => []ViewTellsTheTruth`, whatever is lost or malformed.
- `ReportsAreRight`: `Spec => []ReportMatchesFills`. The invariant `TradeInv` says that the
  exchange's positions are the sums of what it executed (`PositionsAddUp`). The reconciliation
  walks the symbols that either side names; a symbol that neither names has sum 0 on both.
- `FlagsAreDeserved`: `Spec => []FlaggedMeansAdverse`. Every sample is the slippage of a booked
  fill at a price the exchange may give; a mean above the threshold has a sample above it
  (`FlaggedHasASample`), and such a sample is adverse by its side (`AdverseSample`), although
  the basis points are rounded.

`Backtest_proofs` proves, for any stocks, quotes, rows, z-scores, rates and lengths:

- `BorrowingIsBounded`: `EngineSpec => []BorrowsOnlyForHeldBack`, and `TradesFollow`:
  `EngineSpec => TradesFollowDecisions`, from `EngineAssumption` and `CostsAreWhole` (a charge
  is an integer, of any sign and size; `TradeCost` is an operator, of which TLC cannot evaluate
  this for all prices). The rounded shares of a target are worth at most the account
  (`TargetFits`); each stock's value after the trades is at most its target's or what was held
  back (`RebalanceBorrows`). `EngineInv` adds the types and that nothing was traded before the
  first day.
- `PositionsHaveEntries`: `PairSpec => []PositionHasItsEntry`, and `RetirementIsExact`:
  `PairSpec => []RetiredAfterNoCross`, from `BandAssumption` (the bands and scores are
  integers, NaN is none; nothing on the order of the bands). `PairInv` relates the automaton's
  counters to the series: `Entered` names the bar that opened the position, `LastSide` the last
  bar off the mean, `CountedFrom` the bar after the last crossing, from which the valid bars
  are counted. The property speaks of any window of bars; `CountLive` and `RetireLive` show
  that the window that ends at the new bar decides.
- `RowsAreInvestable`: `MomentumSpec => []TiltIsInvestable`, from `MomentumAssumption`. The row
  of a month is a sum of quotients over the chosen (`RowIsInvested`), of which there is one if
  there is a candidate (`SomeChosen`, by a best score and its first column); the band moves
  each stock by less than its width. That the weights were never negative is needed of the
  month before, so the property is inductive itself.
- `CostModelsAgree`: `CostsSpec => []ScalarAgreesWithVector`, from `CostsAssumption` and
  `RootIsWhole` (the square root is an integer).
- `PointsDescribe`: `ReportSpec => []PointsDescribeTheirRuns`, and `BenchmarkHolds`:
  `ReportSpec => []BenchmarkIsBuyAndHold`, from `ReportAssumption` (sessions are numbered,
  windows are pairs of sessions, closes are natural numbers, the capital is positive, the grid
  is not empty: `api/schemas/sweep.py` and the router refuse one). For any number of sessions,
  any equities but an exact zero and any grid. `ReportInv` says how far the sweep is (`SweepAt`: the values left
  are the end of the grid, the points match the places before them that were not skipped), that
  each point is `Fine` and that a report carries the benchmark of its own sessions; a request's
  sessions never change (`SameSessions`). The statistics come from a theory of curves:
  `HighIs` (the high is attained and bounds what came before), `WorstIs`, `NoHits`,
  `EndsAbove`, and `DaysFold` with the loop invariant `DaysInv` (the current stretch is the
  longest that ends here, the longest is one and none is longer), which `DaysInTurn` carries
  from places in the sorted sessions to ranges of dates. That some session is the worst
  (`WorstIs`) is an induction over finite sets: fractions with positive denominators have a
  least.

`Research_proofs` proves:

- `BreakersAgree`: `DrawdownSpec => []MonitorAgreesWithMask`, for every limit, all integer
  equities and curves of any length. The inductive invariant `MonitorInv` says that the
  monitor's peak is the attained maximum of the curve; `VerdictKept` that a longer curve leaves
  the verdict on its earlier points alone; `VerdictOfLast` that the new point breaches the mask
  exactly when it drops from the new peak.
- `PassedSeriesIsTradeable`: `QualitySpec => []PassedSeriesIsContinuous`, for series of any
  length. `SeriesInv` says that rows come in the order of their dates; the least row that has
  not the date of its number is one after a missing session (`NoGaps`).
- `StaleRunsAreReported`: `QualitySpec => []StaleRunsAreMaximal`, for series of any length with
  any gaps, from a limit of at least 1. The loop invariant is `InRun`: the current run reaches
  back to where the close changed, and those that ended before it are reported (`RunsGrow`);
  `StaleRunsAre` adds the run that the series ends with.
- `IndexIsExact`: `UniverseSpec => []MembershipIsExact`, for any number of dates, events and
  jobs, however their steps overlap. `LoopInv` is the invariant of the loop over the sorted
  events: on each date the closed intervals and the open one cover it once if the last event
  until then is an add and not at all otherwise. `ByDateIs` (a stable sort keeps the file's
  order within a date) takes this from sorted events to those of the file (`IntervalsAre`).
  `UniverseInv` adds that a job which has read holds the intervals of what it read, and that on
  every date as many rows cover it as ingested files have the name (`RowsReplayIngests`); a
  commit adds the cover of one file (`CoverOfBoth`, `HadMore`). The theorem follows from this
  count.
- `PairsAreDiscoveries`: `SelectionSpec => []SelectedAreDiscoveries`, for any candidates, any
  p-values with any ties. The k-th of the sorted p-values is below its threshold exactly if k
  values at least are (`PassedAreEnough`), and the cutoff at the last of them chooses the same
  hypotheses as its threshold (`DiscoveriesAre`).
- `SizesKeepTheirRisk`: `TailRiskSpec => []SizesRespectRisk`, from `RiskAssumption` (integers, a
  level between 0 and 1). `QuantileLies` puts the interpolated quantile between two sorted
  returns; `ReturnsBelow` counts what is below by ranks; `TailIs` gives the share of the tail
  and that its mean is no larger than the quantile, a sum bounded element by element.
- `RowsAreCapped`: `SizingSpec => []CapsHold`, for any finite set of symbols and any sectors: a
  scaled sector is a sum of quotients.
- `VolatilityIsExplained`: `ImpliedVolSpec => []AnswerExplainsPrice`, for every rising price and
  grid. `VolInv` says that the volatilities outside the bounds of the search are priced apart
  from the market on their side, and that after n halvings the bounds are at most the n-th of
  the spans that `HalvingsAssumption` names: the number of halvings suffices for the grid, as
  the code's 200 do for a float. The Newton iterations need no fact but that they stop.

The assumptions on constants are named ASSUMEs of the models, which TLC evaluates in every
run. TLC checked each of the inductive invariants of the algorithms (`EngineInv`, `PairInv`,
`SeriesInv`, `MonitorInv`, `VolInv`, `UniverseInv`, `ReportInv`) on the instances of `analysis`.

Model-checked only: liveness (`VisibleRunSettles`, `RequestsEnd`, `StreamsAndJobsEnd`), which is
out of the prover's reach. Every other property of a passing run is proved for all values of the
constants within the assumptions named above.

## 6. Not modelled

Whole components: the scheduler (registers one job, the behaviour is RQ's), the application
shell (wiring, settings, headers, logging), migrations and the dashboard (the schema is the rows
of the models above; the dashboard polls and renders).

Numerical code on floats, which neither tool computes: regressions and the cointegration and
half-life statistics, GARCH and Ornstein-Uhlenbeck fits, Monte Carlo paths, closed-form option
prices and greeks, the Student-t tail, attribution, ratios of performance and validation
statistics. Where such a value decides a branch that is modelled, it is an input that takes
every value of a small set.

Within modelled components:

- two threads inside one method of the paper broker, and two brokers from a race of first
  requests on the cached constructor: a method of the broker is one step, except the sweep;
- the average price of a position; `get_margin`; the P&L divergence;
- the in-memory queue, which only tests use;
- instruments and strategy configurations, plain inserts that nothing reads back;
- the exchange calendar, a wrapper of a library;
- an equity of exactly zero in a report;
- the handle that the live `cancel_order` returns, which always says cancelled.

------------------------------ MODULE Quality ------------------------------
(***************************************************************************)
(* The checks that quarantine a price series before it may trade:          *)
(* engine/data/quality.py and engine/data/corporate_actions.py.  The       *)
(* series grows by one row a time; a row may skip a session.               *)
(***************************************************************************)
EXTENDS Integers, Sequences, FiniteSets, SequencesExt

CONSTANTS
    Closes,        \* values of close and adj_close
    StaleLimit,    \* stale_limit
    JumpPct,       \* jump_threshold in percent
    KnownActions,  \* dates of known splits and bonus issues
    MaxRows        \* bound: rows of the series

ASSUME QualityAssumption ==
    Closes \subseteq Int /\ JumpPct \in Nat /\ StaleLimit \in Nat \ {0}

VARIABLE series    \* rows [date, close]

QualityInit == series = << >>

LastRowDate(s) == IF s = << >> THEN 0 ELSE s[Len(s)].date

NewRow ==
    /\ Len(series) < MaxRows
    /\ \E c \in Closes, gap \in {1, 2} :
          series' = Append(series, [date |-> LastRowDate(series) + gap, close |-> c])

QualitySpec == QualityInit /\ [][NewRow]_series

-----------------------------------------------------------------------------
\* A run that has ended is reported if it is long enough.
Flush(acc) ==
    IF acc.len >= StaleLimit THEN acc.runs \cup {<<acc.start, acc.len>>} ELSE acc.runs

\* One turn of the loop of _stale_runs.
StaleStep(acc, row) ==
    IF acc.len > 0 /\ row.close = acc.prev
    THEN [acc EXCEPT !.len = @ + 1]
    ELSE [runs |-> Flush(acc), len |-> 1, start |-> row.date, prev |-> row.close]

\* Mutant: the run that the series ends with is forgotten.
StaleRuns_ForgetsLast(s) ==
    FoldLeft(StaleStep, [runs |-> {}, len |-> 0, start |-> 0, prev |-> 0], s).runs

StaleRuns(s) ==
    Flush(FoldLeft(StaleStep, [runs |-> {}, len |-> 0, start |-> 0, prev |-> 0], s))

Missing(s) == (1 .. LastRowDate(s)) \ {s[i].date : i \in DOMAIN s}
NonPositive(s) == {s[i].date : i \in {j \in DOMAIN s : s[j].close <= 0}}

\* check_quality(...).ok
QualityOk(s) == Missing(s) = {} /\ NonPositive(s) = {} /\ StaleRuns(s) = {}

\* Mutant: falls are not looked at.
Jumps_UpOnly(s) ==
    {s[i].date : i \in {j \in 2 .. Len(s) :
        100 * (s[j].close - s[j - 1].close) > JumpPct * s[j - 1].close}}

\* verify_adjustments: a return beyond the threshold, infinite after a zero;
\* a date within a day of a known action is a failed adjustment.
Jumps(s) ==
    LET change(i) == s[i].close - s[i - 1].close
        size(n) == IF n < 0 THEN -n ELSE n
    IN {s[i].date : i \in {j \in 2 .. Len(s) : 100 * size(change(j)) > JumpPct * size(s[j - 1].close)}}

Near(d) == \E k \in KnownActions : d - k \in -1 .. 1
BadAdjustments(s) == {d \in Jumps(s) : Near(d)}
UnexplainedJumps(s) == {d \in Jumps(s) : ~Near(d)}
AdjustmentsOk(s) == BadAdjustments(s) = {} /\ UnexplainedJumps(s) = {}

-----------------------------------------------------------------------------
\* The reported runs are the longest ones: rows in a row with one close, not
\* continued on either side, at least StaleLimit of them, wherever they end.
StaleRunsAreMaximal ==
    LET same(i, j) == \A k \in i .. j : series[k].close = series[i].close
        n == Len(series)
    IN StaleRuns(series) =
         {<<series[r[1]].date, r[2] - r[1] + 1>> : r \in {q \in (1 .. n) \X (1 .. n) :
              /\ q[2] - q[1] + 1 >= StaleLimit
              /\ same(q[1], q[2])
              /\ q[1] > 1 => ~same(q[1] - 1, q[2])
              /\ q[2] < n => ~same(q[1], q[2] + 1)}}

\* A series that passes both checks trades on every session since the first at
\* a positive price, and moves from one session to the next at most by the
\* threshold, so it never doubles or halves unnoticed.
PassedSeriesIsContinuous ==
    QualityOk(series) /\ AdjustmentsOk(series) =>
        \A i \in DOMAIN series :
            /\ series[i].date = i
            /\ i > 1 => /\ 100 * series[i].close <= (100 + JumpPct) * series[i - 1].close
                        /\ 100 * series[i].close >= (100 - JumpPct) * series[i - 1].close
=============================================================================

-------------------------- MODULE Research_proofs --------------------------
(***************************************************************************)
(* Proofs about the research and risk components that decide what may      *)
(* trade and how much: the drawdown breaker, the quality checks, the       *)
(* limits on weights, the implied volatility, the selection of pairs, the  *)
(* tail of the losses and the index's members, for any limits and series   *)
(* of any length.                                                          *)
(***************************************************************************)
EXTENDS Universe, Quality, Selection, Sizing, Drawdown, TailRisk, ImpliedVol, DataLemmas

-----------------------------------------------------------------------------
(***************************************************************************)
(* The latching monitor and the curve mask of engine/risk/drawdown.py      *)
(* halt together.  The inductive invariant says what the monitor's peak is *)
(* in terms of the curve: the maximum, attained at some point.             *)
(***************************************************************************)
Highest == \E i \in 1 .. Len(curve) : curve[i] = peak
Bounds  == \A k \in 1 .. Len(curve) : curve[k] <= peak

MonitorInv ==
    /\ curve \in Seq(Int) /\ peak \in Int
    /\ curve = << >> => ~halted
    /\ curve # << >> => Highest /\ Bounds
    /\ MonitorAgreesWithMask

-----------------------------------------------------------------------------
\* What Append leaves alone and what it adds.
LEMMA AppendFacts ==
    ASSUME NEW s \in Seq(Int), NEW e \in Int
    PROVE  /\ Append(s, e) \in Seq(Int)
           /\ Append(s, e) # << >>
           /\ Len(s) \in Nat /\ Len(Append(s, e)) = Len(s) + 1
           /\ \A k \in 1 .. Len(s) : Append(s, e)[k] = s[k]
           /\ Append(s, e)[Len(s) + 1] = e
  OBVIOUS

\* A point of the curve keeps its verdict when the curve grows: the running
\* maximum up to it does not see later points.
LEMMA VerdictKept ==
    ASSUME NEW e \in Int, curve \in Seq(Int), curve' = Append(curve, e),
           NEW j \in 1 .. Len(curve)
    PROVE  Breach(j)' <=> Breach(j)
<1>1. \A k \in 1 .. j : curve'[k] = curve[k]
  BY AppendFacts
<1>2. ASSUME NEW i \in 1 .. j
      PROVE  /\ HighUpTo(i, j)' <=> HighUpTo(i, j)
             /\ Drops(curve[j], curve[i])' <=> Drops(curve[j], curve[i])
  <2>1. HighUpTo(i, j)' <=> HighUpTo(i, j)
    BY <1>1 DEF HighUpTo
  <2>2. curve'[i] = curve[i] /\ curve'[j] = curve[j]
    BY <1>1
  <2>3. QED BY <2>1, <2>2 DEF Drops
<1>3. QED BY <1>2 DEF Breach

\* The new point breaches the limit exactly when it drops from the new peak.
LEMMA VerdictOfLast ==
    ASSUME NEW e \in Int, NEW n \in Nat, n = Len(curve),
           curve \in Seq(Int), peak \in Int,
           curve # << >> => Highest /\ Bounds,
           curve' = Append(curve, e), peak' = NewPeak(e)
    PROVE  /\ peak' \in Int
           /\ Highest' /\ Bounds'
           /\ Breach(n + 1)' <=> Drops(e, peak')
<1>1. /\ Len(curve') = n + 1 /\ curve' \in Seq(Int)
      /\ \A k \in 1 .. n : curve'[k] = curve[k]
      /\ curve'[n + 1] = e
  BY AppendFacts
<1>2. peak' \in Int
  BY DEF NewPeak
<1>3. curve = << >> => n = 0
  OBVIOUS
<1>4. Bounds'
  <2>1. CASE curve = << >>
    BY <2>1, <1>1, <1>3 DEF Bounds, NewPeak
  <2>2. CASE curve # << >>
    BY <2>2, <1>1 DEF Bounds, NewPeak
  <2>3. QED BY <2>1, <2>2
<1>5. Highest'
  <2>1. CASE curve = << >> \/ e > peak
    <3>1. peak' = e /\ n + 1 \in 1 .. n + 1
      BY <2>1, <1>1 DEF NewPeak
    <3>2. QED BY <3>1, <1>1 DEF Highest
  <2>2. CASE curve # << >> /\ ~(e > peak)
    <3>1. PICK i \in 1 .. n : curve[i] = peak
      BY <2>2 DEF Highest
    <3>2. peak' = peak /\ i \in 1 .. n + 1
      BY <2>2, <1>1 DEF NewPeak
    <3>3. QED BY <3>1, <3>2, <1>1 DEF Highest
  <2>3. QED BY <2>1, <2>2
<1>6. Breach(n + 1)' => Drops(e, peak')
  <2>1. SUFFICES ASSUME NEW i \in 1 .. n + 1, HighUpTo(i, n + 1)', Drops(curve[n + 1], curve[i])'
                 PROVE  Drops(e, peak')
    BY <1>1 DEF Breach
  <2>2. PICK h \in 1 .. n + 1 : curve'[h] = peak'
    BY <1>5, <1>1 DEF Highest
  <2>3. curve'[i] <= peak' /\ peak' <= curve'[i]
    BY <2>1, <2>2, <1>4, <1>1 DEF Bounds, HighUpTo
  <2>4. curve'[i] \in Int
    BY <1>1
  <2>5. curve'[i] = peak'
    BY <2>3, <2>4, <1>2
  <2>6. QED BY <2>1, <2>5, <1>1 DEF Drops
<1>7. Drops(e, peak') => Breach(n + 1)'
  <2>1. SUFFICES ASSUME Drops(e, peak') PROVE Breach(n + 1)'
    OBVIOUS
  <2>2. PICK h \in 1 .. n + 1 : curve'[h] = peak'
    BY <1>5, <1>1 DEF Highest
  <2>3. HighUpTo(h, n + 1)'
    BY <2>2, <1>4, <1>1 DEF Bounds, HighUpTo
  <2>4. Drops(curve[n + 1], curve[h])'
    BY <2>1, <2>2, <1>1 DEF Drops
  <2>5. QED BY <2>3, <2>4, <1>1 DEF Breach
<1>8. QED BY <1>2, <1>4, <1>5, <1>6, <1>7

-----------------------------------------------------------------------------
\* The monitor starts with its invariant.
LEMMA InitMonitor == DrawdownInit => MonitorInv
  BY DEF DrawdownInit, MonitorInv, MonitorAgreesWithMask

\* Feeding one equity keeps the invariant: the old points keep their verdict,
\* the new one breaches when it drops from the new peak, and the latch is the
\* disjunction of the two.
LEMMA UpdateMonitor ==
    ASSUME MonitorInv, NEW e \in Equity, Update(e)
    PROVE  MonitorInv'
<1> PICK n : n = Len(curve)
  OBVIOUS
<1>1. /\ e \in Int /\ curve \in Seq(Int) /\ peak \in Int
      /\ curve # << >> => Highest /\ Bounds
      /\ curve' = Append(curve, e) /\ peak' = NewPeak(e)
  BY LimitAssumption DEF MonitorInv, Update
<1>2. /\ n \in Nat /\ Len(curve') = n + 1 /\ curve' \in Seq(Int) /\ curve' # << >>
      /\ \A k \in 1 .. n : curve'[k] = curve[k]
  BY <1>1, AppendFacts
<1>3. peak' \in Int /\ Highest' /\ Bounds' /\ (Breach(n + 1)' <=> Drops(e, peak'))
  BY <1>1, VerdictOfLast
<1>4. MaskHalted' <=> MaskHalted \/ Drops(e, peak')
  <2>1. MaskHalted' <=> \E j \in 1 .. n + 1 : Breach(j)'
    BY <1>2 DEF MaskHalted
  <2>2. \A j \in 1 .. n : Breach(j)' <=> Breach(j)
    BY <1>1, VerdictKept
  <2>3. (\E j \in 1 .. n + 1 : Breach(j)') <=> (\E j \in 1 .. n : Breach(j)') \/ Breach(n + 1)'
    BY <1>2
  <2>4. QED BY <2>1, <2>2, <2>3, <1>3 DEF MaskHalted
<1>5. MonitorAgreesWithMask'
  <2>1. SUFFICES ASSUME curve'[1] > 0 PROVE halted' <=> MaskHalted'
    BY DEF MonitorAgreesWithMask
  <2>2. peak' > 0
    <3>1. 1 \in 1 .. Len(curve')
      BY <1>2
    <3>2. curve'[1] <= peak' /\ curve'[1] \in Int
      BY <3>1, <1>2, <1>3 DEF Bounds
    <3>3. QED BY <3>2, <2>1, <1>3
  <2>3. halted' <=> halted \/ Drops(e, peak')
    BY <2>2 DEF Update
  <2>4. halted <=> MaskHalted
    <3>1. CASE curve = << >>
      BY <3>1 DEF MonitorInv, MaskHalted
    <3>2. CASE curve # << >>
      <4>1. curve'[1] = curve[1]
        BY <3>2, <1>1, <1>2
      <4>2. QED BY <4>1, <3>2, <2>1 DEF MonitorInv, MonitorAgreesWithMask
    <3>3. QED BY <3>1, <3>2
  <2>5. QED BY <2>3, <2>4, <1>4
<1>6. QED BY <1>2, <1>3, <1>5 DEF MonitorInv

\* Every step of the monitor keeps its invariant.
LEMMA StepMonitor == MonitorInv /\ [DrawdownNext]_drawdownVars => MonitorInv'
<1> SUFFICES ASSUME MonitorInv, [DrawdownNext]_drawdownVars PROVE MonitorInv'
  OBVIOUS
<1>1. CASE Reset
  BY <1>1 DEF Reset, MonitorInv, MonitorAgreesWithMask
<1>2. ASSUME NEW e \in Equity, Update(e) PROVE MonitorInv'
  BY <1>2, UpdateMonitor
<1>3. CASE UNCHANGED drawdownVars
  BY <1>3 DEF drawdownVars, MonitorInv, MonitorAgreesWithMask, MaskHalted, Breach, HighUpTo,
              Highest, Bounds
<1>4. QED BY <1>1, <1>2, <1>3 DEF DrawdownNext

\* Whatever equities arrive and however often the monitor is reset, it is
\* halted exactly when the mask of the curve since the last reset stops
\* trading at its last point: live trading and backtests break at the same bar.
THEOREM BreakersAgree == DrawdownSpec => []MonitorAgreesWithMask
<1>1. MonitorInv => MonitorAgreesWithMask
  BY DEF MonitorInv
<1>2. QED BY InitMonitor, StepMonitor, <1>1, PTL DEF DrawdownSpec

-----------------------------------------------------------------------------
(***************************************************************************)
(* The quality checks.  The inductive invariant says that the rows come in *)
(* the order of their dates; without a missing session the dates are then  *)
(* 1, 2, 3 and so on, by the least row that has another.                   *)
(***************************************************************************)
PriceRow == [date : Nat, close : Int]

\* The rows of a series come in the order of their dates.
SeriesInv ==
    /\ series \in Seq(PriceRow)
    /\ \A i \in 1 .. Len(series) : series[i].date >= 1
    /\ \A i, j \in 1 .. Len(series) : i < j => series[i].date < series[j].date

\* NewRow
LEMMA SeriesGrows == SeriesInv /\ NewRow => SeriesInv'
<1> SUFFICES ASSUME SeriesInv, NewRow PROVE SeriesInv'
  OBVIOUS
<1>1. PICK c \in Closes, gap \in {1, 2} :
         series' = Append(series, [date |-> LastRowDate(series) + gap, close |-> c])
  BY DEF NewRow
<1>2. PICK n \in Nat : n = Len(series)
  BY DEF SeriesInv
<1>3. \A i \in 1 .. n : series[i] \in PriceRow
  BY <1>2 DEF SeriesInv
<1>4. LastRowDate(series) \in Nat /\ \A i \in 1 .. n : series[i].date <= LastRowDate(series)
  <2>1. CASE n = 0
    <3>1. series \in Seq(PriceRow) /\ Len(series) = 0
      BY <1>2, <2>1 DEF SeriesInv
    <3>2. series = << >>
      BY ONLY <3>1
    <3> QED
      BY <2>1, <3>2 DEF LastRowDate
  <2>2. CASE n > 0
    <3>1. n \in 1 .. n /\ series # << >>
      BY <1>2, <2>2
    <3>2. LastRowDate(series) = series[n].date /\ series[n].date \in Nat
      BY <1>2, <1>3, <3>1 DEF LastRowDate, PriceRow
    <3>3. ASSUME NEW i \in 1 .. n PROVE series[i].date <= series[n].date
      <4>1. i < n => series[i].date < series[n].date
        BY <1>2, <3>1, <3>3 DEF SeriesInv
      <4>2. series[i].date \in Nat
        BY <1>3 DEF PriceRow
      <4> QED
        BY <3>2, <4>1, <4>2
    <3> QED
      BY <3>2, <3>3
  <2> QED
    BY <2>1, <2>2
<1>5. PICK row \in PriceRow : series' = Append(series, row) /\ row.date = LastRowDate(series) + gap
  BY <1>1, <1>4, QualityAssumption DEF PriceRow
<1>6. /\ series' \in Seq(PriceRow) /\ Len(series') = n + 1 /\ series'[n + 1] = row
      /\ \A i \in 1 .. n : series'[i] = series[i]
  BY <1>2, <1>5 DEF SeriesInv
<1>7. row.date >= 1 /\ \A i \in 1 .. n : series[i].date < row.date
  <2>1. \A i \in 1 .. n : series[i].date \in Nat
    BY <1>3 DEF PriceRow
  <2> QED
    BY <1>4, <1>5, <2>1
<1>8. /\ \A i \in 1 .. n : series[i].date >= 1
      /\ \A i, j \in 1 .. n : i < j => series[i].date < series[j].date
  BY <1>2 DEF SeriesInv
<1>9. PICK s : s = series'
  OBVIOUS
<1>10. \A i \in 1 .. n + 1 : s[i].date >= 1
  BY <1>6, <1>7, <1>8, <1>9
<1>11. \A i, j \in 1 .. n + 1 : i < j => s[i].date < s[j].date
  <2> SUFFICES ASSUME NEW i \in 1 .. n + 1, NEW j \in 1 .. n + 1, i < j
               PROVE  s[i].date < s[j].date
    OBVIOUS
  <2>1. i \in 1 .. n /\ s[i] = series[i]
    BY <1>6, <1>9
  <2>2. CASE j = n + 1
    BY <1>6, <1>7, <1>9, <2>1, <2>2
  <2>3. CASE j \in 1 .. n
    BY <1>6, <1>8, <1>9, <2>1, <2>3
  <2> QED
    BY <2>2, <2>3
<1> QED
  BY <1>6, <1>9, <1>10, <1>11 DEF SeriesInv

\* A series without a missing session has its rows on 1, 2, 3, ...
LEMMA NoGaps ==
    ASSUME SeriesInv, Missing(series) = {}, NEW n \in Nat, n = Len(series)
    PROVE  \A i \in 1 .. n : series[i].date = i
<1> DEFINE Bad == {i \in 1 .. n : series[i].date # i}
<1>1. \A i \in 1 .. n : series[i].date \in Nat /\ series[i].date >= 1
  <2>1. \A i \in 1 .. n : series[i] \in PriceRow /\ series[i].date >= 1
    BY DEF SeriesInv
  <2> QED
    BY <2>1 DEF PriceRow
<1>2. SUFFICES ASSUME Bad # {} PROVE FALSE
  OBVIOUS
<1>3. PICK i \in Bad : \A j \in Bad : i <= j
  <2>1. Bad \in SUBSET Nat
    OBVIOUS
  <2> HIDE DEF Bad
  <2> QED
    BY <1>2, <2>1, LeastNat
<1>4. i \in 1 .. n /\ series[i].date # i /\ \A j \in 1 .. n : j < i => series[j].date = j
  BY <1>3
<1>5. series[i].date > i
  <2>1. CASE i = 1
    BY <1>1, <1>4, <2>1
  <2>2. CASE i > 1
    <3>1. PICK k : k = i - 1
      OBVIOUS
    <3>2. k \in 1 .. n /\ k < i /\ k + 1 = i
      BY <1>4, <2>2, <3>1
    <3>3. series[k].date = k /\ series[k].date < series[i].date
      BY <1>4, <3>2 DEF SeriesInv
    <3> QED
      BY <1>1, <1>4, <3>2, <3>3
  <2> QED
    BY <1>4, <2>1, <2>2
<1>6. i \in 1 .. LastRowDate(series)
  <2>1. n \in 1 .. n /\ series # << >> /\ LastRowDate(series) = series[n].date
    BY <1>4 DEF LastRowDate
  <2>2. series[i].date <= series[n].date
    <3>1. i < n => series[i].date < series[n].date
      BY <1>4, <2>1 DEF SeriesInv
    <3> QED
      BY <1>1, <1>4, <2>1, <3>1
  <2> QED
    BY <1>1, <1>4, <1>5, <2>1, <2>2
<1>7. PICK j \in 1 .. n : series[j].date = i
  <2>1. DOMAIN series = 1 .. n
    BY DEF SeriesInv
  <2> QED
    BY <1>6, <2>1 DEF Missing
<1>8. CASE j < i
  BY <1>4, <1>7, <1>8
<1>9. CASE j = i
  BY <1>4, <1>7, <1>9
<1>10. CASE j > i
  <2>1. series[i].date < series[j].date
    BY <1>4, <1>10 DEF SeriesInv
  <2> QED
    BY <1>1, <1>4, <1>5, <1>7, <2>1
<1> QED
  BY <1>4, <1>8, <1>9, <1>10

\* What the checks of one row say.
LEMMA ChecksMean ==
    ASSUME SeriesInv, QualityOk(series), AdjustmentsOk(series), NEW n \in Nat, n = Len(series)
    PROVE  /\ \A i \in 1 .. n : series[i].close > 0 /\ series[i].close \in Int
           /\ \A i \in 2 .. n : LET c == series[i].close - series[i - 1].close
                                IN 100 * (IF c < 0 THEN -c ELSE c) <= JumpPct * series[i - 1].close
<1>1. \A i \in 1 .. n : series[i].close \in Int
  <2>1. \A i \in 1 .. n : series[i] \in PriceRow
    BY DEF SeriesInv
  <2> QED
    BY <2>1 DEF PriceRow
<1>2. DOMAIN series = 1 .. n
  BY DEF SeriesInv
<1>3. \A i \in 1 .. n : series[i].close > 0
  <2> SUFFICES ASSUME NEW i \in 1 .. n, series[i].close <= 0 PROVE FALSE
    BY <1>1
  <2>1. i \in {j \in DOMAIN series : series[j].close <= 0}
    BY <1>2
  <2>2. series[i].date \in NonPositive(series)
    BY <2>1 DEF NonPositive
  <2> QED
    BY <2>2 DEF QualityOk
<1>4. Jumps(series) = {}
  BY DEF AdjustmentsOk, BadAdjustments, UnexplainedJumps
<1>5. ASSUME NEW i \in 2 .. n
      PROVE  LET c == series[i].close - series[i - 1].close
             IN 100 * (IF c < 0 THEN -c ELSE c) <= JumpPct * series[i - 1].close
  <2>1. PICK a \in Int, b \in Int : a = series[i].close /\ b = series[i - 1].close /\ b > 0
    <3>1. i \in 1 .. n /\ i - 1 \in 1 .. n
      OBVIOUS
    <3> QED
      BY <1>1, <1>3, <3>1
  <2>2. ~(100 * (IF a - b < 0 THEN -(a - b) ELSE a - b) > JumpPct * (IF b < 0 THEN -b ELSE b))
    BY <1>4, <2>1 DEF Jumps
  <2>3. PICK x \in Int : x = JumpPct * b
    BY QualityAssumption
  <2> QED
    BY <2>1, <2>2, <2>3
<1> QED
  BY <1>1, <1>3, <1>5

\* A series that passes the checks has a row for every session since the first, at a positive
\* price that moves at most by the threshold from one to the next, for any threshold, prices
\* and dates of known actions and series of any length.
THEOREM PassedSeriesIsTradeable == QualitySpec => []PassedSeriesIsContinuous
<1>1. QualityInit => SeriesInv
  BY DEF QualityInit, SeriesInv
<1>2. SeriesInv /\ [NewRow]_series => SeriesInv'
  BY SeriesGrows DEF SeriesInv
<1>3. SeriesInv => PassedSeriesIsContinuous
  <2> SUFFICES ASSUME SeriesInv, QualityOk(series), AdjustmentsOk(series), NEW i \in DOMAIN series
               PROVE  /\ series[i].date = i
                      /\ i > 1 => /\ 100 * series[i].close <= (100 + JumpPct) * series[i - 1].close
                                  /\ 100 * series[i].close >= (100 - JumpPct) * series[i - 1].close
    BY DEF PassedSeriesIsContinuous
  <2>1. PICK n \in Nat : n = Len(series) /\ i \in 1 .. n
    BY DEF SeriesInv
  <2>2. series[i].date = i
    BY <2>1, NoGaps DEF QualityOk
  <2>3. ASSUME i > 1
        PROVE  /\ 100 * series[i].close <= (100 + JumpPct) * series[i - 1].close
               /\ 100 * series[i].close >= (100 - JumpPct) * series[i - 1].close
    <3>1. PICK a \in Int, b \in Int : a = series[i].close /\ b = series[i - 1].close /\ b > 0
      <4>1. i \in 1 .. n /\ i - 1 \in 1 .. n
        BY <2>1, <2>3
      <4> QED
        BY <2>1, <4>1, ChecksMean
    <3>2. i \in 2 .. n
      BY <2>1, <2>3
    <3>3. 100 * (IF a - b < 0 THEN -(a - b) ELSE a - b) <= JumpPct * b
      BY <2>1, <3>1, <3>2, ChecksMean
    <3>4. PICK x \in Int : x = JumpPct * b
      BY QualityAssumption
    <3>5. (100 + JumpPct) * b = 100 * b + x /\ (100 - JumpPct) * b = 100 * b - x
      BY <3>4, QualityAssumption
    <3> QED
      BY <3>1, <3>3, <3>4, <3>5
  <2> QED
    BY <2>2, <2>3
<1> QED
  BY <1>1, <1>2, <1>3, PTL DEF QualitySpec

-----------------------------------------------------------------------------
(***************************************************************************)
(* The stale runs.  Invariant of the loop over the rows: the current run   *)
(* is the longest that ends in the last row, and the runs that are listed  *)
(* are the maximal ones that ended before.                                 *)
(***************************************************************************)
\* What the loop over the rows carries.
StaleAcc == [runs : SUBSET (Int \X Int), len : Nat, start : Int, prev : Int]
NoRun == [runs |-> {}, len |-> 0, start |-> 0, prev |-> 0]

\* One turn keeps the shape.
LEMMA StaleStepType ==
    ASSUME NEW acc \in StaleAcc, NEW row \in PriceRow
    PROVE  StaleStep(acc, row) \in StaleAcc
<1>1. Flush(acc) \in SUBSET (Int \X Int)
  BY DEF Flush, StaleAcc
<1>2. CASE acc.len > 0 /\ row.close = acc.prev
  <2>1. StaleStep(acc, row) = [acc EXCEPT !.len = @ + 1]
    BY <1>2 DEF StaleStep
  <2>2. acc.len + 1 \in Nat
    BY DEF StaleAcc
  <2> QED
    BY <2>1, <2>2 DEF StaleAcc
<1>3. CASE ~(acc.len > 0 /\ row.close = acc.prev)
  <2>1. StaleStep(acc, row) = [runs |-> Flush(acc), len |-> 1, start |-> row.date, prev |-> row.close]
    BY <1>3 DEF StaleStep
  <2> QED
    BY <1>1, <2>1 DEF StaleAcc, PriceRow
<1> QED
  BY <1>2, <1>3

\* The fold takes the rows one by one.
LEMMA StaleFold ==
    ASSUME NEW s \in Seq(PriceRow)
    PROVE  \E acc : /\ acc[0] = NoRun
                    /\ \A k \in 1 .. Len(s) : acc[k] = StaleStep(acc[k - 1], s[k])
                    /\ FoldLeft(StaleStep, NoRun, s) = acc[Len(s)]
<1> DEFINE n == Len(s)
           Is(it) == it = [T \in SUBSET DOMAIN s |->
                             IF T = {} THEN NoRun ELSE StaleStep(it[T \ {Max(T)}], s[Max(T)])]
           G == [q \in StaleAcc \X (1 .. n) |-> StaleStep(q[1], s[q[2]])]
           jt == CHOOSE it : Is(it)
           acc == [k \in 0 .. n |-> jt[1 .. k]]
<1>1. n \in Nat /\ DOMAIN s = 1 .. n /\ \A i \in 1 .. n : s[i] \in PriceRow
  OBVIOUS
<1>2. NoRun \in StaleAcc
  BY DEF NoRun, StaleAcc
<1>3. G \in [StaleAcc \X (1 .. n) -> StaleAcc]
  BY <1>1, StaleStepType
<1>4. PICK it \in [SUBSET (1 .. n) -> StaleAcc] : IsFold(it, G, NoRun, n)
  <2> HIDE DEF G, n
  <2> QED
    BY <1>1, <1>2, <1>3, FoldsExist
<1>5. Is(it)
  <2>1. \A T \in SUBSET (1 .. n) : T # {} => T \ {Max(T)} \in SUBSET (1 .. n) /\ Max(T) \in 1 .. n
    <3> HIDE DEF n
    <3> QED
      BY <1>1, LastOf
  <2>2. \A T \in SUBSET (1 .. n) : T # {} =>
           G[<<it[T \ {Max(T)}], Max(T)>>] = StaleStep(it[T \ {Max(T)}], s[Max(T)])
    BY <1>4, <2>1
  <2> HIDE DEF G
  <2> QED
    BY <1>1, <1>4, <2>2 DEF IsFold
<1>6. Is(jt)
  <2> HIDE DEF Is
  <2> QED
    BY <1>5, Zenon
<1>7. FoldLeft(StaleStep, NoRun, s) = jt[DOMAIN s]
  BY DEF FoldLeft, MapThenFoldSet
<1> HIDE DEF jt
<1>8. acc[0] = NoRun
  <2>1. 1 .. 0 = {}
    OBVIOUS
  <2> QED
    BY <1>1, <1>6, <2>1
<1>9. ASSUME NEW k \in 1 .. n PROVE acc[k] = StaleStep(acc[k - 1], s[k])
  <2>1. (1 .. k) # {} /\ Max(1 .. k) = k /\ (1 .. k) \ {Max(1 .. k)} = 1 .. (k - 1)
    BY PrefixOf
  <2>2. 1 .. k \in SUBSET (1 .. n)
    BY <1>1
  <2>3. jt[1 .. k] = StaleStep(jt[1 .. (k - 1)], s[k])
    <3> HIDE DEF n
    <3> QED
      BY <1>1, <1>6, <2>1, <2>2
  <2> QED
    BY <1>1, <2>3
<1>10. acc[n] = jt[DOMAIN s]
  BY <1>1
<1> HIDE DEF acc
<1> QED
  BY <1>7, <1>8, <1>9, <1>10

\* Rows i to j have one close, and are not continued.
Alike(s, i, j) == \A k \in i .. j : s[k].close = s[i].close

Maximal(s, q) ==
    /\ q[2] - q[1] + 1 >= StaleLimit
    /\ Alike(s, q[1], q[2])
    /\ q[1] > 1 => ~Alike(s, q[1] - 1, q[2])
    /\ q[2] < Len(s) => ~Alike(s, q[1], q[2] + 1)

RunsBefore(s, k) ==
    {<<s[q[1]].date, q[2] - q[1] + 1>> :
        q \in {r \in (1 .. Len(s)) \X (1 .. Len(s)) : Maximal(s, r) /\ r[2] < k}}

\* The current run is the last len rows, all with one close.
LastAlike(s, k, len) ==
    /\ len \in 1 .. k
    /\ \A j \in (k - len + 1) .. k : s[j].close = s[k].close
    /\ k - len >= 1 => s[k - len].close # s[k].close

\* What the loop knows after k rows.
InRun(s, k, acc) ==
    /\ LastAlike(s, k, acc.len)
    /\ acc.prev = s[k].close /\ acc.start = s[k - acc.len + 1].date
    /\ acc.runs = RunsBefore(s, k)

\* A maximal run that ends where the next close differs is the current one.
LEMMA EndsMaximal ==
    ASSUME NEW s \in Seq(PriceRow), NEW n \in Nat, n = Len(s), NEW k \in 1 .. n,
           NEW len \in 1 .. k, LastAlike(s, k, len), k < n => s[k + 1].close # s[k].close,
           NEW a \in 1 .. n
    PROVE  Maximal(s, <<a, k>>) <=> a = k - len + 1 /\ len >= StaleLimit
<1> DEFINE b == k - len + 1
<1>1. StaleLimit \in Nat /\ StaleLimit >= 1
  BY QualityAssumption
<1>2. b \in 1 .. k /\ len = k - b + 1
  OBVIOUS
<1>3. ASSUME Maximal(s, <<a, k>>) PROVE a = b /\ len >= StaleLimit
  <2>1. k - a + 1 >= StaleLimit /\ Alike(s, a, k) /\ (a > 1 => ~Alike(s, a - 1, k))
    BY <1>3 DEF Maximal
  <2>2. a <= k /\ s[a].close = s[k].close /\ \A j \in a .. k : s[j].close = s[k].close
    BY <1>1, <2>1 DEF Alike
  <2>3. a >= b
    <3> SUFFICES ASSUME a < b PROVE FALSE
      OBVIOUS
    <3>1. b - 1 \in a .. k /\ k - len = b - 1 /\ k - len >= 1
      BY <1>2
    <3> QED
      BY <2>2, <3>1 DEF LastAlike
  <2>4. a <= b
    <3> SUFFICES ASSUME a > b PROVE FALSE
      OBVIOUS
    <3>1. \A j \in (a - 1) .. k : s[j].close = s[k].close
      BY <1>2, <2>2 DEF LastAlike
    <3>2. a - 1 \in (a - 1) .. k /\ a > 1
      BY <1>2, <2>2
    <3>3. Alike(s, a - 1, k)
      BY <3>1, <3>2 DEF Alike
    <3> QED
      BY <2>1, <3>2, <3>3
  <2>5. a = b
    BY <1>2, <2>3, <2>4
  <2> QED
    BY <1>2, <2>1, <2>5
<1>4. ASSUME a = b, len >= StaleLimit PROVE Maximal(s, <<a, k>>)
  <2>1. s[a].close = s[k].close /\ Alike(s, a, k)
    BY <1>2, <1>4 DEF Alike, LastAlike
  <2>2. a > 1 => ~Alike(s, a - 1, k)
    <3> SUFFICES ASSUME a > 1, Alike(s, a - 1, k) PROVE FALSE
      OBVIOUS
    <3>1. k - len = a - 1 /\ k - len >= 1 /\ k \in (a - 1) .. k
      BY <1>2, <1>4
    <3> QED
      BY <3>1 DEF Alike, LastAlike
  <2>3. k < n => ~Alike(s, a, k + 1)
    <3> SUFFICES ASSUME k < n, Alike(s, a, k + 1) PROVE FALSE
      OBVIOUS
    <3>1. k + 1 \in a .. (k + 1)
      BY <1>2, <1>4
    <3> QED
      BY <2>1, <3>1 DEF Alike
  <2>4. k - a + 1 >= StaleLimit
    BY <1>2, <1>4
  <2> QED
    BY <2>1, <2>2, <2>3, <2>4 DEF Maximal
<1> HIDE DEF b
<1> QED
  BY <1>3, <1>4 DEF b

\* No maximal run ends where the next close is the same.
LEMMA NoneEnds ==
    ASSUME NEW s \in Seq(PriceRow), NEW n \in Nat, n = Len(s), NEW k \in 1 .. n, k < n,
           s[k + 1].close = s[k].close, NEW a \in 1 .. n
    PROVE  ~Maximal(s, <<a, k>>)
<1> SUFFICES ASSUME Maximal(s, <<a, k>>) PROVE FALSE
  OBVIOUS
<1>1. StaleLimit \in Nat /\ StaleLimit >= 1
  BY QualityAssumption
<1>2. k - a + 1 >= StaleLimit /\ Alike(s, a, k) /\ ~Alike(s, a, k + 1)
  BY DEF Maximal
<1>3. a <= k /\ \A j \in a .. k : s[j].close = s[a].close
  BY <1>1, <1>2 DEF Alike
<1>4. \A j \in a .. (k + 1) : s[j].close = s[a].close
  BY <1>3
<1> QED
  BY <1>2, <1>4 DEF Alike

\* The runs that ended before the next row are those before the last and the current one.
LEMMA RunsGrow ==
    ASSUME NEW s \in Seq(PriceRow), NEW n \in Nat, n = Len(s), NEW k \in 1 .. n,
           NEW acc \in StaleAcc, InRun(s, k, acc)
    PROVE  RunsBefore(s, k + 1) = IF k < n /\ s[k + 1].close = s[k].close THEN acc.runs ELSE Flush(acc)
<1> DEFINE I == (1 .. n) \X (1 .. n)
           V(q) == <<s[q[1]].date, q[2] - q[1] + 1>>
           E(m) == {r \in I : Maximal(s, r) /\ r[2] < m}
<1>1. RunsBefore(s, k) = {V(q) : q \in E(k)} /\ RunsBefore(s, k + 1) = {V(q) : q \in E(k + 1)}
  BY DEF RunsBefore
<1>2. E(k + 1) = E(k) \cup {r \in I : Maximal(s, r) /\ r[2] = k}
  OBVIOUS
<1>3. PICK len \in 1 .. k : len = acc.len /\ LastAlike(s, k, len)
  BY DEF InRun, LastAlike
<1>4. CASE k < n /\ s[k + 1].close = s[k].close
  <2>1. {r \in I : Maximal(s, r) /\ r[2] = k} = {}
    <3> SUFFICES ASSUME NEW a \in 1 .. n, Maximal(s, <<a, k>>) PROVE FALSE
      OBVIOUS
    <3> QED
      BY <1>4, NoneEnds
  <2>2. RunsBefore(s, k + 1) = RunsBefore(s, k)
    <3> HIDE DEF E, V
    <3> QED
      BY <1>1, <1>2, <2>1 DEF E
  <2> QED
    BY <1>4, <2>2 DEF InRun
<1>5. CASE ~(k < n /\ s[k + 1].close = s[k].close)
  <2> DEFINE b == k - len + 1
  <2>1. \A a \in 1 .. n : Maximal(s, <<a, k>>) <=> a = b /\ len >= StaleLimit
    <3>1. k < n => s[k + 1].close # s[k].close
      BY <1>5
    <3> SUFFICES ASSUME NEW a \in 1 .. n
                 PROVE  Maximal(s, <<a, k>>) <=> a = k - len + 1 /\ len >= StaleLimit
      OBVIOUS
    <3>2. LastAlike(s, k, len)
      BY <1>3
    <3> QED
      BY ONLY <3>1, <3>2, EndsMaximal, s \in Seq(PriceRow), n \in Nat, n = Len(s), k \in 1 .. n,
              len \in 1 .. k, a \in 1 .. n
  <2>2. b \in 1 .. n /\ k - b + 1 = len /\ V(<<b, k>>) = <<acc.start, acc.len>>
    BY <1>3 DEF InRun
  <2>3. {r \in I : Maximal(s, r) /\ r[2] = k} = IF len >= StaleLimit THEN {<<b, k>>} ELSE {}
    <3> HIDE DEF b
    <3> QED
      BY <2>1, <2>2
  <2>4. RunsBefore(s, k + 1) = IF len >= StaleLimit THEN RunsBefore(s, k) \cup {V(<<b, k>>)}
                               ELSE RunsBefore(s, k)
    <3> HIDE DEF b, V
    <3>1. CASE len >= StaleLimit
      <4>1. E(k + 1) = E(k) \cup {<<b, k>>}
        BY <1>2, <2>3, <3>1
      <4> HIDE DEF E
      <4> QED
        BY <1>1, <4>1, <3>1
    <3>2. CASE ~(len >= StaleLimit)
      <4>1. E(k + 1) = E(k)
        BY <1>2, <2>3, <3>2
      <4> QED
        BY <1>1, <4>1, <3>2
    <3> QED
      BY <3>1, <3>2
  <2> HIDE DEF b, V
  <2> QED
    BY <1>3, <1>5, <2>2, <2>4 DEF Flush, InRun
<1> QED
  BY <1>4, <1>5

\* One more row.
LEMMA InRunStep ==
    ASSUME NEW s \in Seq(PriceRow), NEW n \in Nat, n = Len(s), NEW k \in 1 .. n, k < n,
           NEW acc \in StaleAcc, InRun(s, k, acc)
    PROVE  InRun(s, k + 1, StaleStep(acc, s[k + 1]))
<1>1. PICK len \in 1 .. k : len = acc.len /\ LastAlike(s, k, len)
  BY DEF InRun, LastAlike
<1>2. acc.prev = s[k].close /\ acc.start = s[k - len + 1].date /\ acc.runs = RunsBefore(s, k)
  BY <1>1 DEF InRun
<1>3. k + 1 \in 1 .. n /\ s[k + 1] \in PriceRow
  OBVIOUS
<1>4. CASE s[k + 1].close = s[k].close
  <2>1. StaleStep(acc, s[k + 1]) = [acc EXCEPT !.len = len + 1]
    BY <1>1, <1>2, <1>4 DEF StaleStep
  <2> DEFINE next == [acc EXCEPT !.len = len + 1]
  <2>2. next.len = len + 1 /\ next.prev = acc.prev /\ next.start = acc.start /\ next.runs = acc.runs
    BY DEF StaleAcc
  <2>3. LastAlike(s, k + 1, len + 1)
    <3>1. \A j \in (k - len + 1) .. k : s[j].close = s[k].close
      BY <1>1 DEF LastAlike
    <3>2. \A j \in (k - len + 1) .. (k + 1) : s[j].close = s[k + 1].close
      BY <1>4, <3>1
    <3>3. k - len >= 1 => s[k - len].close # s[k + 1].close
      BY <1>1, <1>4 DEF LastAlike
    <3>4. (k + 1) - (len + 1) + 1 = k - len + 1 /\ (k + 1) - (len + 1) = k - len
      OBVIOUS
    <3> QED
      BY <3>2, <3>3, <3>4 DEF LastAlike
  <2>4. RunsBefore(s, k + 1) = acc.runs
    BY <1>4, RunsGrow
  <2>5. (k + 1) - (len + 1) + 1 = k - len + 1
    OBVIOUS
  <2> HIDE DEF next
  <2> QED
    BY <1>2, <1>4, <2>1, <2>2, <2>3, <2>4, <2>5 DEF InRun, next
<1>5. CASE s[k + 1].close # s[k].close
  <2> DEFINE next == [runs |-> Flush(acc), len |-> 1, start |-> s[k + 1].date, prev |-> s[k + 1].close]
  <2>1. StaleStep(acc, s[k + 1]) = next
    BY <1>2, <1>5 DEF StaleStep
  <2>2. LastAlike(s, k + 1, 1)
    BY <1>5 DEF LastAlike
  <2>3. RunsBefore(s, k + 1) = Flush(acc)
    BY <1>5, RunsGrow
  <2>4. (k + 1) - 1 + 1 = k + 1
    OBVIOUS
  <2> QED
    BY <2>1, <2>2, <2>3, <2>4 DEF InRun
<1> QED
  BY <1>4, <1>5

\* What is reported of a series are its maximal runs.
LEMMA StaleRunsAre ==
    ASSUME NEW s \in Seq(PriceRow)
    PROVE  StaleRuns(s) = {<<s[q[1]].date, q[2] - q[1] + 1>> :
                             q \in {r \in (1 .. Len(s)) \X (1 .. Len(s)) : Maximal(s, r)}}
<1>1. PICK n \in Nat : n = Len(s) /\ \A i \in 1 .. n : s[i] \in PriceRow
  OBVIOUS
<1>2. PICK acc : /\ acc[0] = NoRun
                 /\ \A k \in 1 .. n : acc[k] = StaleStep(acc[k - 1], s[k])
                 /\ FoldLeft(StaleStep, NoRun, s) = acc[n]
  BY <1>1, StaleFold
<1>3. StaleRuns(s) = Flush(acc[n])
  BY <1>2 DEF StaleRuns, NoRun
<1>4. StaleLimit \in Nat /\ StaleLimit >= 1
  BY QualityAssumption
<1>5. CASE n = 0
  <2>1. Flush(acc[n]) = {}
    BY <1>2, <1>4, <1>5 DEF Flush, NoRun
  <2>2. 1 .. Len(s) = {}
    BY <1>1, <1>5
  <2> QED
    BY <1>3, <2>1, <2>2
<1>6. CASE n > 0
  <2> DEFINE P == {k \in Nat : k + 1 <= n => acc[k + 1] \in StaleAcc /\ InRun(s, k + 1, acc[k + 1])}
  <2>1. 0 \in P
    <3>1. acc[1] = [runs |-> {}, len |-> 1, start |-> s[1].date, prev |-> s[1].close]
      <4>1. acc[1] = StaleStep(NoRun, s[1])
        BY <1>2, <1>6
      <4>2. Flush(NoRun) = {}
        BY <1>4 DEF Flush, NoRun
      <4>3. ~(NoRun.len > 0)
        BY DEF NoRun
      <4>4. StaleStep(NoRun, s[1])
              = [runs |-> Flush(NoRun), len |-> 1, start |-> s[1].date, prev |-> s[1].close]
        BY <4>3 DEF StaleStep
      <4> QED
        BY <4>1, <4>2, <4>4
    <3>2. acc[1] \in StaleAcc
      BY <1>1, <1>6, <3>1 DEF StaleAcc, PriceRow
    <3>3. RunsBefore(s, 1) = {}
      BY <1>1 DEF RunsBefore
    <3>4. LastAlike(s, 1, 1)
      BY DEF LastAlike
    <3>5. InRun(s, 1, acc[1])
      BY <3>1, <3>3, <3>4 DEF InRun
    <3> QED
      BY <3>2, <3>5
  <2>2. ASSUME NEW k \in Nat, k \in P PROVE k + 1 \in P
    <3> SUFFICES ASSUME (k + 1) + 1 <= n
                 PROVE  acc[(k + 1) + 1] \in StaleAcc /\ InRun(s, (k + 1) + 1, acc[(k + 1) + 1])
      OBVIOUS
    <3>1. k + 1 \in 1 .. n /\ k + 1 < n /\ (k + 1) + 1 \in 1 .. n /\ ((k + 1) + 1) - 1 = k + 1
      BY <1>1
    <3>2. acc[k + 1] \in StaleAcc /\ InRun(s, k + 1, acc[k + 1])
      BY <2>2, <3>1
    <3>3. acc[(k + 1) + 1] = StaleStep(acc[k + 1], s[(k + 1) + 1])
      BY <1>2, <3>1
    <3>4. acc[(k + 1) + 1] \in StaleAcc
      BY <1>1, <3>1, <3>2, <3>3, StaleStepType
    <3>5. InRun(s, (k + 1) + 1, acc[(k + 1) + 1])
      BY <1>1, <3>1, <3>2, <3>3, InRunStep
    <3> QED
      BY <3>4, <3>5
  <2>3. Nat \subseteq P
    <3> HIDE DEF P
    <3> QED
      BY <2>1, <2>2, NumbersFrom0
  <2>4. n - 1 \in Nat /\ (n - 1) + 1 = n
    BY <1>6
  <2>5. acc[n] \in StaleAcc /\ InRun(s, n, acc[n])
    BY <2>3, <2>4
  <2>6. RunsBefore(s, n + 1) = Flush(acc[n])
    BY <1>1, <1>6, <2>5, RunsGrow
  <2>7. RunsBefore(s, n + 1) = {<<s[q[1]].date, q[2] - q[1] + 1>> :
                                  q \in {r \in (1 .. Len(s)) \X (1 .. Len(s)) : Maximal(s, r)}}
    <3>1. {r \in (1 .. Len(s)) \X (1 .. Len(s)) : Maximal(s, r) /\ r[2] < n + 1}
            = {r \in (1 .. Len(s)) \X (1 .. Len(s)) : Maximal(s, r)}
      BY <1>1
    <3> QED
      BY <3>1 DEF RunsBefore
  <2> QED
    BY <1>3, <2>6, <2>7
<1> QED
  BY <1>1, <1>5, <1>6

\* _stale_runs reports exactly the maximal runs of one close of at least the
\* limit, the one that the series ends with among them.
THEOREM StaleRunsAreReported == QualitySpec => []StaleRunsAreMaximal
<1>1. QualityInit => SeriesInv
  BY DEF QualityInit, SeriesInv
<1>2. SeriesInv /\ [NewRow]_series => SeriesInv'
  BY SeriesGrows DEF SeriesInv
<1>3. SeriesInv => StaleRunsAreMaximal
  BY StaleRunsAre DEF SeriesInv, StaleRunsAreMaximal, Maximal, Alike
<1> QED
  BY <1>1, <1>2, <1>3, PTL DEF QualitySpec

-----------------------------------------------------------------------------
(***************************************************************************)
(* The limits on weights.  A scaled sector adds up to the sum of the       *)
(* quotients of its sizes, which lose less than a unit each.               *)
(***************************************************************************)
WholeRow == [Name -> Int]

\* The sizes of the weights of a row.
Sizes(w) == [t \in Name |-> Size(w[t])]

\* Clip, Size
LEMMA ClipFacts ==
    ASSUME NEW n \in Int
    PROVE  /\ Clip(n) \in Int /\ Size(n) \in Nat
           /\ Size(Clip(n)) <= MaxPosition /\ Size(Clip(n)) <= Size(n)
           /\ n >= 0 => Clip(n) >= 0
           /\ n <= 0 => Clip(n) <= 0
BY SizingAssumption DEF Clip, Size

\* GrossOf is a sum of sizes.
LEMMA GrossIs ==
    ASSUME NEW w \in WholeRow, NEW S \in SUBSET Name
    PROVE  GrossOf(w, S) = SumOf(Sizes(w), S) /\ SumOf(Sizes(w), S) \in Int
<1>0. IsFiniteSet(S)
  BY SizingAssumption, FS_Subset
<1>1. \A t \in S : Sizes(w)[t] = Size(w[t]) /\ Size(w[t]) \in Int
  BY DEF Sizes, WholeRow, Size
<1> DEFINE Is(i) == i = [T \in SUBSET S |->
                           IF T = {} THEN 0 ELSE Size(w[Pick(T)]) + i[T \ {Pick(T)}]]
           it == CHOOSE i : Is(i)
<1>2. ASSUME NEW i PROVE IsSum(i, Sizes(w), S) <=> Is(i)
  <2>1. \A T \in SUBSET S : T # {} => Sizes(w)[Pick(T)] = Size(w[Pick(T)])
    BY <1>1, PickIn
  <2> QED
    BY <2>1 DEF IsSum
<1>3. Is(it)
  <2>1. PICK i : Is(i)
    BY <1>0, <1>2, SumsExist
  <2> HIDE DEF Is
  <2> QED
    BY <2>1, Zenon
<1>4. GrossOf(w, S) = it[S]
  BY DEF GrossOf, MapThenSumSet, MapThenFoldSet, Pick
<1>5. IsSum(it, Sizes(w), S)
  BY <1>2, <1>3
<1>6. it[S] = SumOf(Sizes(w), S)
  <2>1. S \in SUBSET S /\ \A x \in S : Sizes(w)[x] = Sizes(w)[x]
    OBVIOUS
  <2> HIDE DEF it
  <2> QED
    BY <1>0, <1>5, <2>1, SumIs
<1>7. SumOf(Sizes(w), S) \in Int
  <2>1. \A t \in S : Sizes(w)[t] \in Int
    BY <1>1
  <2> QED
    BY <1>0, <2>1, SumType
<1> QED
  BY <1>4, <1>6, <1>7

\* Scaled keeps the side and takes the quotient of the size.
LEMMA ScaledFacts ==
    ASSUME NEW n \in Int, NEW g \in Int, g > MaxSector
    PROVE  /\ Scaled(n, MaxSector, g) \in Int
           /\ Size(Scaled(n, MaxSector, g)) = (MaxSector * Size(n)) \div g
           /\ Size(Scaled(n, MaxSector, g)) <= Size(n)
           /\ n >= 0 => Scaled(n, MaxSector, g) >= 0
           /\ n <= 0 => Scaled(n, MaxSector, g) <= 0
<1>1. PICK a \in Nat : a = Size(n) /\ a = IF n < 0 THEN -n ELSE n
  BY DEF Size
<1>2. PICK m \in Nat : m = MaxSector /\ m > 0 /\ g > m
  BY SizingAssumption
<1>3. PICK x \in Nat : x = a * m /\ x = m * a
  OBVIOUS
<1>4. PICK q \in Nat : q = x \div g
  BY <1>2
<1>5. Scaled(n, MaxSector, g) = IF n < 0 THEN -q ELSE q
  BY <1>1, <1>2, <1>3, <1>4 DEF Scaled
<1>6. q <= a
  <2>1. g * q <= x
    BY <1>2, <1>4, Quotient
  <2>2. a * m <= a * g
    BY <1>2, Product
  <2>3. g * q <= g * a
    <3>1. a * g = g * a
      OBVIOUS
    <3>2. PICK u \in Int, v \in Int : u = g * q /\ v = g * a
      OBVIOUS
    <3> QED
      BY <1>3, <2>1, <2>2, <3>1, <3>2
  <2> QED
    BY <1>2, <2>3, Cancel
<1>7. n = 0 => q = 0
  BY <1>1, <1>6
<1> QED
  BY <1>1, <1>2, <1>3, <1>4, <1>5, <1>6, <1>7 DEF Size

\* One row of weights.
Within(raw, w, s) ==
    /\ Size(w[s]) <= MaxPosition
    /\ Size(w[s]) <= Size(raw[s]) /\ w[s] * raw[s] >= 0
    /\ Sector(s) # NoSector =>
          /\ GrossOf(w, InSector(s)) <= MaxSector
          /\ GrossOf([t \in Name |-> Clip(raw[t])], InSector(s)) > MaxSector =>
                GrossOf(w, InSector(s)) > MaxSector - Cardinality(InSector(s))

\* Two numbers on one side of 0 have a product that is not negative.
LEMMA OneSide ==
    ASSUME NEW a \in Int, NEW b \in Int, (a >= 0 /\ b >= 0) \/ (a <= 0 /\ b <= 0)
    PROVE  a * b >= 0
OBVIOUS

\* ApplyPositionCaps
LEMMA RowIsCapped ==
    ASSUME NEW raw \in WholeRow, NEW s \in Name
    PROVE  Within(raw, ApplyPositionCaps(raw), s)
<1>1. PICK c \in WholeRow : c = [t \in Name |-> Clip(raw[t])]
  <2>1. \A t \in Name : Clip(raw[t]) \in Int
    BY ClipFacts DEF WholeRow
  <2> QED
    BY <2>1 DEF WholeRow
<1>2. PICK w : /\ w = ApplyPositionCaps(raw)
               /\ w = [t \in Name |->
                         IF Sector(t) # NoSector /\ SectorGross(c, t) > MaxSector
                         THEN Scaled(c[t], MaxSector, SectorGross(c, t)) ELSE c[t]]
  BY <1>1 DEF ApplyPositionCaps
<1>3. \A t \in Name : SectorGross(c, t) \in Int
  BY GrossIs DEF SectorGross, InSector
<1>4. ASSUME NEW t \in Name
      PROVE  /\ w[t] \in Int /\ Size(w[t]) <= MaxPosition
             /\ Size(w[t]) <= Size(raw[t]) /\ w[t] * raw[t] >= 0
  <2>1. PICK r \in Int, k \in Int : r = raw[t] /\ k = c[t] /\ k = Clip(r)
    BY <1>1 DEF WholeRow
  <2>2. /\ Size(k) <= MaxPosition /\ Size(k) <= Size(r) /\ Size(k) \in Nat /\ Size(r) \in Nat
        /\ (r >= 0 => k >= 0) /\ (r <= 0 => k <= 0)
    BY <2>1, ClipFacts
  <2>3. PICK v \in Int : /\ v = w[t] /\ Size(v) <= Size(k) /\ Size(v) \in Nat
                         /\ k >= 0 => v >= 0
                         /\ k <= 0 => v <= 0
    <3>1. CASE Sector(t) # NoSector /\ SectorGross(c, t) > MaxSector
      <4>1. PICK g \in Int : g = SectorGross(c, t) /\ g > MaxSector
        BY <1>3, <3>1
      <4>2. w[t] = Scaled(k, MaxSector, g)
        BY <1>2, <2>1, <3>1, <4>1
      <4> QED
        BY <4>1, <4>2, ScaledFacts, ClipFacts
    <3>2. CASE ~(Sector(t) # NoSector /\ SectorGross(c, t) > MaxSector)
      <4>1. w[t] = k
        BY <1>2, <2>1, <3>2
      <4> QED
        BY <2>2, <4>1
    <3> QED
      BY <3>1, <3>2
  <2>4. v * r >= 0
    <3>1. (v >= 0 /\ r >= 0) \/ (v <= 0 /\ r <= 0)
      BY <2>2, <2>3
    <3> QED
      BY <3>1, OneSide
  <2> QED
    BY <2>1, <2>2, <2>3, <2>4, SizingAssumption
<1>5. w \in WholeRow
  BY <1>2, <1>4 DEF WholeRow
<1>6. ASSUME Sector(s) # NoSector
      PROVE  /\ GrossOf(w, InSector(s)) <= MaxSector
             /\ GrossOf(c, InSector(s)) > MaxSector =>
                   GrossOf(w, InSector(s)) > MaxSector - Cardinality(InSector(s))
  <2>1. PICK S \in SUBSET Name : S = InSector(s) /\ s \in S
    <3>1. InSector(s) \in SUBSET Name /\ s \in InSector(s)
      BY DEF InSector
    <3> QED
      BY <3>1
  <2>2. PICK g \in Int : g = GrossOf(c, S) /\ g = SumOf(Sizes(c), S)
    BY GrossIs
  <2>3. \A t \in S : Sector(t) # NoSector /\ SectorGross(c, t) = g
    <3>1. \A t \in S : Sector(t) = Sector(s) /\ InSector(t) = InSector(s)
      BY <2>1 DEF InSector
    <3> QED
      BY <1>6, <2>1, <2>2, <3>1 DEF SectorGross
  <2>4. PICK h \in Int : h = GrossOf(w, S) /\ h = SumOf(Sizes(w), S)
    BY <1>5, GrossIs
  <2>5. IsFiniteSet(S) /\ Cardinality(S) \in Nat /\ Cardinality(S) > 0
    <3>1. IsFiniteSet(S)
      BY SizingAssumption, FS_Subset
    <3> QED
      BY <2>1, <3>1, FS_CardinalityType, FS_EmptySet
  <2>6. CASE g > MaxSector
    <3> DEFINE F == [t \in S |-> MaxSector * Size(c[t])]
    <3>1. \A t \in S : Size(c[t]) \in Int /\ Sizes(c)[t] = Size(c[t]) /\ c[t] \in Int
      BY DEF Sizes, WholeRow, Size
    <3>2. \A t \in S : F[t] \in Int /\ Sizes(w)[t] = F[t] \div g
      <4> SUFFICES ASSUME NEW t \in S PROVE F[t] \in Int /\ Sizes(w)[t] = F[t] \div g
        OBVIOUS
      <4>1. w[t] = Scaled(c[t], MaxSector, g)
        BY <1>2, <2>3, <2>6
      <4>2. Size(w[t]) = (MaxSector * Size(c[t])) \div g
        BY <2>6, <3>1, <4>1, ScaledFacts
      <4>3. Sizes(w)[t] = Size(w[t])
        BY DEF Sizes
      <4> QED
        BY <3>1, <4>2, <4>3, SizingAssumption
    <3>3. \A t \in S : Sizes(c)[t] \in Int /\ F[t] = MaxSector * Sizes(c)[t]
      BY <3>1
    <3> HIDE DEF F
    <3>4. PICK m \in Int : m = MaxSector /\ m > 0 /\ g > 0
      BY <2>6, SizingAssumption
    <3>5. SumOf(F, S) = m * g
      <4>1. \A t \in S : Sizes(c)[t] \in Int /\ F[t] = m * Sizes(c)[t]
        BY <3>3, <3>4
      <4>2. SumOf(F, S) = m * SumOf(Sizes(c), S)
        BY ONLY <2>5, <4>1, SumTimes, Zenon, m \in Int
      <4> QED
        BY <2>2, <4>2
    <3>6. /\ g * h <= SumOf(F, S)
          /\ SumOf(F, S) <= g * h + (g - 1) * Cardinality(S)
      <4>1. /\ g * SumOf(Sizes(w), S) <= SumOf(F, S)
            /\ SumOf(F, S) <= g * SumOf(Sizes(w), S) + (g - 1) * Cardinality(S)
        BY <2>5, <3>2, <3>4, QuotientSum
      <4> QED
        BY <2>4, <4>1
    <3>7. PICK k \in Nat : k = Cardinality(S) /\ k > 0
      BY <2>5
    <3>8. h <= m
      <4>1. g * h <= g * m
        BY <3>5, <3>6
      <4> QED
        BY <3>4, <4>1, Cancel
    <3>9. m < h + k
      <4> SUFFICES ASSUME h + k <= m PROVE FALSE
        OBVIOUS
      <4>1. g * (h + k) <= g * m
        BY <3>4, Product
      <4>2. g * (h + k) = g * h + g * k /\ (g - 1) * k = g * k - k /\ m * g = g * m
        OBVIOUS
      <4>3. PICK u \in Int, v \in Int, x \in Int : u = g * h /\ v = g * k /\ x = g * m
        OBVIOUS
      <4> QED
        BY <3>5, <3>6, <3>7, <4>1, <4>2, <4>3
    <3> QED
      BY <2>1, <2>2, <2>4, <3>4, <3>7, <3>8, <3>9
  <2>7. CASE ~(g > MaxSector)
    <3>1. \A t \in S : Sizes(w)[t] = Sizes(c)[t]
      BY <1>2, <2>3, <2>7 DEF Sizes
    <3>2. SumOf(Sizes(w), S) = SumOf(Sizes(c), S)
      BY <2>5, <3>1, SumSame
    <3> QED
      BY <2>1, <2>2, <2>4, <2>7, <3>2, SizingAssumption
  <2> QED
    BY <2>6, <2>7
<1> QED
  BY <1>1, <1>2, <1>4, <1>6 DEF Within

\* Positions and sectors are within their limits together, no weight grows or changes sides
\* and a scaled sector uses its limit up to a unit for each member, for any symbols, sectors,
\* limits and weights.
THEOREM RowsAreCapped == SizingSpec => []CapsHold
<1> DEFINE Inv == capped.raw \in WholeRow /\ capped.w = ApplyPositionCaps(capped.raw)
<1>1. SizingInit => Inv
  <2> SUFFICES ASSUME SizingInit PROVE Inv
    OBVIOUS
  <2>1. NoRow \in WholeRow /\ capped.raw = NoRow /\ capped.w = NoRow
    BY DEF SizingInit, NoRow, WholeRow
  <2>2. PICK c \in WholeRow : c = [t \in Name |-> Clip(NoRow[t])] /\ \A t \in Name : c[t] = 0
    <3>1. \A t \in Name : Clip(NoRow[t]) = 0
      BY SizingAssumption DEF NoRow, Clip
    <3>2. PICK c : c = [t \in Name |-> Clip(NoRow[t])]
      OBVIOUS
    <3>3. c = [t \in Name |-> 0]
      BY <3>1, <3>2
    <3>4. c \in WholeRow /\ \A t \in Name : c[t] = 0
      BY <3>3 DEF WholeRow
    <3> QED
      BY <3>2, <3>4
  <2>3. \A t \in Name : SectorGross(c, t) \in Int
    BY GrossIs DEF SectorGross, InSector
  <2>4. \A t \in Name :
           (IF Sector(t) # NoSector /\ SectorGross(c, t) > MaxSector
            THEN Scaled(c[t], MaxSector, SectorGross(c, t)) ELSE c[t]) = 0
    BY <2>2, <2>3, ScaledFacts, SizingAssumption
  <2>5. ApplyPositionCaps(NoRow) = NoRow
    BY <2>2, <2>4 DEF ApplyPositionCaps, NoRow
  <2> QED
    BY <2>1, <2>5
<1>2. Inv /\ [CapRow]_capped => Inv'
  <2> SUFFICES ASSUME Inv, [CapRow]_capped PROVE Inv'
    OBVIOUS
  <2>1. CASE CapRow
    <3>1. PICK raw \in [Name -> RawWeights] : capped' = [raw |-> raw, w |-> ApplyPositionCaps(raw)]
      BY <2>1 DEF CapRow
    <3>2. raw \in WholeRow
      BY SizingAssumption DEF WholeRow
    <3> QED
      BY <3>1, <3>2
  <2>2. CASE UNCHANGED capped
    BY <2>2
  <2> QED
    BY <2>1, <2>2
<1>3. Inv => CapsHold
  <2> SUFFICES ASSUME Inv PROVE CapsHold
    OBVIOUS
  <2>1. \A s \in Name : Within(capped.raw, capped.w, s)
    BY RowIsCapped
  <2> QED
    BY <2>1 DEF Within, CapsHold
<1> QED
  BY <1>1, <1>2, <1>3, PTL DEF SizingSpec

-----------------------------------------------------------------------------
(***************************************************************************)
(* The implied volatility.  The inductive invariant says that the search   *)
(* encloses the market's price and that each halving narrows it.           *)
(***************************************************************************)
Span == CHOOSE span \in [0 .. Halvings -> 0 .. Top] : Narrows(span)

SolveType ==
    [stage : {"idle", "asked", "newton", "bisect", "answered", "raised"}, alive : BOOLEAN,
     price : [Vol -> Int], market : Int, low : Int, up : Int,
     sigma : Vol, lo : 1 .. Top, hi : 1 .. Top, n : Nat]

\* The bounds of the search: what lies outside them is priced apart from the market.
Enclosed ==
    /\ solve.lo <= solve.hi /\ solve.n \in 0 .. Halvings
    /\ solve.hi - solve.lo <= Span[solve.n]
    /\ solve.lo > 1 => Diff(solve.lo) <= -Tol
    /\ solve.hi < Top => Diff(solve.hi) >= Tol

VolInv ==
    /\ solve \in SolveType
    /\ solve.stage # "idle" =>
          solve.price \in Rising /\ solve.low <= solve.price[1] /\ solve.price[Beyond] <= solve.up
    /\ solve.stage \in {"idle", "asked", "newton"} => solve.lo = 1 /\ solve.hi = Top
    /\ solve.stage = "bisect" => Enclosed
    /\ AnswerExplainsPrice

\* Halvings
LEMMA SpanIs == Span \in [0 .. Halvings -> 0 .. Top] /\ Narrows(Span)
BY HalvingsAssumption DEF Span

\* A price of more volatility is not lower, over any distance.
LEMMA PricesRise ==
    ASSUME NEW f \in Rising, NEW s \in Vol, NEW t \in Vol, s <= t
    PROVE  f[s] <= f[t]
<1> DEFINE P == {n \in Nat : s + n \in Vol => f[s] <= f[s + n]}
<1>1. f \in [Vol -> Int] /\ \A x \in 1 .. Beyond - 1 : f[x] <= f[x + 1]
  BY GridAssumption DEF Rising
<1>2. s \in Int /\ f[s] \in Int /\ s + 0 = s
  BY <1>1 DEF Vol
<1>3. 0 \in P
  BY <1>2
<1>4. ASSUME NEW n \in Nat, n \in P PROVE n + 1 \in P
  <2> SUFFICES ASSUME s + (n + 1) \in Vol PROVE f[s] <= f[s + (n + 1)]
    OBVIOUS
  <2>1. PICK x \in Int : x = s + n
    BY <1>2
  <2>2. x \in 1 .. Beyond - 1 /\ x \in Vol /\ x + 1 \in Vol /\ s + (n + 1) = x + 1
    BY <1>2, <2>1, GridAssumption DEF Vol
  <2>3. f[s] <= f[x] /\ f[x] <= f[x + 1] /\ f[x] \in Int /\ f[x + 1] \in Int
    BY <1>1, <1>4, <2>1, <2>2
  <2> QED
    BY <1>2, <2>2, <2>3
<1>5. t - s \in P
  <2> HIDE DEF P
  <2>1. t - s \in Nat
    BY DEF Vol
  <2> QED
    BY <1>3, <1>4, <2>1, NumbersFrom0
<1>6. s + (t - s) = t
  BY DEF Vol
<1> QED
  BY <1>5, <1>6

\* A step that keeps the quote keeps the verdicts on all volatilities.
LEMMA SameQuote ==
    ASSUME solve'.price = solve.price, solve'.market = solve.market
    PROVE  \A s \in Vol : Diff(s)' = Diff(s) /\ (Close(s)' <=> Close(s))
BY DEF Diff, Close

\* Differences are whole and rise with volatility.
LEMMA DiffRises ==
    ASSUME solve \in SolveType, solve.price \in Rising
    PROVE  /\ \A s \in Vol : Diff(s) \in Int
           /\ \A s \in Vol : \A t \in Vol : s <= t => Diff(s) <= Diff(t)
           /\ Tol \in Int /\ Tol > 0
<1>1. solve.price \in [Vol -> Int] /\ solve.market \in Int
  BY DEF SolveType
<1>2. \A s \in Vol : \A t \in Vol : s <= t => solve.price[s] <= solve.price[t]
  BY PricesRise
<1> QED
  BY <1>1, <1>2, GridAssumption DEF Diff

\* Quote
LEMMA QuoteStep == VolInv /\ Quote => VolInv'
<1> SUFFICES ASSUME VolInv, Quote PROVE VolInv'
  OBVIOUS
<1>1. PICK f \in Rising, market \in OptionPrices, gap \in {0, 2}, alive \in BOOLEAN :
         solve' = [solve EXCEPT !.stage = "asked", !.alive = alive, !.price = f,
                        !.market = market, !.low = f[1] - gap, !.up = f[Beyond] + gap]
  BY DEF Quote
<1>2. solve \in SolveType /\ solve.lo = 1 /\ solve.hi = Top
  BY DEF VolInv, Quote
<1>3. f \in [Vol -> Int] /\ f[1] \in Int /\ f[Beyond] \in Int /\ market \in Int
  <2>1. f \in [Vol -> OptionPrices] /\ 1 \in Vol /\ Beyond \in Vol
    BY GridAssumption DEF Rising, Vol
  <2> QED
    BY <2>1, GridAssumption
<1>4. solve' \in SolveType
  <2>1. PICK low \in Int, up \in Int : low = f[1] - gap /\ up = f[Beyond] + gap
    BY <1>3
  <2>2. solve' = [solve EXCEPT !.stage = "asked", !.alive = alive, !.price = f,
                        !.market = market, !.low = low, !.up = up]
    BY <1>1, <2>1
  <2> QED
    BY <1>2, <1>3, <2>2 DEF SolveType
<1>5. /\ solve'.stage = "asked" /\ solve'.price = f /\ solve'.low = f[1] - gap
      /\ solve'.up = f[Beyond] + gap /\ solve'.lo = 1 /\ solve'.hi = Top
  BY <1>1, <1>2 DEF SolveType
<1>6. solve'.low <= f[1] /\ f[Beyond] <= solve'.up
  BY <1>3, <1>5
<1> QED
  BY <1>4, <1>5, <1>6 DEF VolInv, AnswerExplainsPrice

\* A step that keeps the quote and ends: only the answer is to be explained.
LEMMA EndStep ==
    ASSUME VolInv, solve.stage # "idle", NEW stage \in {"answered", "raised"}, NEW s \in Vol,
           Ends(stage, s),
           stage = "answered" =>
               \/ Close(s)
               \/ /\ \A t \in 2 .. Top : t <= s => Diff(t) <= -Tol
                  /\ \A t \in 1 .. Top - 1 : t > s => Diff(t) >= Tol,
           stage = "raised" => ~solve.alive \/ \A t \in Vol : ~Close(t)
    PROVE  VolInv'
<1>1. solve \in SolveType /\ solve' = [solve EXCEPT !.stage = stage, !.sigma = s]
  BY DEF VolInv, Ends
<1>2. solve' \in SolveType
  BY <1>1 DEF SolveType
<1>3. /\ solve'.stage = stage /\ solve'.sigma = s /\ solve'.price = solve.price
      /\ solve'.market = solve.market /\ solve'.alive = solve.alive
      /\ solve'.low = solve.low /\ solve'.up = solve.up
  BY <1>1 DEF SolveType
<1>4. \A t \in Vol : Diff(t)' = Diff(t) /\ (Close(t)' <=> Close(t))
  BY <1>3, SameQuote
<1>5. 2 .. Top \subseteq Vol /\ 1 .. Top - 1 \subseteq Vol
  BY GridAssumption DEF Vol
<1>6. AnswerExplainsPrice'
  <2>1. CASE stage = "answered"
    BY <1>3, <1>4, <1>5, <2>1 DEF AnswerExplainsPrice
  <2>2. CASE stage = "raised"
    BY <1>3, <1>4, <2>2 DEF AnswerExplainsPrice
  <2> QED
    BY <2>1, <2>2
<1> QED
  BY <1>2, <1>3, <1>6 DEF VolInv

\* A step that keeps the quote and searches on.
LEMMA SearchStep ==
    ASSUME VolInv, solve.stage \in {"asked", "newton"}, NEW stage \in {"newton", "bisect"},
           NEW s \in Vol, NEW n \in Nat, stage = "bisect" => n = 0,
           solve' = [solve EXCEPT !.stage = stage, !.sigma = s, !.n = n]
    PROVE  VolInv'
<1>1. solve \in SolveType /\ solve.lo = 1 /\ solve.hi = Top
  BY DEF VolInv
<1>2. solve' \in SolveType
  BY <1>1 DEF SolveType
<1>3. /\ solve'.stage = stage /\ solve'.n = n /\ solve'.price = solve.price
      /\ solve'.lo = 1 /\ solve'.hi = Top
      /\ solve'.low = solve.low /\ solve'.up = solve.up
  BY <1>1 DEF SolveType
<1>4. ASSUME stage = "bisect" PROVE Enclosed'
  <2>1. Span[0] = Top - 1 /\ 0 \in 0 .. Halvings
    BY SpanIs, HalvingsAssumption DEF Narrows
  <2> QED
    BY <1>3, <1>4, <2>1, GridAssumption DEF Enclosed
<1> QED
  BY <1>2, <1>3, <1>4 DEF VolInv, AnswerExplainsPrice

\* CheckBounds
LEMMA CheckStep == VolInv /\ CheckBounds => VolInv'
<1> SUFFICES ASSUME VolInv, CheckBounds PROVE VolInv'
  OBVIOUS
<1>1. /\ solve \in SolveType /\ solve.stage = "asked" /\ solve.price \in Rising
      /\ solve.low <= solve.price[1] /\ solve.price[Beyond] <= solve.up
  BY DEF VolInv, CheckBounds
<1>2. CASE solve.alive /\ solve.low - Tol <= solve.market /\ solve.market <= solve.up + Tol
  <2>1. PICK seed \in Vol : Ends("newton", seed)
    BY <1>2 DEF CheckBounds
  <2>2. solve' = [solve EXCEPT !.stage = "newton", !.sigma = seed, !.n = solve.n]
    BY <1>1, <2>1 DEF Ends, SolveType
  <2>3. solve.n \in Nat
    BY <1>1 DEF SolveType
  <2> QED
    BY <1>1, <2>2, <2>3, SearchStep
<1>3. CASE ~(solve.alive /\ solve.low - Tol <= solve.market /\ solve.market <= solve.up + Tol)
  <2>1. Ends("raised", 1) /\ 1 \in Vol
    BY <1>3, GridAssumption DEF CheckBounds, Vol
  <2>2. ASSUME solve.alive, NEW t \in Vol PROVE ~Close(t)
    <3>1. /\ solve.price[1] \in Int /\ solve.price[t] \in Int /\ solve.price[Beyond] \in Int
          /\ solve.low \in Int /\ solve.up \in Int /\ solve.market \in Int
          /\ 1 \in Vol /\ Beyond \in Vol /\ 1 <= t /\ t <= Beyond
      BY <1>1, GridAssumption DEF SolveType, Vol
    <3>2. solve.price[1] <= solve.price[t] /\ solve.price[t] <= solve.price[Beyond]
      BY <1>1, <3>1, PricesRise
    <3> QED
      BY <1>1, <1>3, <2>2, <3>1, <3>2, GridAssumption DEF Close, Diff
  <2> QED
    BY <1>1, <2>1, <2>2, EndStep
<1> QED
  BY <1>2, <1>3

\* Newton
LEMMA NewtonStep == VolInv /\ Newton => VolInv'
<1> SUFFICES ASSUME VolInv, Newton PROVE VolInv'
  OBVIOUS
<1>1. solve \in SolveType /\ solve.stage = "newton" /\ solve.sigma \in Vol /\ solve.n \in Nat
  BY DEF VolInv, Newton, SolveType
<1>2. CASE Close(solve.sigma) /\ Ends("answered", solve.sigma)
  BY <1>1, <1>2, EndStep
<1>3. CASE solve' = [solve EXCEPT !.stage = "bisect", !.n = 0]
  <2>1. solve' = [solve EXCEPT !.stage = "bisect", !.sigma = solve.sigma, !.n = 0]
    BY <1>1, <1>3 DEF SolveType
  <2> QED
    BY <1>1, <2>1, SearchStep
<1>4. ASSUME NEW s \in 1 .. Top, solve' = [solve EXCEPT !.sigma = s, !.n = @ + 1]
      PROVE  VolInv'
  <2>1. s \in Vol /\ solve.n + 1 \in Nat
    BY <1>1, GridAssumption DEF Vol
  <2>2. solve' = [solve EXCEPT !.stage = "newton", !.sigma = s, !.n = solve.n + 1]
    BY <1>1, <1>4 DEF SolveType
  <2> QED
    BY <1>1, <2>1, <2>2, SearchStep
<1> QED
  BY <1>2, <1>3, <1>4 DEF Newton

\* GiveUpNewton
LEMMA GiveUpStep == VolInv /\ GiveUpNewton => VolInv'
<1> SUFFICES ASSUME VolInv, GiveUpNewton PROVE VolInv'
  OBVIOUS
<1>1. solve \in SolveType /\ solve.stage = "newton" /\ solve.sigma \in Vol
  BY DEF VolInv, GiveUpNewton, SolveType
<1>2. solve' = [solve EXCEPT !.stage = "bisect", !.sigma = solve.sigma, !.n = 0]
  BY <1>1 DEF GiveUpNewton, SolveType
<1> QED
  BY <1>1, <1>2, SearchStep

\* Bisect
LEMMA BisectStep == VolInv /\ Bisect => VolInv'
<1> SUFFICES ASSUME VolInv, Bisect PROVE VolInv'
  OBVIOUS
<1>1. /\ solve \in SolveType /\ solve.stage = "bisect" /\ solve.price \in Rising
      /\ solve.low <= solve.price[1] /\ solve.price[Beyond] <= solve.up
      /\ Enclosed
  BY DEF VolInv, Bisect
<1>2. PICK lo \in 1 .. Top, hi \in 1 .. Top, n \in 0 .. Halvings, w \in Nat :
         lo = solve.lo /\ hi = solve.hi /\ n = solve.n /\ w = Span[solve.n]
  BY <1>1, SpanIs DEF SolveType, Enclosed
<1>3. /\ lo <= hi /\ hi - lo <= w
      /\ lo > 1 => Diff(lo) <= -Tol
      /\ hi < Top => Diff(hi) >= Tol
  BY <1>1, <1>2 DEF Enclosed
<1>4. PICK mid \in 1 .. Top : mid = Mid /\ mid = (lo + hi) \div 2 /\ lo <= mid /\ mid <= hi
  BY <1>2, <1>3, GridAssumption DEF Mid
<1>5. lo \in Vol /\ hi \in Vol /\ mid \in Vol /\ 2 .. Top \subseteq Vol /\ 1 .. Top - 1 \subseteq Vol
  BY GridAssumption DEF Vol
<1>6. /\ \A s \in Vol : Diff(s) \in Int
      /\ \A s \in Vol : \A t \in Vol : s <= t => Diff(s) <= Diff(t)
      /\ Tol \in Int /\ Tol > 0
  BY <1>1, DiffRises
<1>7. CASE n = Halvings \/ Close(mid)
  <2>1. Ends("answered", mid)
    BY <1>2, <1>4, <1>7 DEF Bisect
  <2>2. ASSUME n = Halvings
        PROVE  /\ \A t \in 2 .. Top : t <= mid => Diff(t) <= -Tol
               /\ \A t \in 1 .. Top - 1 : t > mid => Diff(t) >= Tol
    <3>1. w <= 1
      BY <1>2, <2>2, SpanIs DEF Narrows
    <3>2. mid = lo /\ hi <= lo + 1
      BY <1>2, <1>3, <1>4, <3>1
    <3>3. ASSUME NEW t \in 2 .. Top, t <= mid PROVE Diff(t) <= -Tol
      <4>1. t \in Vol /\ t <= lo /\ lo > 1
        BY <1>5, <3>2, <3>3
      <4> QED
        BY <1>3, <1>5, <1>6, <4>1
    <3>4. ASSUME NEW t \in 1 .. Top - 1, t > mid PROVE Diff(t) >= Tol
      <4>1. t \in Vol /\ hi <= t /\ hi < Top
        BY <1>5, <3>2, <3>4, GridAssumption
      <4> QED
        BY <1>3, <1>5, <1>6, <4>1
    <3> QED
      BY <3>3, <3>4
  <2> QED
    BY <1>1, <1>5, <1>7, <2>1, <2>2, EndStep
<1>8. CASE n # Halvings /\ ~Close(mid)
  <2>1. n + 1 \in 0 .. Halvings /\ Span[n + 1] = (w + 1) \div 2
    <3>1. n \in 0 .. Halvings - 1 /\ n + 1 \in 0 .. Halvings
      BY <1>8, HalvingsAssumption
    <3>2. Span[n + 1] = (Span[n] + 1) \div 2
      BY <3>1, SpanIs DEF Narrows
    <3> QED
      BY <1>2, <3>1, <3>2
  <2>2. mid - lo <= (w + 1) \div 2 /\ hi - mid <= (w + 1) \div 2
    BY <1>2, <1>3, <1>4
  <2>3. PICK l \in 1 .. Top, h \in 1 .. Top :
           /\ solve' = [solve EXCEPT !.lo = l, !.hi = h, !.n = n + 1]
           /\ l <= h /\ h - l <= (w + 1) \div 2
           /\ l > 1 => Diff(l) <= -Tol
           /\ h < Top => Diff(h) >= Tol
    <3>1. solve' = Halve
      BY <1>2, <1>4, <1>8 DEF Bisect
    <3>2. CASE Diff(mid) > 0
      <4>1. solve' = [solve EXCEPT !.lo = lo, !.hi = mid, !.n = n + 1]
        BY <1>1, <1>2, <1>4, <3>1, <3>2 DEF Halve, SolveType
      <4>2. Diff(mid) >= Tol
        BY <1>5, <1>6, <1>8, <3>2 DEF Close
      <4> QED
        BY <1>3, <1>4, <2>2, <4>1, <4>2
    <3>3. CASE ~(Diff(mid) > 0)
      <4>1. solve' = [solve EXCEPT !.lo = mid, !.hi = hi, !.n = n + 1]
        BY <1>1, <1>2, <1>4, <3>1, <3>3 DEF Halve, SolveType
      <4>2. Diff(mid) <= -Tol
        BY <1>5, <1>6, <1>8, <3>3 DEF Close
      <4> QED
        BY <1>3, <1>4, <2>2, <4>1, <4>2
    <3> QED
      BY <3>2, <3>3
  <2>4. solve' \in SolveType
    <3>1. PICK k \in Nat : k = n + 1
      BY <1>2
    <3> QED
      BY <1>1, <2>3, <3>1 DEF SolveType
  <2>5. /\ solve'.stage = "bisect" /\ solve'.price = solve.price /\ solve'.market = solve.market
        /\ solve'.low = solve.low /\ solve'.up = solve.up
        /\ solve'.lo = l /\ solve'.hi = h /\ solve'.n = n + 1
    BY <1>1, <2>3 DEF SolveType
  <2>6. Diff(l)' = Diff(l) /\ Diff(h)' = Diff(h)
    <3>1. l \in Vol /\ h \in Vol
      BY GridAssumption DEF Vol
    <3> QED
      BY <2>5, <3>1, SameQuote
  <2>7. Enclosed'
    BY <2>1, <2>3, <2>5, <2>6 DEF Enclosed
  <2> QED
    BY <1>1, <2>4, <2>5, <2>7 DEF VolInv, AnswerExplainsPrice
<1> QED
  BY <1>7, <1>8

\* The volatility that is answered reprices the option, or its neighbours enclose the
\* market's price, or it is the end of the searched range, for any price that does not fall
\* with volatility, any seed and whatever steps Newton's method takes; and what is raised
\* has no answer.
THEOREM VolatilityIsExplained == ImpliedVolSpec => []AnswerExplainsPrice
<1>1. ImpliedVolInit => VolInv
  <2> SUFFICES ASSUME ImpliedVolInit PROVE VolInv
    OBVIOUS
  <2>1. solve \in SolveType
    BY GridAssumption DEF ImpliedVolInit, SolveType, Vol
  <2> QED
    BY <2>1 DEF ImpliedVolInit, VolInv, AnswerExplainsPrice
<1>2. VolInv /\ [ImpliedVolNext]_solve => VolInv'
  <2> SUFFICES ASSUME VolInv, [ImpliedVolNext]_solve PROVE VolInv'
    OBVIOUS
  <2>1. CASE UNCHANGED solve
    BY <2>1 DEF VolInv, Enclosed, AnswerExplainsPrice, Diff, Close
  <2> QED
    BY <2>1, QuoteStep, CheckStep, NewtonStep, GiveUpStep, BisectStep DEF ImpliedVolNext
<1>3. VolInv => AnswerExplainsPrice
  BY DEF VolInv
<1> QED
  BY <1>1, <1>2, <1>3, PTL DEF ImpliedVolSpec

-----------------------------------------------------------------------------
(***************************************************************************)
(* Which pairs trade (engine/models/cointegration.py and the strategy's    *)
(* session): the step-up procedure finds exactly the hypotheses that the   *)
(* definition rejects, and a position of none of them is refused.          *)
(***************************************************************************)
\* Of the hypotheses with p-values p: those at or below k/m of the level.
AtLevel(p, k) == {i \in DOMAIN p : p[i] * Cardinality(DOMAIN p) <= k * Alpha}
Enough(p) == {k \in 1 .. Cardinality(DOMAIN p) : Cardinality(AtLevel(p, k)) >= k}

\* A p-value is at the level of k if a larger one, or the same, is.
LEMMA LevelIsClosed ==
    ASSUME NEW a \in Int, NEW b \in Int, a <= b, NEW m \in Nat, NEW c \in Int, b * m <= c
    PROVE  a * m <= c
<1>1. m * a <= m * b
  BY Product
<1>2. m * a = a * m /\ m * b = b * m
  OBVIOUS
<1> QED
  BY <1>1, <1>2

\* k sorted p-values are at the level of k if the k-th is, and fewer if not.
LEMMA PassedAreEnough ==
    ASSUME NEW p, Keys(p), NEW m, m = Cardinality(DOMAIN p), NEW k \in 1 .. m
    PROVE  Sorted(p)[k] * m <= k * Alpha <=> Cardinality(AtLevel(p, k)) >= k
<1> DEFINE order == SortOrder(p)
           A == AtLevel(p, k)
           c == k * Alpha
<1>1. /\ m \in Nat
      /\ order \in [1 .. m -> DOMAIN p]
      /\ \A l \in 1 .. m : Rank(p, order[l]) = l
      /\ \A i \in DOMAIN p : Rank(p, i) \in 1 .. m /\ order[Rank(p, i)] = i
  BY SortOrderIs
<1>2. /\ \A l \in 1 .. m : Sorted(p)[l] = p[order[l]] /\ Sorted(p)[l] \in Int
      /\ \A l, n \in 1 .. m : l <= n => Sorted(p)[l] <= Sorted(p)[n]
  BY SortedIs
<1>3. c \in Int
  BY SelectionAssumption
<1>4. \A i \in DOMAIN p : i \in A <=> p[i] * m <= c
  BY DEF AtLevel
<1>5. A \in SUBSET DOMAIN p /\ IsFiniteSet(A) /\ Cardinality(A) \in Nat
  <2>1. A \in SUBSET DOMAIN p
    BY DEF AtLevel
  <2> HIDE DEF A
  <2>2. IsFiniteSet(A)
    BY <2>1, FS_Subset DEF Keys
  <2> QED
    BY <2>1, <2>2, FS_CardinalityType
<1> HIDE DEF order, A, c
<1>6. ASSUME Sorted(p)[k] * m <= c PROVE Cardinality(A) >= k
  <2> DEFINE f == [l \in 1 .. k |-> order[l]]
  <2>1. ASSUME NEW l \in 1 .. k PROVE order[l] \in A
    <3>1. PICK a \in Int, b \in Int : a = p[order[l]] /\ b = Sorted(p)[k] /\ a <= b
      BY <1>1, <1>2
    <3>2. a * m <= c
      BY <1>1, <1>3, <1>6, <3>1, LevelIsClosed
    <3> QED
      BY <1>1, <1>4, <3>1, <3>2
  <2>2. \A l, n \in 1 .. k : order[l] = order[n] => l = n
    BY <1>1
  <2>3. f \in Injection(1 .. k, A)
    BY <2>1, <2>2 DEF Injection, IsInjective
  <2>4. IsFiniteSet(1 .. k) /\ Cardinality(1 .. k) = k
    BY FS_Interval
  <2> HIDE DEF f
  <2> QED
    BY <1>5, <2>3, <2>4, FS_Injection
<1>7. ASSUME ~(Sorted(p)[k] * m <= c) PROVE Cardinality(A) < k
  <2> DEFINE f == [i \in A |-> Rank(p, i)]
  <2>1. ASSUME NEW i \in A PROVE Rank(p, i) \in 1 .. (k - 1)
    <3> SUFFICES ASSUME Rank(p, i) >= k PROVE FALSE
      BY <1>1, <1>5
    <3>1. PICK a \in Int, b \in Int : a = Sorted(p)[k] /\ b = p[i] /\ a <= b
      BY <1>1, <1>2, <1>5
    <3>2. b * m <= c
      BY <1>4, <1>5, <3>1
    <3>3. a * m <= c
      BY <1>1, <1>3, <3>1, <3>2, LevelIsClosed
    <3> QED
      BY <1>7, <3>1, <3>3
  <2>2. \A i, j \in A : Rank(p, i) = Rank(p, j) => i = j
    BY <1>1, <1>5
  <2>3. f \in Injection(A, 1 .. (k - 1))
    BY <2>1, <2>2 DEF Injection, IsInjective
  <2>4. IsFiniteSet(1 .. (k - 1)) /\ Cardinality(1 .. (k - 1)) = k - 1
    BY FS_Interval
  <2> HIDE DEF f
  <2>5. Cardinality(A) <= k - 1
    BY <2>3, <2>4, FS_Injection
  <2> QED
    BY <1>5, <2>5
<1>8. Cardinality(A) >= k => Sorted(p)[k] * m <= c
  <2> SUFFICES ASSUME Cardinality(A) >= k, ~(Sorted(p)[k] * m <= c) PROVE FALSE
    OBVIOUS
  <2>1. Cardinality(A) < k
    BY <1>7
  <2> QED
    BY <1>5, <2>1
<1> QED
  BY <1>6, <1>8 DEF A, c

\* The scan for the last sorted p-value below its threshold finds the discoveries.
LEMMA DiscoveriesAre ==
    ASSUME NEW p, Keys(p)
    PROVE  BenjaminiHochberg(p) = IF Enough(p) = {} THEN {} ELSE AtLevel(p, Max(Enough(p)))
<1>1. PICK m : m = Cardinality(DOMAIN p)
  OBVIOUS
<1>2. /\ m \in Nat
      /\ \A i \in DOMAIN p : Rank(p, i) \in 1 .. m /\ SortOrder(p)[Rank(p, i)] = i
  BY <1>1, SortOrderIs
<1>3. /\ \A l \in 1 .. m : Sorted(p)[l] = p[SortOrder(p)[l]] /\ Sorted(p)[l] \in Int
      /\ \A l, n \in 1 .. m : l <= n => Sorted(p)[l] <= Sorted(p)[n]
  BY <1>1, SortedIs
<1>4. {k \in 1 .. m : Sorted(p)[k] * m <= k * Alpha} = Enough(p)
  BY <1>1, PassedAreEnough DEF Enough
<1>5. BenjaminiHochberg(p) = IF Enough(p) = {} THEN {}
                             ELSE {i \in DOMAIN p : p[i] <= Sorted(p)[Max(Enough(p))]}
  BY <1>1, <1>4 DEF BenjaminiHochberg
<1>6. CASE Enough(p) = {}
  BY <1>5, <1>6
<1>7. CASE Enough(p) # {}
  <2>1. Enough(p) \in SUBSET (1 .. m)
    BY <1>1 DEF Enough
  <2>2. Max(Enough(p)) \in Enough(p) /\ \A l \in Enough(p) : l <= Max(Enough(p))
    BY <1>2, <1>7, <2>1, LastOf
  <2>3. PICK k \in 1 .. m : k = Max(Enough(p))
    BY <2>1, <2>2
  <2>4. PICK cut \in Int : cut = Sorted(p)[k] /\ cut * m <= k * Alpha
    BY <1>3, <1>4, <2>2, <2>3
  <2>5. PICK c \in Int : c = k * Alpha
    BY SelectionAssumption
  <2>6. ASSUME NEW i \in DOMAIN p PROVE p[i] <= cut <=> p[i] * m <= c
    <3>1. PICK a \in Int : a = p[i]
      BY DEF Keys
    <3>2. ASSUME a <= cut PROVE a * m <= c
      BY <1>2, <2>4, <2>5, <3>2, LevelIsClosed
    <3>3. ASSUME a > cut, a * m <= c PROVE FALSE
      <4>1. PICK l \in 1 .. m : l = Rank(p, i) /\ a = Sorted(p)[l]
        BY <1>2, <1>3, <3>1
      <4>2. l > k
        BY <1>3, <2>4, <3>3, <4>1
      <4>3. Alpha * k <= Alpha * l
        BY <4>2, Product, SelectionAssumption
      <4>4. PICK e \in Int : e = l * Alpha /\ c <= e
        BY <2>5, <4>3, SelectionAssumption
      <4>5. a * m \in Int
        BY <1>2
      <4>6. Sorted(p)[l] * m <= l * Alpha
        BY <3>3, <4>1, <4>4, <4>5
      <4>7. l \in Enough(p)
        BY <1>4, <4>6
      <4> QED
        BY <2>2, <2>3, <4>2, <4>7
    <3> QED
      BY <3>1, <3>2, <3>3
  <2>7. {i \in DOMAIN p : p[i] <= Sorted(p)[Max(Enough(p))]} = AtLevel(p, Max(Enough(p)))
    BY <1>1, <2>3, <2>4, <2>5, <2>6 DEF AtLevel
  <2> QED
    BY <1>5, <1>7, <2>7
<1> QED
  BY <1>6, <1>7

-----------------------------------------------------------------------------
Candidate == [p : Int, liquid : BOOLEAN, trainFit : BOOLEAN, oosRows : {19, 20}, oosFit : BOOLEAN]

\* The tested pairs have p-values that can be sorted.
LEMMA TestedAreKeys ==
    ASSUME candidates \in Seq(Candidate)
    PROVE  Keys([i \in Liquid(candidates) |-> candidates[i].p])
<1>1. PICK n \in Nat : DOMAIN candidates = 1 .. n /\ \A i \in 1 .. n : candidates[i] \in Candidate
  OBVIOUS
<1>2. Liquid(candidates) \in SUBSET (1 .. n)
  BY <1>1 DEF Liquid
<1>3. IsFiniteSet(1 .. n)
  BY <1>1, FS_Interval
<1>4. IsFiniteSet(Liquid(candidates))
  BY <1>2, <1>3, FS_Subset
<1>5. \A i \in Liquid(candidates) : i \in Int /\ candidates[i].p \in Int
  BY <1>1, <1>2 DEF Candidate
<1> QED
  BY <1>4, <1>5 DEF Keys

\* select_pairs keeps the false discovery rate for the number of pairs tested:
\* it trades the discoveries of the Benjamini-Hochberg procedure that pass the fits.
THEOREM PairsAreDiscoveries == SelectionSpec => []SelectedAreDiscoveries
<1> DEFINE Typed == candidates \in Seq(Candidate)
<1>1. SelectionInit => Typed
  BY DEF SelectionInit
<1>2. Typed /\ [NewCandidate]_candidates => Typed'
  <2> SUFFICES ASSUME Typed, NewCandidate PROVE Typed'
    OBVIOUS
  <2>1. PICK c \in Candidate : candidates' = Append(candidates, c)
    BY SelectionAssumption DEF NewCandidate, Candidate
  <2> QED
    BY <2>1
<1>3. Typed => SelectedAreDiscoveries
  <2> SUFFICES ASSUME Typed PROVE SelectedAreDiscoveries
    OBVIOUS
  <2> DEFINE p == [i \in Liquid(candidates) |-> candidates[i].p]
  <2>1. Keys(p)
    BY TestedAreKeys
  <2>2. DOMAIN p = Liquid(candidates) /\ \A i \in Liquid(candidates) : p[i] = candidates[i].p
    OBVIOUS
  <2>3. SelectPairs(candidates) = {i \in BenjaminiHochberg(p) :
          candidates[i].trainFit /\ candidates[i].oosRows >= 20 /\ candidates[i].oosFit}
    BY DEF SelectPairs
  <2> HIDE DEF p
  <2> DEFINE m == Cardinality(Liquid(candidates))
             below(k) == {i \in Liquid(candidates) : candidates[i].p * m <= k * Alpha}
             enough == {k \in 1 .. m : Cardinality(below(k)) >= k}
  <2>4. \A k : AtLevel(p, k) = below(k)
    BY <2>2 DEF AtLevel
  <2>5. Enough(p) = enough
    BY <2>2, <2>4 DEF Enough
  <2>6. BenjaminiHochberg(p) = IF enough = {} THEN {} ELSE below(Max(enough))
    <3> HIDE DEF enough, below
    <3> QED
      BY <2>1, <2>4, <2>5, DiscoveriesAre
  <2>7. SelectPairs(candidates)
          = {i \in (IF enough = {} THEN {} ELSE below(Max(enough))) :
               candidates[i].trainFit /\ candidates[i].oosFit /\ candidates[i].oosRows >= 20}
    <3> HIDE DEF enough, below
    <3> QED
      BY <2>3, <2>6
  <2> QED
    BY <2>7 DEF SelectedAreDiscoveries
<1> QED
  BY <1>1, <1>2, <1>3, PTL DEF SelectionSpec

-----------------------------------------------------------------------------
(***************************************************************************)
(* The tail of the losses (engine/risk/risk_metrics.py) and the size that  *)
(* follows from it: no larger size keeps within the limit.                 *)
(***************************************************************************)
\* Returns can be sorted.
LEMMA ReturnsAreKeys ==
    ASSUME NEW r \in Seq(Int)
    PROVE  /\ Keys(r) /\ Cardinality(DOMAIN r) = Len(r) /\ DOMAIN r = 1 .. Len(r)
           /\ Len(r) \in Nat /\ \A i \in DOMAIN r : r[i] \in Int
<1>1. PICK n \in Nat : n = Len(r) /\ DOMAIN r = 1 .. n /\ \A i \in 1 .. n : i \in Int /\ r[i] \in Int
  OBVIOUS
<1>2. IsFiniteSet(1 .. n) /\ Cardinality(1 .. n) = n
  BY FS_Interval
<1>3. Keys(r)
  BY <1>1, <1>2 DEF Keys
<1> QED
  BY <1>1, <1>2, <1>3

\* Where the quantile lies: between the order statistics around the place
\* TailNum (n - 1) / TailDen, of which the first i + 1 are in the tail.
LEMMA QuantileLies ==
    ASSUME NEW r \in Seq(Int), r # << >>, NEW n, n = Len(r)
    PROVE  \E i \in Nat, k \in 1 .. n, q \in Int :
              /\ i + 1 \in 1 .. n /\ Quantile(r) = <<q, TailDen>>
              /\ Sorted(r)[i + 1] * TailDen <= q /\ q <= Sorted(r)[k] * TailDen
              /\ (k - 2) * TailDen < TailNum * (n - 1)
              /\ TailNum * (n - 1) < (i + 1) * TailDen
<1>1. n \in Nat /\ n >= 1
  OBVIOUS
<1>2. TailNum \in Nat /\ TailDen \in Nat /\ TailDen > 0 /\ TailNum <= TailDen
  BY RiskAssumption
<1>3. /\ \A k \in 1 .. n : Sorted(r)[k] \in Int
      /\ \A k, l \in 1 .. n : k <= l => Sorted(r)[k] <= Sorted(r)[l]
  BY ReturnsAreKeys, SortedIs
<1>4. PICK at \in Int : at = TailNum * (n - 1)
  BY <1>1, <1>2
<1>5. at >= 0 /\ at <= (n - 1) * TailDen
  <2>1. (n - 1) * TailNum <= (n - 1) * TailDen
    BY <1>1, <1>2, Product
  <2>2. (n - 1) * 0 <= (n - 1) * TailNum
    BY <1>1, <1>2, Product
  <2> QED
    BY <1>1, <1>2, <1>4, <2>1, <2>2
<1>6. PICK i \in Int, rem \in Int :
         /\ i = at \div TailDen /\ rem = at % TailDen
         /\ at = TailDen * i + rem /\ 0 <= rem /\ rem < TailDen
  BY <1>2
<1>7. i >= 0
  <2> SUFFICES ASSUME i <= -1 PROVE FALSE
    OBVIOUS
  <2>1. TailDen * i <= TailDen * (-1)
    BY <1>2, Product
  <2> QED
    BY <1>2, <1>5, <1>6, <2>1
<1>8. i <= n - 1 /\ (rem # 0 => i < n - 1)
  <2> SUFFICES ASSUME i > n - 1 \/ (rem # 0 /\ i >= n - 1) PROVE FALSE
    BY <1>1
  <2>1. TailDen * (n - 1) <= TailDen * i
    BY <1>1, <1>2, Product
  <2>2. PICK x \in Int, y \in Int :
           x = TailDen * i /\ y = (n - 1) * TailDen /\ y = TailDen * (n - 1)
    BY <1>1, <1>2
  <2>3. at = x + rem /\ at <= y /\ y <= x
    BY <1>5, <1>6, <2>1, <2>2
  <2>4. rem = 0 /\ i > n - 1
    BY <1>1, <1>6, <2>3
  <2>5. TailDen * n <= TailDen * i
    BY <1>1, <1>2, <2>4, Product
  <2>6. TailDen * n = TailDen * (n - 1) + TailDen
    BY <1>1, <1>2
  <2> QED
    BY <1>1, <1>2, <2>2, <2>3, <2>4, <2>5, <2>6
<1>9. PICK k \in 1 .. n : k = IF rem = 0 THEN i + 1 ELSE i + 2
  BY <1>1, <1>7, <1>8
<1>10. PICK below \in Int, above \in Int :
          below = Sorted(r)[i + 1] /\ above = Sorted(r)[k] /\ below <= above
  BY <1>1, <1>3, <1>7, <1>8, <1>9
<1>11. PICK q \in Int : q = below * TailDen + rem * (above - below)
  BY <1>2
<1>12. Quantile(r) = <<q, TailDen>>
  BY <1>4, <1>6, <1>9, <1>10, <1>11 DEF Quantile
<1>13. below * TailDen <= q /\ q <= above * TailDen
  <2> DEFINE gap == above - below
  <2>1. gap \in Int /\ gap >= 0
    BY <1>10
  <2> HIDE DEF gap
  <2>2. gap * 0 <= gap * rem /\ gap * rem <= gap * TailDen
    BY <1>2, <1>6, <2>1, Product
  <2>3. rem * gap = gap * rem /\ gap * TailDen = above * TailDen - below * TailDen
    BY <1>2, <2>1 DEF gap
  <2>4. q = below * TailDen + rem * gap
    BY <1>11 DEF gap
  <2> QED
    BY <1>2, <2>1, <2>2, <2>3, <2>4
<1>14. TailDen * i = i * TailDen /\ (i + 1) * TailDen = i * TailDen + TailDen
       /\ (i - 1) * TailDen = i * TailDen - TailDen
  BY <1>2
<1>15. (k - 2) * TailDen < at
  <2>1. CASE rem = 0
    <3>1. k - 2 = i - 1
      BY <1>9, <2>1
    <3> QED
      BY <1>2, <1>6, <1>14, <2>1, <3>1
  <2>2. CASE rem # 0
    <3>1. k - 2 = i
      BY <1>9, <2>2
    <3> QED
      BY <1>2, <1>6, <1>14, <2>2, <3>1
  <2> QED
    BY <2>1, <2>2
<1>16. at < (i + 1) * TailDen
  BY <1>2, <1>6, <1>14
<1>17. i + 1 \in 1 .. n /\ i \in Nat
  BY <1>1, <1>7, <1>8
<1> QED
  BY <1>4, <1>10, <1>12, <1>13, <1>15, <1>16, <1>17

\* The returns below the k-th are fewer than k, and those up to it at least k.
LEMMA ReturnsBelow ==
    ASSUME NEW r \in Seq(Int), NEW n, n = Len(r), NEW k \in 1 .. n, NEW T \in SUBSET (1 .. n)
    PROVE  /\ IsFiniteSet(T) /\ Cardinality(T) \in Nat
           /\ (\A i \in T : r[i] < Sorted(r)[k]) => Cardinality(T) <= k - 1
           /\ (\A i \in 1 .. n : r[i] <= Sorted(r)[k] => i \in T) => Cardinality(T) >= k
<1> DEFINE order == SortOrder(r)
           rank(i) == Rank(r, i)
           sorted == Sorted(r)
<1>1. n \in Nat /\ Keys(r) /\ Cardinality(DOMAIN r) = n /\ DOMAIN r = 1 .. n
      /\ \A i \in 1 .. n : r[i] \in Int
  BY ReturnsAreKeys
<1>2. /\ order \in [1 .. n -> 1 .. n]
      /\ \A l \in 1 .. n : rank(order[l]) = l
      /\ \A i \in 1 .. n : rank(i) \in 1 .. n /\ order[rank(i)] = i
  BY <1>1, SortOrderIs
<1>3. /\ \A l \in 1 .. n : sorted[l] = r[order[l]] /\ sorted[l] \in Int
      /\ \A l, m \in 1 .. n : l <= m => sorted[l] <= sorted[m]
  BY <1>1, SortedIs
<1>1a. k \in Int /\ k >= 1 /\ \A l \in 1 .. k : l \in 1 .. n
  BY <1>1
<1>4. IsFiniteSet(T) /\ Cardinality(T) \in Nat
  <2>1. IsFiniteSet(1 .. n)
    BY <1>1, FS_Interval
  <2>2. IsFiniteSet(T)
    BY <2>1, FS_Subset
  <2> QED
    BY <2>2, FS_CardinalityType
<1> HIDE DEF order, rank, sorted
<1>5. ASSUME \A i \in T : r[i] < sorted[k] PROVE Cardinality(T) <= k - 1
  <2> DEFINE f == [i \in T |-> rank(i)]
  <2>1. \A i \in T : rank(i) \in 1 .. (k - 1)
    <3> SUFFICES ASSUME NEW i \in T, rank(i) >= k PROVE FALSE
      BY <1>2
    <3>1. PICK l \in 1 .. n : l = rank(i) /\ order[l] = i
      BY <1>2
    <3>2. sorted[k] \in Int /\ sorted[l] \in Int /\ sorted[k] <= sorted[l] /\ sorted[l] = r[i]
      BY <1>1, <1>3, <3>1
    <3>3. r[i] < sorted[k]
      BY <1>5
    <3> QED
      BY <3>2, <3>3
  <2>2. \A i, j \in T : rank(i) = rank(j) => i = j
    BY <1>2
  <2>3. f \in Injection(T, 1 .. (k - 1))
    BY <2>1, <2>2 DEF Injection, IsInjective
  <2>4. IsFiniteSet(1 .. (k - 1)) /\ Cardinality(1 .. (k - 1)) = k - 1
    BY ONLY <1>1a, FS_Interval
  <2> HIDE DEF f
  <2> QED
    BY <2>3, <2>4, FS_Injection
<1>6. ASSUME \A i \in 1 .. n : r[i] <= sorted[k] => i \in T PROVE Cardinality(T) >= k
  <2> DEFINE f == [l \in 1 .. k |-> order[l]]
  <2>1. ASSUME NEW l \in 1 .. k PROVE order[l] \in T
    <3>1. l \in 1 .. n /\ l <= k
      BY <1>1
    <3>2. sorted[l] <= sorted[k] /\ sorted[l] = r[order[l]] /\ order[l] \in 1 .. n
      BY <1>2, <1>3, <3>1
    <3> QED
      BY <1>6, <3>2
  <2>2. \A l, m \in 1 .. k : order[l] = order[m] => l = m
    <3> SUFFICES ASSUME NEW l \in 1 .. k, NEW m \in 1 .. k, order[l] = order[m] PROVE l = m
      OBVIOUS
    <3>1. rank(order[l]) = l /\ rank(order[m]) = m
      BY <1>1a, <1>2
    <3> QED
      BY <3>1
  <2>3. f \in Injection(1 .. k, T)
    BY <2>1, <2>2 DEF Injection, IsInjective
  <2>4. IsFiniteSet(1 .. k) /\ Cardinality(1 .. k) = k
    BY FS_Interval
  <2> HIDE DEF f
  <2> QED
    BY <1>4, <2>3, <2>4, FS_Injection
<1> QED
  BY <1>4, <1>5, <1>6 DEF sorted

TailOf(r, q) == {i \in DOMAIN r : r[i] * TailDen <= q}
LossOf(r, q) == -SumOf(r, TailOf(r, q))

\* What var_cvar answers, and the shares of returns that it means.
LEMMA TailIs ==
    ASSUME NEW r \in Seq(Int), r # << >>, NEW n, n = Len(r)
    PROVE  \E q, loss, days \in Int :
              /\ VarCvar(r) = [var |-> <<-q, TailDen>>, cvar |-> <<loss, days>>]
              /\ loss = LossOf(r, q) /\ days = Cardinality(TailOf(r, q)) /\ days > 0
              /\ IsFiniteSet(TailOf(r, q)) /\ SumOf(r, TailOf(r, q)) \in Int
              /\ (Cardinality({i \in DOMAIN r : r[i] * TailDen < q}) - 1) * TailDen < TailNum * (n - 1)
              /\ days * TailDen > TailNum * (n - 1)
              /\ loss * TailDen >= -q * days
<1>1. n \in Nat /\ Keys(r) /\ Cardinality(DOMAIN r) = n /\ DOMAIN r = 1 .. n
      /\ \A i \in 1 .. n : r[i] \in Int
  BY ReturnsAreKeys
<1>2. TailNum \in Nat /\ TailDen \in Nat /\ TailDen > 0
  BY RiskAssumption
<1>3. PICK i \in Nat, k \in 1 .. n, q \in Int :
         /\ i + 1 \in 1 .. n /\ Quantile(r) = <<q, TailDen>>
         /\ Sorted(r)[i + 1] * TailDen <= q /\ q <= Sorted(r)[k] * TailDen
         /\ (k - 2) * TailDen < TailNum * (n - 1)
         /\ TailNum * (n - 1) < (i + 1) * TailDen
  BY QuantileLies
<1>4. \A l \in 1 .. n : Sorted(r)[l] \in Int
  BY <1>1, SortedIs
<1> DEFINE worse == {j \in DOMAIN r : r[j] * TailDen < q}
           tail == TailOf(r, q)
<1>5. worse \in SUBSET (1 .. n) /\ tail \in SUBSET (1 .. n)
      /\ tail = {j \in DOMAIN r : r[j] * TailDen <= q}
  BY <1>1 DEF TailOf
<1>6. ASSUME NEW j \in worse PROVE r[j] < Sorted(r)[k]
  <2>1. PICK a \in Int, b \in Int : a = r[j] /\ b = Sorted(r)[k]
    BY <1>1, <1>4, <1>5
  <2> SUFFICES ASSUME b <= a PROVE FALSE
    BY <2>1
  <2>2. a * TailDen \in Int /\ b * TailDen \in Int /\ b * TailDen <= a * TailDen
    BY ONLY <1>2, ProductRight, a \in Int, b \in Int, b <= a
  <2>3. a * TailDen < q /\ q <= b * TailDen
    BY <1>3, <2>1
  <2> QED
    BY ONLY <2>2, <2>3, q \in Int
<1>7. ASSUME NEW j \in 1 .. n, r[j] <= Sorted(r)[i + 1] PROVE j \in tail
  <2>1. PICK a \in Int, b \in Int : a = r[j] /\ b = Sorted(r)[i + 1] /\ a <= b
    BY <1>1, <1>3, <1>4, <1>7
  <2>2. a * TailDen \in Int /\ b * TailDen \in Int /\ a * TailDen <= b * TailDen
    BY ONLY <1>2, <2>1, ProductRight, a \in Int, b \in Int
  <2>3. b * TailDen <= q
    BY <1>3, <2>1
  <2>4. a * TailDen <= q
    BY ONLY <2>2, <2>3, q \in Int
  <2> QED
    BY <1>1, <1>5, <2>1, <2>4
<1> HIDE DEF worse, tail
<1>8. Cardinality(worse) \in Nat /\ Cardinality(worse) <= k - 1
  BY <1>5, <1>6, ReturnsBelow
<1>9. IsFiniteSet(tail) /\ Cardinality(tail) \in Nat /\ Cardinality(tail) >= i + 1
  BY <1>3, <1>5, <1>7, ReturnsBelow
<1>10. PICK w \in Nat, days \in Nat : w = Cardinality(worse) /\ days = Cardinality(tail)
  BY <1>8, <1>9
<1>11. (w - 1) * TailDen < TailNum * (n - 1)
  <2>1. (w - 1) * TailDen \in Int /\ (k - 2) * TailDen \in Int
        /\ (w - 1) * TailDen <= (k - 2) * TailDen
    <3>1. w - 1 \in Int /\ k - 2 \in Int /\ w - 1 <= k - 2
      BY <1>8, <1>10
    <3> QED
      BY ONLY <1>2, <3>1, ProductRight
  <2>2. PICK t \in Int : t = TailNum * (n - 1) /\ (k - 2) * TailDen < t
    BY <1>1, <1>2, <1>3
  <2> QED
    BY ONLY <2>1, <2>2
<1>12. days * TailDen > TailNum * (n - 1)
  <2>1. (i + 1) * TailDen \in Int /\ days * TailDen \in Int
        /\ (i + 1) * TailDen <= days * TailDen
    <3>1. i + 1 \in Int /\ days \in Int /\ i + 1 <= days
      BY <1>9, <1>10
    <3> QED
      BY ONLY <1>2, <3>1, ProductRight
  <2>2. PICK t \in Int : t = TailNum * (n - 1) /\ t < (i + 1) * TailDen
    BY <1>1, <1>2, <1>3
  <2> QED
    BY ONLY <2>1, <2>2
<1>13. \A j \in tail : r[j] \in Int /\ r[j] * TailDen <= q
  BY <1>1, <1>5
<1>14. SumOf(r, tail) \in Int
  BY <1>9, <1>13, SumType
<1>15. PICK loss \in Int : loss = -SumOf(r, tail)
  BY <1>14
<1>16. MapThenSumSet(LAMBDA j : r[j], tail) = -loss
  <2>1. MapThenSumSet(LAMBDA j : r[j], tail) = SumOf(r, tail)
    BY <1>9, FunctionSum
  <2> QED
    BY <1>14, <1>15, <2>1
<1>17. loss * TailDen >= -q * days
  <2> DEFINE H == [j \in tail |-> TailDen * r[j]]
  <2>1. \A j \in tail : H[j] \in Int /\ H[j] = TailDen * r[j] /\ H[j] <= q
    BY <1>2, <1>13
  <2> HIDE DEF H
  <2>2. SumOf(H, tail) = TailDen * SumOf(r, tail)
    <3>1. \A j \in tail : r[j] \in Int /\ H[j] = TailDen * r[j]
      BY <1>13, <2>1
    <3> QED
      BY ONLY <1>2, <1>9, <3>1, SumTimes, TailDen \in Int
  <2>3. SumOf(H, tail) <= q * Cardinality(tail)
    BY <1>9, <2>1, SumBound
  <2>4. PICK t \in Int : t = SumOf(r, tail)
    BY <1>14
  <2>5. TailDen * t <= q * days
    BY <1>10, <2>2, <2>3, <2>4
  <2>6. loss * TailDen = -(TailDen * t) /\ -q * days = -(q * days)
    BY <1>2, <1>15, <2>4
  <2> QED
    BY <1>2, <2>5, <2>6
<1>18. VarCvar(r) = [var |-> <<-q, TailDen>>, cvar |-> <<loss, days>>]
  <2>1. Quantile(r)[1] = q /\ Quantile(r)[2] = TailDen
    BY <1>3
  <2>2. tail = {j \in DOMAIN r : r[j] * Quantile(r)[2] <= Quantile(r)[1]}
    BY <1>5, <2>1
  <2>3. VarCvar(r) = [var |-> <<-Quantile(r)[1], Quantile(r)[2]>>,
                      cvar |-> <<-MapThenSumSet(LAMBDA j : r[j], tail), Cardinality(tail)>>]
    BY <2>2 DEF VarCvar
  <2>4. -MapThenSumSet(LAMBDA j : r[j], tail) = loss
    BY <1>16
  <2> QED
    BY <1>10, <2>1, <2>3, <2>4
<1>19. /\ loss = LossOf(r, q) /\ days = Cardinality(TailOf(r, q)) /\ days > 0
       /\ IsFiniteSet(TailOf(r, q)) /\ SumOf(r, TailOf(r, q)) \in Int
  BY <1>9, <1>10, <1>14, <1>15 DEF LossOf, tail
<1>20. (Cardinality({j \in DOMAIN r : r[j] * TailDen < q}) - 1) * TailDen < TailNum * (n - 1)
  BY <1>10, <1>11 DEF worse
<1> WITNESS q \in Int, loss \in Int, days \in Int
<1> QED
  BY <1>12, <1>17, <1>18, <1>19, <1>20

-----------------------------------------------------------------------------
\* The last size and the last weight are those of the last inputs.
SizeInv ==
    /\ sized.returns \in Seq(Int)
    /\ sized.returns # << >> =>
          /\ sized.budget \in Int /\ sized.measure \in {"cvar", "var"}
          /\ sized.res = VarCvar(sized.returns)
          /\ sized.size = CvarPositionSize(sized.budget, sized.res[sized.measure])

ScaleInv ==
    /\ scaled.mean \in Int /\ scaled.variance \in Int
    /\ scaled.kelly = FractionalKelly(scaled.mean, scaled.variance)
    /\ scaled.scale = TargetVolScale(scaled.variance, scaled.mean)

\* SizeByTailRisk
LEMMA SizeStep == SizeInv /\ SizeByTailRisk => SizeInv'
<1> SUFFICES ASSUME SizeInv, SizeByTailRisk PROVE SizeInv'
  OBVIOUS
<1>1a. PICK x \in Int, budget \in Int, measure \in {"cvar", "var"} :
         LET r == Append(sized.returns, x)
             res == VarCvar(r)
         IN sized' = [returns |-> r, budget |-> budget, measure |-> measure, res |-> res,
                      size |-> CvarPositionSize(budget, res[measure])]
  BY RiskAssumption DEF SizeByTailRisk
<1>1. PICK r, res :
         /\ r = Append(sized.returns, x) /\ res = VarCvar(r)
         /\ sized' = [returns |-> r, budget |-> budget, measure |-> measure, res |-> res,
                      size |-> CvarPositionSize(budget, res[measure])]
  BY <1>1a
<1>2. r \in Seq(Int)
  BY <1>1 DEF SizeInv
<1>3. /\ sized'.returns = r /\ sized'.budget = budget /\ sized'.measure = measure /\ sized'.res = res
      /\ sized'.size = CvarPositionSize(budget, res[measure])
  BY <1>1
<1>4. res = VarCvar(r)
  BY <1>1
<1>5. VarCvar(sized.returns)' = VarCvar(r)
  BY <1>3
<1>6. CvarPositionSize(sized.budget, sized.res[sized.measure])' = CvarPositionSize(budget, res[measure])
  BY <1>3
<1> QED
  BY <1>2, <1>3, <1>4, <1>5, <1>6 DEF SizeInv

\* SizeByMoments
LEMMA ScaleStep == ScaleInv /\ SizeByMoments => ScaleInv'
<1> SUFFICES ASSUME ScaleInv, SizeByMoments PROVE ScaleInv'
  OBVIOUS
<1>1. PICK mean \in Int, variance \in Int :
         scaled' = [mean |-> mean, variance |-> variance,
                    kelly |-> FractionalKelly(mean, variance),
                    scale |-> TargetVolScale(variance, mean)]
  BY RiskAssumption DEF SizeByMoments
<1>2. /\ scaled'.mean = mean /\ scaled'.variance = variance
      /\ scaled'.kelly = FractionalKelly(mean, variance)
      /\ scaled'.scale = TargetVolScale(variance, mean)
  BY <1>1
<1>3. FractionalKelly(scaled.mean, scaled.variance)' = FractionalKelly(mean, variance)
      /\ TargetVolScale(scaled.variance, scaled.mean)' = TargetVolScale(variance, mean)
  BY <1>2
<1> QED
  BY <1>2, <1>3 DEF ScaleInv

\* A position of the size by shortfall loses its budget in the tail.
LEMMA SizeLoses ==
    ASSUME NEW budget \in Int, NEW loss \in Int, NEW days \in Int, NEW size,
           size = CvarPositionSize(budget, <<loss, days>>)
    PROVE  IF loss > 0 THEN size[1] * loss = budget * days * size[2] ELSE size[1] = 0
<1>1. CASE loss > 0
  <2>1. size = <<budget * days, loss>>
    BY <1>1 DEF CvarPositionSize
  <2>2. size[1] = budget * days /\ size[2] = loss
    BY <2>1
  <2> QED
    BY <1>1, <2>2
<1>2. CASE ~(loss > 0)
  BY <1>2 DEF CvarPositionSize
<1> QED
  BY <1>1, <1>2

\* By the value at risk v / den it may lose more.
LEMMA VarLoses ==
    ASSUME NEW budget \in Int, NEW v \in Int, NEW den \in Int, den > 0, NEW size,
           size = CvarPositionSize(budget, <<v, den>>), size[1] > 0,
           NEW loss \in Int, NEW days \in Int, loss * den >= v * days
    PROVE  size[1] * loss >= budget * days * size[2]
<1>1. v > 0
  <2> SUFFICES ASSUME ~(v > 0) PROVE FALSE
    OBVIOUS
  <2>1. size = <<0, 1>>
    BY DEF CvarPositionSize
  <2> QED
    BY <2>1
<1>2. size[1] = budget * den /\ size[2] = v
  BY <1>1 DEF CvarPositionSize
<1>3. budget >= 0
  <2> SUFFICES ASSUME budget <= 0 PROVE budget >= 0
    OBVIOUS
  <2>1. den * budget <= den * 0
    BY Product
  <2> QED
    BY <1>2, <2>1
<1>4. PICK x \in Int, y \in Int : x = v * days /\ y = loss * den /\ x <= y
  OBVIOUS
<1>5. budget * x <= budget * y
  BY <1>3, <1>4, Product
<1>6. budget * x = budget * days * v /\ budget * y = (budget * den) * loss
  BY <1>4
<1> QED
  BY <1>2, <1>5, <1>6

\* Kelly's weight is on the side of the mean and within the cap.
LEMMA KellyIs ==
    ASSUME NEW mean \in Int, NEW variance \in Int, NEW kelly, kelly = FractionalKelly(mean, variance)
    PROVE  /\ kelly \in -KellyCap .. KellyCap /\ kelly * mean >= 0
           /\ variance <= 0 => kelly = 0
<1>0. KellyNum \in Nat /\ KellyCap \in Nat
  BY RiskAssumption
<1>1. CASE variance <= 0
  BY <1>0, <1>1 DEF FractionalKelly
<1>2. CASE variance > 0
  <2>1. PICK size \in Int : size = mean
    OBVIOUS
  <2> DEFINE abs == IF mean < 0 THEN -mean ELSE mean
             amount == KellyNum * abs
             of == amount \div variance
             bound == IF of > KellyCap THEN KellyCap ELSE of
  <2>2. abs \in Nat
    OBVIOUS
  <2>3. amount \in Int /\ amount >= 0
    <3> HIDE DEF abs
    <3>1. KellyNum * 0 <= KellyNum * abs
      BY <1>0, <2>2, Product
    <3> QED
      BY <1>0, <2>2, <3>1
  <2>4. of \in Int /\ of >= 0
    <3> HIDE DEF amount
    <3>1. of \in Int /\ amount < variance * of + variance
      BY <1>2, <2>3, Quotient
    <3> HIDE DEF of
    <3> SUFFICES ASSUME of <= -1 PROVE FALSE
      BY <3>1
    <3>2. variance * of <= variance * (-1)
      BY <1>2, <3>1, Product
    <3> QED
      BY <1>2, <2>3, <3>1, <3>2
  <2>5. bound \in 0 .. KellyCap
    <3> HIDE DEF of
    <3> QED
      BY <1>0, <2>4
  <2>6. kelly = IF mean < 0 THEN -bound ELSE bound
    BY <1>2 DEF FractionalKelly
  <2> HIDE DEF bound
  <2>7. CASE mean < 0
    <3>1. bound * 0 <= bound * (-mean)
      BY <2>5, <2>7, Product, <1>0
    <3>2. kelly * mean = bound * (-mean)
      BY <1>0, <2>5, <2>6, <2>7
    <3> QED
      BY <1>0, <1>2, <2>5, <2>6, <2>7, <3>1, <3>2
  <2>8. CASE mean >= 0
    <3>1. bound * 0 <= bound * mean
      BY <2>5, <2>8, Product, <1>0
    <3> QED
      BY <1>0, <1>2, <2>5, <2>6, <2>8, <3>1
  <2> QED
    BY <2>7, <2>8
<1> QED
  BY <1>1, <1>2

\* The volatility target is met or capped.
LEMMA ScaleIs ==
    ASSUME NEW target \in Int, NEW realized \in Int, NEW scale, scale = TargetVolScale(realized, target)
    PROVE  /\ realized <= 0 => scale[1] = 0
           /\ realized > 0 => /\ scale[1] * realized <= target * scale[2]
                              /\ scale[1] <= MaxLeverage * scale[2]
<1>0. MaxLeverage \in Nat
  BY RiskAssumption
<1>1. CASE realized <= 0
  BY <1>1 DEF TargetVolScale
<1>2. CASE realized > 0 /\ target > MaxLeverage * realized
  <2>1. scale[1] = MaxLeverage /\ scale[2] = 1
    BY <1>2 DEF TargetVolScale
  <2> QED
    BY <1>0, <1>2, <2>1
<1>3. CASE realized > 0 /\ ~(target > MaxLeverage * realized)
  <2>1. scale[1] = target /\ scale[2] = realized
    BY <1>3 DEF TargetVolScale
  <2> QED
    BY <1>0, <1>3, <2>1
<1> QED
  BY <1>1, <1>2, <1>3

\* The size by tail risk loses what it may.
LEMMA SizeMeans ==
    ASSUME SizeInv, sized.returns # << >>
    PROVE  LET r == sized.returns
               v == sized.res.var
               worse == {i \in DOMAIN r : -r[i] * v[2] > v[1]}
               tail == {i \in DOMAIN r : -r[i] * v[2] >= v[1]}
               loss == -MapThenSumSet(LAMBDA i : r[i], tail)
               days == Cardinality(tail)
           IN /\ (Cardinality(worse) - 1) * TailDen < TailNum * (Len(r) - 1)
              /\ days * TailDen > TailNum * (Len(r) - 1)
              /\ loss * v[2] >= v[1] * days
              /\ sized.measure = "cvar" =>
                    IF loss > 0 THEN sized.size[1] * loss = sized.budget * days * sized.size[2]
                    ELSE sized.size[1] = 0
              /\ (sized.measure = "var" /\ sized.size[1] > 0) =>
                    sized.size[1] * loss >= sized.budget * days * sized.size[2]
<1>1. PICK r \in Seq(Int) : r = sized.returns /\ r # << >>
  BY DEF SizeInv
<1>2a. PICK budget \in Int, measure \in {"cvar", "var"} :
          /\ budget = sized.budget /\ measure = sized.measure
          /\ sized.res = VarCvar(r) /\ sized.size = CvarPositionSize(budget, sized.res[measure])
  BY <1>1 DEF SizeInv
<1>2b. PICK size : size = sized.size
  OBVIOUS
<1>2. /\ budget = sized.budget /\ measure = sized.measure /\ size = sized.size
      /\ sized.res = VarCvar(r) /\ size = CvarPositionSize(budget, sized.res[measure])
  BY <1>2a, <1>2b
<1>3. PICK n \in Nat : n = Len(r) /\ DOMAIN r = 1 .. n /\ \A i \in 1 .. n : r[i] \in Int
  BY ReturnsAreKeys
<1>4. PICK q \in Int, loss \in Int, days \in Int :
         /\ VarCvar(r) = [var |-> <<-q, TailDen>>, cvar |-> <<loss, days>>]
         /\ loss = LossOf(r, q) /\ days = Cardinality(TailOf(r, q)) /\ days > 0
         /\ IsFiniteSet(TailOf(r, q)) /\ SumOf(r, TailOf(r, q)) \in Int
         /\ (Cardinality({j \in DOMAIN r : r[j] * TailDen < q}) - 1) * TailDen < TailNum * (n - 1)
         /\ days * TailDen > TailNum * (n - 1)
         /\ loss * TailDen >= -q * days
  BY <1>1, <1>3, TailIs
<1>5. TailDen \in Int /\ TailDen > 0
  BY RiskAssumption
<1>6a. PICK m \in Int : m = -q
  OBVIOUS
<1>6b. sized.res.var = <<m, TailDen>>
  BY <1>2, <1>4, <1>6a
<1>6c. PICK v : v = sized.res.var
  OBVIOUS
<1>6. m = -q /\ v = sized.res.var /\ v = <<m, TailDen>> /\ v[1] = m /\ v[2] = TailDen
  BY <1>6a, <1>6b, <1>6c
<1> DEFINE worse == {i \in DOMAIN r : -r[i] * v[2] > v[1]}
           tail == {i \in DOMAIN r : -r[i] * v[2] >= v[1]}
<1>7. ASSUME NEW i \in DOMAIN r
      PROVE  /\ (-r[i] * v[2] > v[1]) <=> r[i] * TailDen < q
             /\ (-r[i] * v[2] >= v[1]) <=> r[i] * TailDen <= q
  <2>1. PICK a \in Int : a = r[i]
    BY <1>3
  <2>2. PICK x \in Int : x = a * TailDen /\ -a * TailDen = -x
    BY <1>5
  <2> QED
    BY <1>6, <2>1, <2>2
<1>8. worse = {j \in DOMAIN r : r[j] * TailDen < q}
  BY <1>7
<1>9. tail = TailOf(r, q)
  BY <1>7 DEF TailOf
<1> HIDE DEF worse, tail
<1>10. -MapThenSumSet(LAMBDA i : r[i], tail) = loss
  <2>1. MapThenSumSet(LAMBDA i : r[i], tail) = SumOf(r, tail)
    BY <1>4, <1>9, FunctionSum
  <2> QED
    BY <1>4, <1>9, <2>1 DEF LossOf
<1>11. Cardinality(tail) = days /\ (Cardinality(worse) - 1) * TailDen < TailNum * (n - 1)
  BY <1>4, <1>8, <1>9
<1>12. measure = "cvar" =>
          IF loss > 0 THEN size[1] * loss = budget * days * size[2] ELSE size[1] = 0
  <2> SUFFICES ASSUME measure = "cvar"
               PROVE  IF loss > 0 THEN size[1] * loss = budget * days * size[2] ELSE size[1] = 0
    OBVIOUS
  <2>1. sized.res[measure] = <<loss, days>>
    BY <1>2, <1>4
  <2>2. size = CvarPositionSize(budget, <<loss, days>>)
    BY <1>2, <2>1
  <2> QED
    BY ONLY <2>2, SizeLoses, budget \in Int, loss \in Int, days \in Int
<1>13. (measure = "var" /\ size[1] > 0) => size[1] * loss >= budget * days * size[2]
  <2> SUFFICES ASSUME measure = "var", size[1] > 0 PROVE size[1] * loss >= budget * days * size[2]
    OBVIOUS
  <2>1. sized.res[measure] = <<-q, TailDen>>
    BY <1>2, <1>4
  <2>2. size = CvarPositionSize(budget, <<m, TailDen>>)
    BY <1>2, <1>6, <2>1
  <2>3. loss * TailDen >= m * days
    BY <1>4, <1>6
  <2> QED
    BY ONLY <1>5, <2>2, <2>3, size[1] > 0, VarLoses,
            budget \in Int, loss \in Int, days \in Int, m \in Int
<1>14. loss * v[2] >= v[1] * days
  BY <1>4, <1>6
<1> QED
  BY <1>1, <1>2, <1>3, <1>4, <1>6, <1>10, <1>11, <1>12, <1>13, <1>14 DEF worse, tail

\* Tail measures bracket the share of returns they stand for, and the sizes
\* that follow from them, from Kelly and from the target keep their limits.
THEOREM SizesKeepTheirRisk == TailRiskSpec => []SizesRespectRisk
<1> DEFINE Inv == SizeInv /\ ScaleInv
<1>1. TailRiskInit => Inv
  BY DEF TailRiskInit, SizeInv, ScaleInv, FractionalKelly, TargetVolScale
<1>2. Inv /\ [TailRiskNext]_riskVars => Inv'
  <2> SUFFICES ASSUME Inv, [TailRiskNext]_riskVars PROVE Inv'
    OBVIOUS
  <2>1. CASE SizeByTailRisk
    <3>1. ScaleInv'
      BY <2>1 DEF SizeByTailRisk, ScaleInv, FractionalKelly, TargetVolScale
    <3> QED
      BY <2>1, <3>1, SizeStep
  <2>2. CASE SizeByMoments
    <3>1. UNCHANGED sized
      BY <2>2 DEF SizeByMoments
    <3>2. SizeInv'
      BY <3>1 DEF SizeInv
    <3> QED
      BY <2>2, <3>2, ScaleStep
  <2>3. CASE UNCHANGED riskVars
    BY <2>3 DEF riskVars, SizeInv, ScaleInv, FractionalKelly, TargetVolScale
  <2> QED
    BY <2>1, <2>2, <2>3 DEF TailRiskNext
<1>3. Inv => SizesRespectRisk
  <2> SUFFICES ASSUME Inv PROVE SizesRespectRisk
    OBVIOUS
  <2>1a. PICK mean \in Int, variance \in Int :
            /\ mean = scaled.mean /\ variance = scaled.variance
            /\ scaled.kelly = FractionalKelly(mean, variance)
            /\ scaled.scale = TargetVolScale(variance, mean)
    BY DEF ScaleInv
  <2>1b. PICK kelly, scale : kelly = scaled.kelly /\ scale = scaled.scale
    OBVIOUS
  <2>1. /\ mean = scaled.mean /\ variance = scaled.variance
        /\ kelly = scaled.kelly /\ scale = scaled.scale
        /\ kelly = FractionalKelly(mean, variance) /\ scale = TargetVolScale(variance, mean)
    BY <2>1a, <2>1b
  <2>2. /\ kelly \in -KellyCap .. KellyCap /\ kelly * mean >= 0
        /\ variance <= 0 => kelly = 0
    BY <2>1, KellyIs
  <2>3. /\ variance <= 0 => scale[1] = 0
        /\ variance > 0 => /\ scale[1] * variance <= mean * scale[2]
                           /\ scale[1] <= MaxLeverage * scale[2]
    BY <2>1, ScaleIs
  <2> QED
    BY <2>1, <2>2, <2>3, SizeMeans DEF SizesRespectRisk
<1> QED
  BY <1>1, <1>2, <1>3, PTL DEF TailRiskSpec

-----------------------------------------------------------------------------
(***************************************************************************)
(* Membership of the index: what the intervals of a file cover, and what a *)
(* query returns once jobs have added the rows of several files.           *)
(***************************************************************************)
Event == [action : {"add", "drop", "unreadable"}, date : Date]
Change == [action : {"add", "drop"}, date : Date]
RowType == [from : Int, to : Int]

\* The rows that cover a date.
Cover(s, d) == {i \in DOMAIN s : Covers(s[i], d)}

\* They are finitely many, and none of no rows.
LEMMA CoverIs ==
    ASSUME NEW s \in Seq(RowType), NEW d
    PROVE  IsFiniteSet(Cover(s, d)) /\ Cardinality(Cover(s, d)) \in Nat
           /\ Cover(s, d) \in SUBSET (1 .. Len(s))
<1>1. PICK n \in Nat : n = Len(s) /\ DOMAIN s = 1 .. n
  OBVIOUS
<1>2. Cover(s, d) \in SUBSET (1 .. n)
  BY <1>1 DEF Cover
<1>3. IsFiniteSet(1 .. n)
  BY FS_Interval
<1>4. IsFiniteSet(Cover(s, d))
  BY <1>2, <1>3, FS_Subset
<1> QED
  BY <1>1, <1>2, <1>4, FS_CardinalityType

\* Rows after rows add up.
LEMMA CoverOfBoth ==
    ASSUME NEW s \in Seq(RowType), NEW t \in Seq(RowType), NEW d
    PROVE  Cardinality(Cover(s \o t, d)) = Cardinality(Cover(s, d)) + Cardinality(Cover(t, d))
<1>0. PICK n, m, u : n = Len(s) /\ m = Len(t) /\ u = s \o t
  OBVIOUS
<1>1. /\ n \in Nat /\ m \in Nat /\ u \in Seq(RowType) /\ u = s \o t
      /\ DOMAIN s = 1 .. n /\ DOMAIN t = 1 .. m /\ DOMAIN u = 1 .. (n + m)
      /\ \A i \in 1 .. n : u[i] = s[i]
      /\ \A i \in 1 .. m : u[n + i] = t[i]
  BY <1>0, Joined
<1> DEFINE A == Cover(s, d)
           B == Cover(t, d)
           C == {n + i : i \in B}
           f == [i \in B |-> n + i]
<1>2. IsFiniteSet(A) /\ IsFiniteSet(B) /\ A \in SUBSET (1 .. n) /\ B \in SUBSET (1 .. m)
      /\ Cardinality(A) \in Nat /\ Cardinality(B) \in Nat
  BY <1>0, CoverIs
<1>3. Cover(u, d) = A \cup C
  <2>1. ASSUME NEW i \in Cover(u, d) PROVE i \in A \cup C
    <3>1. i \in 1 .. (n + m) /\ Covers(u[i], d)
      BY <1>1 DEF Cover
    <3>2. CASE i <= n
      <4>1. i \in 1 .. n /\ u[i] = s[i]
        BY <1>1, <3>1, <3>2
      <4> QED
        BY <1>1, <3>1, <4>1 DEF Cover
    <3>3. CASE i > n
      <4>1. i - n \in 1 .. m /\ i = n + (i - n)
        BY <1>1, <3>1, <3>3
      <4>2. i - n \in B
        BY <1>1, <3>1, <4>1 DEF Cover
      <4> QED
        BY <4>1, <4>2
    <3>4. i <= n \/ i > n
      BY <1>1, <3>1
    <3> QED
      BY <3>2, <3>3, <3>4
  <2>2. ASSUME NEW i \in A PROVE i \in Cover(u, d)
    BY <1>1 DEF Cover
  <2>3. ASSUME NEW k \in B PROVE n + k \in Cover(u, d)
    BY <1>1 DEF Cover
  <2> HIDE DEF A, B
  <2> QED
    BY <2>1, <2>2, <2>3
<1> HIDE DEF A, B
<1>4. f \in Bijection(B, C)
  <2>1. \A i, j \in B : n + i = n + j => i = j
    BY <1>1, <1>2
  <2> QED
    BY <2>1 DEF Bijection, Injection, Surjection, IsInjective
<1>5. IsFiniteSet(C) /\ Cardinality(C) = Cardinality(B)
  <2>1. ExistsBijection(B, C)
    <3> HIDE DEF f, C
    <3> QED
      BY <1>4 DEF ExistsBijection
  <2> HIDE DEF C
  <2> QED
    BY <1>2, <2>1, FS_Bijection
<1>6. A \cap C = {}
  BY <1>1, <1>2
<1>7. Cardinality(A \cup C) = Cardinality(A) + Cardinality(B)
  <2> HIDE DEF C
  <2>1. Cardinality(A \cup C) = Cardinality(A) + Cardinality(C) - Cardinality(A \cap C)
    BY <1>2, <1>5, FS_Union
  <2>2. Cardinality(A \cap C) = 0
    BY <1>6, FS_EmptySet
  <2> QED
    BY <1>2, <1>5, <2>1, <2>2
<1> QED
  BY <1>1, <1>3, <1>7 DEF A, B

\* One row more.
LEMMA CoverOfMore ==
    ASSUME NEW s \in Seq(RowType), NEW row \in RowType, NEW d
    PROVE  Cardinality(Cover(Append(s, row), d))
             = IF Covers(row, d) THEN Cardinality(Cover(s, d)) + 1 ELSE Cardinality(Cover(s, d))
<1>1. PICK n \in Nat, u \in Seq(RowType) :
         /\ n = Len(s) /\ u = Append(s, row) /\ DOMAIN s = 1 .. n /\ DOMAIN u = 1 .. (n + 1)
         /\ (\A i \in 1 .. n : u[i] = s[i]) /\ u[n + 1] = row
  <2>1. PICK n, u : n = Len(s) /\ u = Append(s, row)
    OBVIOUS
  <2> QED
    BY <2>1, Appended
<1>2. IsFiniteSet(Cover(s, d)) /\ Cover(s, d) \in SUBSET (1 .. n)
  BY <1>1, CoverIs
<1>3. CASE Covers(row, d)
  <2>1. Cover(u, d) = Cover(s, d) \cup {n + 1}
    BY <1>1, <1>3 DEF Cover
  <2>2. n + 1 \notin Cover(s, d)
    BY <1>2
  <2> QED
    BY <1>1, <1>2, <1>3, <2>1, <2>2, FS_AddElement
<1>4. CASE ~Covers(row, d)
  <2>1. Cover(u, d) = Cover(s, d)
    BY <1>1, <1>4 DEF Cover
  <2> QED
    BY <1>1, <1>4, <2>1
<1> QED
  BY <1>3, <1>4

-----------------------------------------------------------------------------
\* What the loop over the events carries.
ConsumeAcc == [from : Int, out : Seq(RowType)]
NoneOpen == [from |-> 0, out |-> << >>]

\* What one event does.
LEMMA ConsumeIs ==
    ASSUME NEW acc \in ConsumeAcc, NEW e \in Change, NEW next, next = Consume(acc, e)
    PROVE  /\ next \in ConsumeAcc
           /\ e.action = "add" =>
                 next.out = acc.out /\ next.from = (IF acc.from = 0 THEN e.date ELSE acc.from)
           /\ e.action = "drop" /\ acc.from = 0 => next = acc
           /\ e.action = "drop" /\ acc.from # 0 =>
                 /\ Interval(acc.from, e.date) \in RowType
                 /\ next.out = Append(acc.out, Interval(acc.from, e.date)) /\ next.from = 0
<1>1. e.date \in Int /\ e.action \in {"add", "drop"} /\ acc.from \in Int /\ acc.out \in Seq(RowType)
  BY UniverseAssumption DEF Change, Date, ConsumeAcc
<1>2. CASE e.action = "add"
  <2>1. PICK from \in Int : from = IF acc.from = 0 THEN e.date ELSE acc.from
    BY <1>1
  <2>2. next = [acc EXCEPT !.from = from]
    BY <1>2, <2>1 DEF Consume
  <2>3. next \in ConsumeAcc /\ next.out = acc.out /\ next.from = from
    BY <2>2 DEF ConsumeAcc
  <2> QED
    BY <1>2, <2>1, <2>3
<1>3. CASE e.action = "drop" /\ acc.from # 0
  <2>1. PICK row \in RowType : row = Interval(acc.from, e.date)
    BY <1>1 DEF RowType, Interval
  <2>2. PICK out : out = Append(acc.out, row)
    OBVIOUS
  <2>2a. out \in Seq(RowType)
    BY <1>1, <2>2, Appended
  <2>3. next = [from |-> 0, out |-> out]
    BY <1>3, <2>1, <2>2 DEF Consume
  <2> QED
    BY <1>3, <2>1, <2>2, <2>2a, <2>3 DEF ConsumeAcc
<1>4. CASE e.action = "drop" /\ acc.from = 0
  BY <1>4 DEF Consume
<1> QED
  BY <1>1, <1>2, <1>3, <1>4

\* The fold takes the events one by one.
LEMMA ConsumeFold ==
    ASSUME NEW s \in Seq(Change)
    PROVE  \E acc : /\ acc[0] = NoneOpen
                    /\ \A k \in 1 .. Len(s) : acc[k] = Consume(acc[k - 1], s[k])
                    /\ FoldLeft(Consume, NoneOpen, s) = acc[Len(s)]
<1> DEFINE n == Len(s)
           Is(it) == it = [T \in SUBSET DOMAIN s |->
                             IF T = {} THEN NoneOpen ELSE Consume(it[T \ {Max(T)}], s[Max(T)])]
           G == [q \in ConsumeAcc \X (1 .. n) |-> Consume(q[1], s[q[2]])]
           jt == CHOOSE it : Is(it)
           acc == [k \in 0 .. n |-> jt[1 .. k]]
<1>1. n \in Nat /\ DOMAIN s = 1 .. n /\ \A i \in 1 .. n : s[i] \in Change
  OBVIOUS
<1>2. NoneOpen \in ConsumeAcc
  BY DEF NoneOpen, ConsumeAcc
<1>3. G \in [ConsumeAcc \X (1 .. n) -> ConsumeAcc]
  <2> SUFFICES ASSUME NEW a \in ConsumeAcc, NEW k \in 1 .. n PROVE Consume(a, s[k]) \in ConsumeAcc
    OBVIOUS
  <2> QED
    BY <1>1, ConsumeIs
<1>4. PICK it \in [SUBSET (1 .. n) -> ConsumeAcc] : IsFold(it, G, NoneOpen, n)
  <2> HIDE DEF G, n
  <2> QED
    BY <1>1, <1>2, <1>3, FoldsExist
<1>5. Is(it)
  <2>1. \A T \in SUBSET (1 .. n) : T # {} => T \ {Max(T)} \in SUBSET (1 .. n) /\ Max(T) \in 1 .. n
    <3> HIDE DEF n
    <3> QED
      BY <1>1, LastOf
  <2>2. \A T \in SUBSET (1 .. n) : T # {} =>
           G[<<it[T \ {Max(T)}], Max(T)>>] = Consume(it[T \ {Max(T)}], s[Max(T)])
    BY <1>4, <2>1
  <2> HIDE DEF G
  <2> QED
    BY <1>1, <1>4, <2>2 DEF IsFold
<1>6. Is(jt)
  <2> HIDE DEF Is
  <2> QED
    BY <1>5, Zenon
<1>7. FoldLeft(Consume, NoneOpen, s) = jt[DOMAIN s]
  BY DEF FoldLeft, MapThenFoldSet
<1> HIDE DEF jt
<1>8. acc[0] = NoneOpen
  <2>1. 1 .. 0 = {}
    OBVIOUS
  <2> QED
    BY <1>1, <1>6, <2>1
<1>9. ASSUME NEW k \in 1 .. n PROVE acc[k] = Consume(acc[k - 1], s[k])
  <2>1. (1 .. k) # {} /\ Max(1 .. k) = k /\ (1 .. k) \ {Max(1 .. k)} = 1 .. (k - 1)
    BY PrefixOf
  <2>2. 1 .. k \in SUBSET (1 .. n)
    BY <1>1
  <2>3. jt[1 .. k] = Consume(jt[1 .. (k - 1)], s[k])
    <3> HIDE DEF n
    <3> QED
      BY <1>1, <1>6, <2>1, <2>2
  <2> QED
    BY <1>1, <2>3
<1>10. acc[n] = jt[DOMAIN s]
  BY <1>1
<1> HIDE DEF acc
<1> QED
  BY <1>7, <1>8, <1>9, <1>10

\* The last of the first m events until a date is an add.
LastIsAdd(g, m, d) ==
    \E k \in 1 .. m : /\ g[k].action = "add" /\ g[k].date <= d
                      /\ \A l \in 1 .. m : g[l].date <= d => l <= k

OpenOn(acc, d) == acc.from # 0 /\ acc.from <= d

\* Closed intervals end by the last date, the open one starts by it, and one of
\* them covers a date exactly if its last event so far is an add.
LoopInv(g, m, acc) ==
    /\ acc \in ConsumeAcc
    /\ \A i \in DOMAIN acc.out : m >= 1 /\ acc.out[i].to <= g[m].date
    /\ acc.from # 0 => m >= 1 /\ acc.from <= g[m].date
    /\ \A d \in Date : Cardinality(Cover(acc.out, d)) + (IF OpenOn(acc, d) THEN 1 ELSE 0)
                         = IF LastIsAdd(g, m, d) THEN 1 ELSE 0

InOrder(g) == \A k, l \in DOMAIN g : k <= l => g[k].date <= g[l].date

\* A later event than the date changes nothing, another decides.
LEMMA LastIsAddStep ==
    ASSUME NEW g \in Seq(Change), InOrder(g), NEW m \in Nat, m < Len(g), NEW d \in Date
    PROVE  /\ g[m + 1].date > d => (LastIsAdd(g, m + 1, d) <=> LastIsAdd(g, m, d))
           /\ g[m + 1].date <= d => (LastIsAdd(g, m + 1, d) <=> g[m + 1].action = "add")
<1>1. PICK n \in Nat : n = Len(g) /\ DOMAIN g = 1 .. n /\ \A k \in 1 .. n : g[k] \in Change
  OBVIOUS
<1>2. \A k \in 1 .. n : g[k].date \in Int
  BY <1>1, UniverseAssumption DEF Change, Date
<1>3. d \in Int
  BY UniverseAssumption DEF Date
<1>4. ASSUME g[m + 1].date > d PROVE LastIsAdd(g, m + 1, d) <=> LastIsAdd(g, m, d)
  <2>1. ~(g[m + 1].date <= d)
    BY <1>1, <1>2, <1>3, <1>4
  <2>2. \A l \in 1 .. (m + 1) : g[l].date <= d => l \in 1 .. m
    BY <2>1
  <2> QED
    BY <2>2 DEF LastIsAdd
<1>5. ASSUME g[m + 1].date <= d PROVE LastIsAdd(g, m + 1, d) <=> g[m + 1].action = "add"
  <2>1. ASSUME LastIsAdd(g, m + 1, d) PROVE g[m + 1].action = "add"
    <3>1. PICK k \in 1 .. (m + 1) : g[k].action = "add" /\ m + 1 <= k
      BY <1>5, <2>1 DEF LastIsAdd
    <3>2. k = m + 1
      BY <3>1
    <3> QED
      BY <3>1, <3>2
  <2>2. ASSUME g[m + 1].action = "add" PROVE LastIsAdd(g, m + 1, d)
    BY <1>5, <2>2 DEF LastIsAdd
  <2> QED
    BY <2>1, <2>2
<1> QED
  BY <1>4, <1>5

\* One event more.
LEMMA LoopStep ==
    ASSUME NEW g \in Seq(Change), InOrder(g), NEW m \in Nat, m < Len(g),
           NEW acc, LoopInv(g, m, acc), NEW next, next = Consume(acc, g[m + 1])
    PROVE  LoopInv(g, m + 1, next)
<1>1. PICK n \in Nat : n = Len(g) /\ DOMAIN g = 1 .. n /\ \A k \in 1 .. n : g[k] \in Change
  OBVIOUS
<1>2. PICK e \in Change : e = g[m + 1]
  BY <1>1
<1>3. PICK t \in Int : t = e.date /\ t >= 1
  BY UniverseAssumption DEF Change, Date
<1>4. e.action \in {"add", "drop"}
  BY DEF Change
<1>5. acc \in ConsumeAcc /\ acc.from \in Int /\ acc.out \in Seq(RowType)
  BY DEF LoopInv, ConsumeAcc
<1>6a. next \in ConsumeAcc
  BY <1>2, <1>5, ConsumeIs
<1>6b. acc.from \in Int /\ acc.out \in Seq(RowType) /\ next.from \in Int /\ next.out \in Seq(RowType)
  BY <1>5, <1>6a DEF ConsumeAcc
<1>6. PICK from \in Int, out \in Seq(RowType), from2 \in Int, out2 \in Seq(RowType) :
         from = acc.from /\ out = acc.out /\ from2 = next.from /\ out2 = next.out
  BY <1>6b, Zenon
<1>7. /\ next \in ConsumeAcc
      /\ e.action = "add" => out2 = out /\ from2 = (IF from = 0 THEN t ELSE from)
      /\ e.action = "drop" /\ from = 0 => out2 = out /\ from2 = from
      /\ e.action = "drop" /\ from # 0 =>
            /\ Interval(from, t) \in RowType
            /\ out2 = Append(out, Interval(from, t)) /\ from2 = 0
  BY <1>2, <1>3, <1>5, <1>6, ConsumeIs
<1>8. m >= 1 => g[m].date \in Int /\ g[m].date <= t
  <2> SUFFICES ASSUME m >= 1 PROVE g[m].date \in Int /\ g[m].date <= t
    OBVIOUS
  <2>1. m \in DOMAIN g /\ m + 1 \in DOMAIN g /\ m <= m + 1 /\ g[m] \in Change
    BY <1>1
  <2>2. g[m].date \in Int
    BY <2>1, UniverseAssumption DEF Change, Date
  <2> QED
    BY <1>2, <1>3, <2>1, <2>2 DEF InOrder
<1>9. /\ \A i \in DOMAIN out : out[i] \in RowType /\ out[i].to \in Int /\ out[i].to <= t
      /\ from # 0 => from <= t
  <2>1. \A i \in DOMAIN out : out[i] \in RowType /\ out[i].to \in Int
    <3>1. \A i \in DOMAIN out : out[i] \in RowType
      BY <1>6
    <3> QED
      BY <3>1 DEF RowType
  <2>2. \A i \in DOMAIN out : m >= 1 /\ out[i].to <= g[m].date
    BY <1>6 DEF LoopInv
  <2>3. from # 0 => m >= 1 /\ from <= g[m].date
    BY <1>6 DEF LoopInv
  <2> QED
    BY <1>8, <2>1, <2>2, <2>3
<1>10. \A i \in DOMAIN out2 : out2[i].to <= t
  <2>1. CASE out2 = out
    BY <1>9, <2>1
  <2>2. CASE Interval(from, t) \in RowType /\ out2 = Append(out, Interval(from, t))
    <3>1. PICK row \in RowType : row = Interval(from, t) /\ row.to = t
      BY <2>2 DEF Interval
    <3>2. PICK k : k = Len(out)
      OBVIOUS
    <3>3. /\ k \in Nat /\ DOMAIN out = 1 .. k /\ DOMAIN out2 = 1 .. (k + 1)
          /\ (\A i \in 1 .. k : out2[i] = out[i]) /\ out2[k + 1] = row
      BY <2>2, <3>1, <3>2, Appended
    <3>4. \A i \in 1 .. (k + 1) : i \in 1 .. k \/ i = k + 1
      BY <3>3
    <3> QED
      BY <1>3, <1>9, <3>1, <3>3, <3>4
  <2> QED
    BY <1>4, <1>7, <2>1, <2>2
<1>11. from2 # 0 => from2 <= t
  BY <1>3, <1>4, <1>7, <1>9
<1>12. ASSUME NEW d \in Date
       PROVE  Cardinality(Cover(out2, d)) + (IF from2 # 0 /\ from2 <= d THEN 1 ELSE 0)
                = IF LastIsAdd(g, m + 1, d) THEN 1 ELSE 0
  <2>1. d \in Int
    BY UniverseAssumption DEF Date
  <2>2. PICK c \in Nat, c2 \in Nat : c = Cardinality(Cover(out, d)) /\ c2 = Cardinality(Cover(out2, d))
    BY CoverIs
  <2>3. c + (IF from # 0 /\ from <= d THEN 1 ELSE 0) = IF LastIsAdd(g, m, d) THEN 1 ELSE 0
    BY <1>6, <2>2 DEF LoopInv, OpenOn
  <2>4. e.action = "drop" /\ from # 0 => c2 = IF from <= d /\ d < t THEN c + 1 ELSE c
    <3> SUFFICES ASSUME e.action = "drop", from # 0 PROVE c2 = IF from <= d /\ d < t THEN c + 1 ELSE c
      OBVIOUS
    <3>1. PICK row \in RowType : row = Interval(from, t) /\ row.from = from /\ row.to = t
      BY <1>7 DEF Interval
    <3>2. out2 = Append(out, row)
      BY <1>7, <3>1
    <3>3. Covers(row, d) <=> from <= d /\ d < t
      BY <3>1 DEF Covers
    <3> QED
      BY <2>2, <3>2, <3>3, CoverOfMore
  <2>5. out2 = out => c2 = c
    BY <2>2
  <2>6. CASE t > d
    <3>1. LastIsAdd(g, m + 1, d) <=> LastIsAdd(g, m, d)
      BY <1>2, <1>3, <2>6, LastIsAddStep
    <3> QED
      BY <1>3, <1>4, <1>7, <1>9, <2>1, <2>2, <2>3, <2>4, <2>5, <2>6, <3>1
  <2>7. CASE t <= d
    <3>1. LastIsAdd(g, m + 1, d) <=> e.action = "add"
      BY <1>2, <1>3, <2>7, LastIsAddStep
    <3>2. Cover(out, d) = {}
      BY <1>9, <2>1, <2>7 DEF Cover, Covers
    <3>3. c = 0
      BY <2>2, <3>2, FS_EmptySet
    <3> QED
      BY <1>3, <1>4, <1>7, <1>9, <2>1, <2>2, <2>4, <2>5, <2>7, <3>1, <3>3
  <2> QED
    BY <1>3, <2>1, <2>6, <2>7
<1>13. g[m + 1].date = t /\ m + 1 >= 1
  BY <1>2, <1>3
<1> QED
  BY <1>6, <1>7, <1>10, <1>11, <1>12, <1>13 DEF LoopInv, OpenOn

\* The events by date: the same events, in order, and membership reads them.
LEMMA ByDateIs ==
    ASSUME NEW f \in Seq(Change)
    PROVE  /\ ByDate(f) \in Seq(Change) /\ Len(ByDate(f)) = Len(f) /\ InOrder(ByDate(f))
           /\ \A d : LastIsAdd(ByDate(f), Len(f), d) <=> MemberOn(f, d)
<1>1. PICK n \in Nat : n = Len(f) /\ DOMAIN f = 1 .. n /\ \A k \in 1 .. n : f[k] \in Change
  OBVIOUS
<1> DEFINE key == [i \in DOMAIN f |-> f[i].date]
<1>2. DOMAIN key = 1 .. n /\ \A i \in 1 .. n : key[i] = f[i].date /\ key[i] \in Int
  BY <1>1, UniverseAssumption DEF Change, Date
<1>3. PICK g, order : g = ByDate(f) /\ order = SortOrder(key) /\ g = [k \in DOMAIN f |-> f[order[k]]]
  BY DEF ByDate
<1> HIDE DEF key
<1>4. Keys(key) /\ Cardinality(DOMAIN key) = n
  BY <1>2, FS_Interval DEF Keys
<1>5. /\ order \in [1 .. n -> 1 .. n]
      /\ \A i \in 1 .. n : Rank(key, i) \in 1 .. n /\ order[Rank(key, i)] = i
      /\ \A k, l \in 1 .. n : k <= l <=> NotAfter(key, order[k], order[l])
  <2>1. PICK D : D = DOMAIN key /\ D = 1 .. n
    BY <1>2
  <2>2. /\ order \in [1 .. n -> D]
        /\ \A i \in D : Rank(key, i) \in 1 .. n /\ order[Rank(key, i)] = i
        /\ \A k, l \in 1 .. n : k <= l <=> NotAfter(key, order[k], order[l])
    <3>1. n = Cardinality(DOMAIN key)
      BY <1>4
    <3> QED
      BY ONLY <1>3, <1>4, <2>1, <3>1, SortOrderIs
  <2> QED
    BY <2>1, <2>2
<1>6. \A k \in 1 .. n : order[k] \in 1 .. n /\ g[k] = f[order[k]] /\ g[k] \in Change
  BY <1>1, <1>3, <1>5
<1>7. g \in Seq(Change) /\ Len(g) = n /\ DOMAIN g = 1 .. n
  BY <1>1, <1>3, <1>6
<1>8. InOrder(g)
  <2> SUFFICES ASSUME NEW k \in 1 .. n, NEW l \in 1 .. n, k <= l PROVE g[k].date <= g[l].date
    BY <1>7 DEF InOrder
  <2>1. NotAfter(key, order[k], order[l])
    BY <1>5
  <2>2. key[order[k]] <= key[order[l]]
    BY <1>2, <1>6, <2>1 DEF NotAfter
  <2> QED
    BY <1>2, <1>6, <2>2
<1>9. ASSUME NEW d PROVE LastIsAdd(g, n, d) <=> MemberOn(f, d)
  <2>1. ASSUME LastIsAdd(g, n, d) PROVE MemberOn(f, d)
    <3>1. PICK k \in 1 .. n : /\ g[k].action = "add" /\ g[k].date <= d
                              /\ \A l \in 1 .. n : g[l].date <= d => l <= k
      BY <2>1 DEF LastIsAdd
    <3>2. PICK i \in 1 .. n : i = order[k] /\ g[k] = f[i]
      BY <1>6
    <3>3. ASSUME NEW j \in 1 .. n, f[j].date <= d
          PROVE  f[j].date < f[i].date \/ (f[j].date = f[i].date /\ j <= i)
      <4>1. PICK l \in 1 .. n : l = Rank(key, j) /\ order[l] = j
        BY <1>5
      <4>2. l <= k
        BY <1>6, <3>1, <3>3, <4>1
      <4>3. NotAfter(key, j, i)
        BY <1>5, <3>2, <4>1, <4>2
      <4> QED
        BY <1>2, <4>3 DEF NotAfter
    <3> QED
      BY <1>1, <3>1, <3>2, <3>3 DEF MemberOn
  <2>2. ASSUME MemberOn(f, d) PROVE LastIsAdd(g, n, d)
    <3>1. PICK i \in 1 .. n : /\ f[i].action = "add" /\ f[i].date <= d
                              /\ \A j \in 1 .. n : f[j].date <= d =>
                                    f[j].date < f[i].date \/ (f[j].date = f[i].date /\ j <= i)
      BY <1>1, <2>2 DEF MemberOn
    <3>2. PICK k \in 1 .. n : k = Rank(key, i) /\ order[k] = i /\ g[k] = f[i]
      BY <1>5, <1>6
    <3>3. ASSUME NEW l \in 1 .. n, g[l].date <= d PROVE l <= k
      <4>1. PICK j \in 1 .. n : j = order[l] /\ g[l] = f[j]
        BY <1>6
      <4>2. NotAfter(key, j, i)
        BY <1>2, <3>1, <3>3, <4>1 DEF NotAfter
      <4> QED
        BY <1>5, <3>2, <4>1, <4>2
    <3> QED
      BY <3>1, <3>2, <3>3 DEF LastIsAdd
  <2> QED
    BY <2>1, <2>2
<1> QED
  BY <1>1, <1>3, <1>7, <1>8, <1>9

\* The intervals of a file cover a date once if its last event until then is an
\* add, and not otherwise.
LEMMA IntervalsAre ==
    ASSUME NEW f \in Seq(Change)
    PROVE  /\ BuildIntervals(f) \in Seq(RowType)
           /\ \A d \in Date : Cardinality(Cover(BuildIntervals(f), d)) = IF MemberOn(f, d) THEN 1 ELSE 0
<1>1. PICK g, n : g = ByDate(f) /\ n = Len(f)
  OBVIOUS
<1>2. /\ n \in Nat /\ g \in Seq(Change) /\ Len(g) = n /\ InOrder(g)
      /\ \A d : LastIsAdd(g, n, d) <=> MemberOn(f, d)
  BY <1>1, ByDateIs
<1>3. PICK acc : /\ acc[0] = NoneOpen
                 /\ \A k \in 1 .. n : acc[k] = Consume(acc[k - 1], g[k])
                 /\ FoldLeft(Consume, NoneOpen, g) = acc[n]
  BY <1>2, ConsumeFold
<1>4. BuildIntervals(f) = IF acc[n].from = 0 THEN acc[n].out
                          ELSE Append(acc[n].out, Interval(acc[n].from, Open))
  BY <1>1, <1>3 DEF BuildIntervals, NoneOpen
<1>5. LoopInv(g, n, acc[n])
  <2> DEFINE P == {m \in Nat : m <= n => LoopInv(g, m, acc[m])}
  <2>1. 0 \in P
    <3>1. NoneOpen \in ConsumeAcc /\ NoneOpen.from = 0 /\ NoneOpen.out = << >>
      BY DEF NoneOpen, ConsumeAcc
    <3>2. \A d : Cover(<< >>, d) = {}
      BY DEF Cover
    <3>3. \A d : Cardinality(Cover(<< >>, d)) = 0
      BY <3>2, FS_EmptySet
    <3>4. \A d : ~LastIsAdd(g, 0, d)
      BY DEF LastIsAdd
    <3>5. LoopInv(g, 0, NoneOpen)
      BY <3>1, <3>3, <3>4 DEF LoopInv, OpenOn
    <3> QED
      BY <1>3, <3>5
  <2>2. ASSUME NEW m \in Nat, m \in P PROVE m + 1 \in P
    <3> SUFFICES ASSUME m + 1 <= n PROVE LoopInv(g, m + 1, acc[m + 1])
      OBVIOUS
    <3>1. m < Len(g) /\ LoopInv(g, m, acc[m])
      BY <1>2, <2>2
    <3>2. acc[m + 1] = Consume(acc[m], g[m + 1])
      BY <1>2, <1>3
    <3> QED
      BY <1>2, <3>1, <3>2, LoopStep
  <2>3. Nat \subseteq P
    <3> HIDE DEF P
    <3> QED
      BY <2>1, <2>2, NumbersFrom0
  <2> QED
    BY <1>2, <2>3
<1>6. PICK a : a = acc[n]
  OBVIOUS
<1>7. a \in ConsumeAcc /\ a.from \in Int /\ a.out \in Seq(RowType)
  BY <1>5, <1>6 DEF LoopInv, ConsumeAcc
<1>8. \A d \in Date : Cardinality(Cover(a.out, d)) + (IF a.from # 0 /\ a.from <= d THEN 1 ELSE 0)
                        = IF MemberOn(f, d) THEN 1 ELSE 0
  BY <1>2, <1>5, <1>6 DEF LoopInv, OpenOn
<1>9. \A d : Cardinality(Cover(a.out, d)) \in Nat
  BY <1>7, CoverIs
<1>10. CASE a.from = 0
  BY <1>4, <1>6, <1>7, <1>8, <1>9, <1>10
<1>11. CASE a.from # 0
  <2>0. PICK row : row = Interval(a.from, Open)
    OBVIOUS
  <2>0a. Open \in Int /\ Open = LastDate + 1
    BY UniverseAssumption DEF Open
  <2>0b. row = [from |-> a.from, to |-> Open]
    BY <2>0 DEF Interval
  <2>1. row \in RowType /\ row = Interval(a.from, Open) /\ row.from = a.from /\ row.to = LastDate + 1
    BY <1>7, <2>0, <2>0a, <2>0b DEF RowType
  <2>2. BuildIntervals(f) = Append(a.out, row)
    BY <1>4, <1>6, <1>11, <2>1
  <2>3. Append(a.out, row) \in Seq(RowType)
    BY <1>7, <2>1, Appended
  <2>4. ASSUME NEW d \in Date
        PROVE  Cardinality(Cover(Append(a.out, row), d)) = IF MemberOn(f, d) THEN 1 ELSE 0
    <3>1. Covers(row, d) <=> a.from <= d
      BY <2>1, UniverseAssumption DEF Covers, Date
    <3>2. Cardinality(Cover(Append(a.out, row), d))
            = IF Covers(row, d) THEN Cardinality(Cover(a.out, d)) + 1 ELSE Cardinality(Cover(a.out, d))
      BY <1>7, <2>1, CoverOfMore
    <3> QED
      BY <1>8, <1>9, <1>11, <3>1, <3>2
  <2> QED
    BY <2>2, <2>3, <2>4
<1> QED
  BY <1>10, <1>11

-----------------------------------------------------------------------------
\* What a job is, and the files that were committed.
JobState == {"none", "queued", "read", "finished", "failed"}
Job == [state : JobState, rows : Seq(RowType), read : Seq(Event)]
HadIn(files, d) == {n \in DOMAIN files : MemberOn(files[n], d)}
Had(d) == HadIn(committed, d)

UniverseInv ==
    /\ csv \in Seq(Event) /\ ingest \in [Ingest -> Job]
    /\ rows \in Seq(RowType) /\ committed \in Seq(Seq(Event))
    /\ \A j \in Ingest : ingest[j].state = "read" =>
          Parses(ingest[j].read) /\ ingest[j].rows = BuildIntervals(ingest[j].read)
    /\ \A d \in Date : Cardinality(Cover(rows, d)) = Cardinality(Had(d))

\* A file that parses has only changes.
LEMMA ParsedFile ==
    ASSUME NEW f \in Seq(Event), Parses(f)
    PROVE  f \in Seq(Change)
<1>1. PICK n \in Nat : /\ n = Len(f) /\ DOMAIN f = 1 .. n /\ f = [i \in 1 .. n |-> f[i]]
                      /\ \A i \in 1 .. n : f[i] \in Event
  OBVIOUS
<1>2. \A i \in 1 .. n : f[i].action \in {"add", "drop"}
  BY <1>1 DEF Parses
<1>3. \A i \in 1 .. n : f[i] \in Change
  BY <1>1, <1>2 DEF Event, Change
<1>4. PICK g : g = [i \in 1 .. n |-> f[i]]
  OBVIOUS
<1>5. g \in Seq(Change)
  BY <1>3, <1>4
<1> QED
  BY <1>1, <1>4, <1>5

\* A step of a job alone.
LEMMA JobStep ==
    ASSUME UniverseInv, NEW j \in Ingest, NEW state, NEW rs, NEW read,
           state \in JobState, rs \in Seq(RowType), read \in Seq(Event),
           Becomes(j, state, rs, read), csv' = csv, rows' = rows, committed' = committed,
           state = "read" => Parses(read) /\ rs = BuildIntervals(read)
    PROVE  UniverseInv'
<1>1. PICK job : job = [state |-> state, rows |-> rs, read |-> read]
  OBVIOUS
<1>1a. job \in Job
  BY <1>1 DEF Job
<1>2. ingest' = [ingest EXCEPT ![j] = job]
  BY <1>1 DEF Becomes
<1>3. ingest' \in [Ingest -> Job]
  BY <1>1a, <1>2 DEF UniverseInv
<1>4. ASSUME NEW i \in Ingest, ingest'[i].state = "read"
      PROVE  Parses(ingest'[i].read) /\ ingest'[i].rows = BuildIntervals(ingest'[i].read)
  <2>1. PICK w : w = ingest'[i] /\ w.state = "read"
    BY <1>4
  <2>2. CASE i = j
    <3>1. w = job
      BY <1>2, <2>1, <2>2 DEF UniverseInv
    <3> QED
      BY <1>1, <2>1, <3>1
  <2>3. CASE i # j
    <3>1. w = ingest[i]
      BY <1>2, <2>1, <2>3 DEF UniverseInv
    <3> QED
      BY <2>1, <3>1 DEF UniverseInv
  <2> QED
    BY <2>2, <2>3
<1>5. \A d \in Date : Cover(rows, d)' = Cover(rows, d) /\ Had(d)' = Had(d)
  BY DEF Cover, Covers, Had, HadIn, MemberOn
<1>6. \A d \in Date : Cardinality(Cover(rows, d))' = Cardinality(Had(d))'
  BY <1>5 DEF UniverseInv
<1> QED
  BY <1>3, <1>4, <1>6 DEF UniverseInv
\* What was committed grows by one file.
LEMMA HadMore ==
    ASSUME NEW s, s \in Seq(Seq(Event)), NEW file, file \in Seq(Event), NEW d, NEW t, t = Append(s, file)
    PROVE  /\ t \in Seq(Seq(Event))
           /\ Cardinality(HadIn(s, d)) \in Nat
           /\ Cardinality(HadIn(t, d)) = Cardinality(HadIn(s, d)) + (IF MemberOn(file, d) THEN 1 ELSE 0)
<1>1. PICK n, before, after : n = Len(s) /\ before = HadIn(s, d) /\ after = HadIn(t, d)
  OBVIOUS
<1>2. /\ n \in Nat /\ t \in Seq(Seq(Event)) /\ DOMAIN s = 1 .. n /\ DOMAIN t = 1 .. (n + 1)
      /\ (\A i \in 1 .. n : t[i] = s[i]) /\ t[n + 1] = file
  BY <1>1, Appended
<1>3. IsFiniteSet(before) /\ before \in SUBSET (1 .. n)
  <2>1. before \in SUBSET (1 .. n)
    BY <1>1, <1>2 DEF HadIn
  <2>2. IsFiniteSet(1 .. n)
    BY <1>2, FS_Interval
  <2> QED
    BY <2>1, <2>2, FS_Subset
<1>4. Cardinality(before) \in Nat
  BY <1>3, FS_CardinalityType
<1>5. CASE MemberOn(file, d)
  <2>1. after = before \cup {n + 1} /\ n + 1 \notin before
    BY <1>1, <1>2, <1>3, <1>5 DEF HadIn
  <2>2. Cardinality(after) = Cardinality(before) + 1
    BY ONLY <1>3, <1>4, <2>1, FS_AddElement
  <2> QED
    BY <1>1, <1>2, <1>4, <1>5, <2>1, <2>2
<1>6. CASE ~MemberOn(file, d)
  <2>1. after = before
    BY <1>1, <1>2, <1>3, <1>6 DEF HadIn
  <2>2. Cardinality(after) = Cardinality(before) + 0
    BY ONLY <1>4, <2>1
  <2> QED
    BY <1>1, <1>2, <1>3, <1>4, <1>6, <2>2
<1> QED
  BY <1>5, <1>6

\* Nothing is there at first.
LEMMA UniverseStarts == UniverseInit => UniverseInv
<1> SUFFICES ASSUME UniverseInit PROVE UniverseInv
  OBVIOUS
<1>1. NoIngest \in Job
  <2>1. << >> \in Seq(RowType) /\ << >> \in Seq(Event)
    OBVIOUS
  <2> QED
    BY <2>1 DEF NoIngest, Job, JobState
<1>2. ingest \in [Ingest -> Job] /\ \A j \in Ingest : ingest[j].state = "none"
  BY <1>1 DEF UniverseInit, NoIngest
<1>3. \A d : Cover(rows, d) = {} /\ Had(d) = {}
  BY DEF UniverseInit, Cover, Had, HadIn
<1> QED
  BY <1>2, <1>3 DEF UniverseInit, UniverseInv

\* The file gets a row.
LEMMA FileStep == UniverseInv /\ EditFile => UniverseInv'
<1> SUFFICES ASSUME UniverseInv, EditFile PROVE UniverseInv'
  OBVIOUS
<1>0. ingest' = ingest /\ rows' = rows /\ committed' = committed
  BY DEF EditFile
<1>1. PICK e : e \in Event /\ csv' = Append(csv, e)
  <2>1. ASSUME NEW a \in {"add", "drop"}, NEW d \in Date, csv' = Append(csv, [action |-> a, date |-> d])
        PROVE  \E e : e \in Event /\ csv' = Append(csv, e)
    <3>1. PICK e : e = [action |-> a, date |-> d]
      OBVIOUS
    <3>2. e \in Event
      BY <3>1 DEF Event
    <3>3. csv' = Append(csv, e)
      BY <2>1, <3>1
    <3> QED
      BY <3>2, <3>3, Zenon
  <2>2. ASSUME csv' = Append(csv, [action |-> "unreadable", date |-> 1])
        PROVE  \E e : e \in Event /\ csv' = Append(csv, e)
    <3>1. PICK e : e = [action |-> "unreadable", date |-> 1]
      OBVIOUS
    <3>2. e \in Event
      BY <3>1, UniverseAssumption DEF Event, Date
    <3>3. csv' = Append(csv, e)
      BY <2>2, <3>1
    <3> QED
      BY <3>2, <3>3, Zenon
  <2> QED
    BY <2>1, <2>2, Zenon DEF EditFile
<1>2. csv' \in Seq(Event)
  <2>1. PICK n, u : n = Len(csv) /\ u = Append(csv, e)
    OBVIOUS
  <2>2. csv \in Seq(Event)
    BY DEF UniverseInv
  <2>3. u \in Seq(Event)
    BY <1>1, <2>1, <2>2, Appended
  <2> QED
    BY <1>1, <2>1, <2>3
<1>3. \A d \in Date : Cover(rows, d)' = Cover(rows, d) /\ Had(d)' = Had(d)
  BY <1>0 DEF Cover, Covers, Had, HadIn, MemberOn
<1>4. \A d \in Date : Cardinality(Cover(rows, d))' = Cardinality(Had(d))'
  BY <1>3 DEF UniverseInv
<1> QED
  BY <1>0, <1>2, <1>4 DEF UniverseInv

\* A job adds the rows of the file it read, all of them.
LEMMA CommitStep ==
    ASSUME UniverseInv, NEW j \in Ingest, IngestCommits(j)
    PROVE  UniverseInv'
<1>1. PICK read, rs : read = ingest[j].read /\ rs = ingest[j].rows
  OBVIOUS
<1>2. /\ read \in Seq(Event) /\ rs \in Seq(RowType) /\ Parses(read) /\ rs = BuildIntervals(read)
  BY <1>1 DEF IngestCommits, UniverseInv, Job
<1>3. read \in Seq(Change)
  BY <1>2, ParsedFile
<1>4. \A d \in Date : Cardinality(Cover(rs, d)) = IF MemberOn(read, d) THEN 1 ELSE 0
  BY <1>2, <1>3, IntervalsAre
<1>5. PICK u, t : u = rows \o rs /\ t = Append(committed, read) /\ rows' = u /\ committed' = t
  BY <1>1 DEF IngestCommits
<1>6. rows \in Seq(RowType) /\ committed \in Seq(Seq(Event))
  BY DEF UniverseInv
<1>7. PICK n, m : n = Len(rows) /\ m = Len(rs)
  OBVIOUS
<1>8. u \in Seq(RowType)
  BY <1>2, <1>5, <1>6, <1>7, Joined
<1>9. t \in Seq(Seq(Event))
  BY <1>2, <1>5, <1>6, HadMore
<1>10. ASSUME NEW d \in Date PROVE Cardinality(Cover(rows, d))' = Cardinality(Had(d))'
  <2>1. Cardinality(Cover(u, d)) = Cardinality(Cover(rows, d)) + Cardinality(Cover(rs, d))
    BY <1>2, <1>5, <1>6, CoverOfBoth
  <2>2. Cardinality(HadIn(t, d)) = Cardinality(HadIn(committed, d)) + (IF MemberOn(read, d) THEN 1 ELSE 0)
    BY <1>2, <1>5, <1>6, HadMore
  <2>3. Cardinality(Cover(rows, d)) = Cardinality(HadIn(committed, d))
    BY DEF UniverseInv, Had
  <2>4. Cover(rows, d)' = Cover(u, d) /\ Had(d)' = HadIn(t, d)
    BY <1>5 DEF Cover, Covers, Had, HadIn, MemberOn
  <2> QED
    BY <1>4, <2>1, <2>2, <2>3, <2>4
<1>11. PICK job : job = [state |-> "finished", rows |-> << >>, read |-> << >>]
  OBVIOUS
<1>11a. job \in Job
  <2>1. << >> \in Seq(RowType) /\ << >> \in Seq(Event)
    OBVIOUS
  <2> QED
    BY <1>11, <2>1 DEF Job, JobState
<1>12. ingest' = [ingest EXCEPT ![j] = job]
  BY <1>11 DEF IngestCommits, Becomes
<1>13. ingest' \in [Ingest -> Job]
  BY <1>11a, <1>12 DEF UniverseInv
<1>14. ASSUME NEW i \in Ingest, ingest'[i].state = "read"
       PROVE  Parses(ingest'[i].read) /\ ingest'[i].rows = BuildIntervals(ingest'[i].read)
  <2>1. i # j
    BY <1>11, <1>12, <1>14 DEF UniverseInv
  <2>2. ingest'[i] = ingest[i]
    BY <1>12, <2>1 DEF UniverseInv
  <2> QED
    BY <1>14, <2>2 DEF UniverseInv
<1>15. csv' = csv
  BY DEF IngestCommits
<1> QED
  BY <1>5, <1>8, <1>9, <1>10, <1>13, <1>14, <1>15 DEF UniverseInv

\* Every step keeps the invariant.
LEMMA UniverseStep == UniverseInv /\ [UniverseNext]_universeVars => UniverseInv'
<1> SUFFICES ASSUME UniverseInv, [UniverseNext]_universeVars PROVE UniverseInv'
  OBVIOUS
<1>0. << >> \in Seq(RowType) /\ << >> \in Seq(Event)
  OBVIOUS
<1>1. CASE UNCHANGED universeVars
  <2>1. csv' = csv /\ ingest' = ingest /\ rows' = rows /\ committed' = committed
    BY <1>1 DEF universeVars
  <2>2. \A d \in Date : Cover(rows, d)' = Cover(rows, d) /\ Had(d)' = Had(d)
    BY <2>1 DEF Cover, Covers, Had, HadIn, MemberOn
  <2>3. \A d \in Date : Cardinality(Cover(rows, d))' = Cardinality(Had(d))'
    BY <2>2 DEF UniverseInv
  <2> QED
    BY <2>1, <2>3 DEF UniverseInv
<1>2. CASE EditFile
  BY <1>2, FileStep
<1>3. ASSUME NEW j \in Ingest, RequestIngest(j) PROVE UniverseInv'
  <2>1. Becomes(j, "queued", << >>, << >>) /\ csv' = csv /\ rows' = rows /\ committed' = committed
    BY <1>3 DEF RequestIngest
  <2>2. "queued" \in JobState /\ "queued" # "read"
    BY DEF JobState
  <2> QED
    BY ONLY UniverseInv, j \in Ingest, <1>0, <2>1, <2>2, JobStep, Zenon
<1>4. ASSUME NEW j \in Ingest, IngestReads(j) PROVE UniverseInv'
  <2>1. csv \in Seq(Event)
    BY DEF UniverseInv
  <2>2. csv' = csv /\ rows' = rows /\ committed' = committed
    BY <1>4 DEF IngestReads
  <2>3. CASE Parses(csv) /\ Becomes(j, "read", BuildIntervals(csv), csv)
    <3>1. BuildIntervals(csv) \in Seq(RowType)
      BY <2>1, <2>3, ParsedFile, IntervalsAre
    <3>2. "read" \in JobState
      BY DEF JobState
    <3> QED
      BY ONLY UniverseInv, j \in Ingest, <3>2, <2>1, <2>2, <2>3, <3>1, JobStep, Zenon
  <2>4. CASE Becomes(j, "failed", << >>, << >>)
    <3>1. "failed" \in JobState /\ "failed" # "read"
      BY DEF JobState
    <3> QED
      BY ONLY UniverseInv, j \in Ingest, <1>0, <2>2, <2>4, <3>1, JobStep, Zenon
  <2> QED
    BY <1>4, <2>3, <2>4 DEF IngestReads
<1>5. ASSUME NEW j \in Ingest, IngestCommits(j) PROVE UniverseInv'
  BY <1>5, CommitStep
<1>6. ASSUME NEW j \in Ingest, IngestFails(j) PROVE UniverseInv'
  <2>1. Becomes(j, "failed", << >>, << >>) /\ csv' = csv /\ rows' = rows /\ committed' = committed
    BY <1>6 DEF IngestFails
  <2>2. "failed" \in JobState /\ "failed" # "read"
    BY DEF JobState
  <2> QED
    BY ONLY UniverseInv, j \in Ingest, <1>0, <2>1, <2>2, JobStep, Zenon
<1> QED
  BY <1>1, <1>2, <1>3, <1>4, <1>5, <1>6 DEF UniverseNext

\* The rows replay the ingests: on a date a query returns one row for each ingest
\* whose file had the symbol in, no matter what later files say.
LEMMA RowsReplayIngests ==
    ASSUME UniverseInv, NEW d \in Date
    PROVE  /\ IsFiniteSet(Had(d))
           /\ Cardinality(Members(d)) = Cardinality(Had(d))
           /\ MembershipMask(rows)[d] = (Had(d) # {})
<1>1. Members(d) = Cover(rows, d)
  BY DEF Members, Cover
<1>2. IsFiniteSet(Cover(rows, d)) /\ Cardinality(Cover(rows, d)) = Cardinality(Had(d))
  BY CoverIs DEF UniverseInv
<1>3. IsFiniteSet(Had(d))
  <2>1. PICK n \in Nat : DOMAIN committed = 1 .. n
    BY DEF UniverseInv
  <2> QED
    BY <2>1, FS_Interval, FS_Subset DEF Had, HadIn
<1>4. Cover(rows, d) = {} <=> Had(d) = {}
  BY <1>2, <1>3, FS_EmptySet
<1>5. MembershipMask(rows)[d] = (\E i \in DOMAIN rows : Covers(rows[i], d))
  BY DEF MembershipMask
<1>6. (\E i \in DOMAIN rows : Covers(rows[i], d)) <=> Cover(rows, d) # {}
  BY DEF Cover
<1>7. (\E i \in DOMAIN rows : Covers(rows[i], d)) = (Had(d) # {})
  BY <1>4, <1>6
<1> QED
  BY <1>1, <1>2, <1>3, <1>5, <1>7

\* MembershipIsExact holds of every index, whatever the files and the jobs: an
\* ingest of files that agree makes exactly their names eligible, and one alone
\* returns none of them twice.
THEOREM IndexIsExact == UniverseSpec => []MembershipIsExact
<1>1. UniverseInv => MembershipIsExact
  <2> SUFFICES ASSUME UniverseInv, NEW d \in Date
               PROVE  /\ Had(d) = {} => ~MembershipMask(rows)[d]
                      /\ Had(d) # {} /\ Had(d) = DOMAIN committed => MembershipMask(rows)[d]
                      /\ Len(committed) <= 1 => Cardinality(Members(d)) <= 1
    BY Zenon DEF MembershipIsExact, Had, HadIn
  <2>1. /\ IsFiniteSet(Had(d)) /\ Cardinality(Members(d)) = Cardinality(Had(d))
        /\ MembershipMask(rows)[d] = (Had(d) # {})
    BY RowsReplayIngests
  <2>2. ASSUME Len(committed) <= 1 PROVE Cardinality(Members(d)) <= 1
    <3>1. DOMAIN committed = 1 .. Len(committed) /\ Len(committed) \in Nat
      BY DEF UniverseInv
    <3>2. Had(d) \in SUBSET {1}
      BY <2>2, <3>1 DEF Had, HadIn
    <3>3. IsFiniteSet({1}) /\ Cardinality({1}) = 1
      BY FS_Singleton
    <3>4. Cardinality(Had(d)) <= Cardinality({1})
      BY ONLY <3>2, <3>3, FS_Subset
    <3> QED
      BY <2>1, <3>3, <3>4
  <2> QED
    BY <2>1, <2>2
<1> QED
  BY <1>1, UniverseStarts, UniverseStep, PTL DEF UniverseSpec
=============================================================================

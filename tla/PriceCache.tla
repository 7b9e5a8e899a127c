----------------------------- MODULE PriceCache -----------------------------
(***************************************************************************)
(* The parquet cache of daily bars (adapters/data/parquet_cache.py) and    *)
(* the provider that fills it (adapters/data/yfinance_provider.py).        *)
(*                                                                         *)
(* One file per symbol is read, merged and written in place, without a     *)
(* lock, by every process that calls get_ohlcv: the RQ workers and the API *)
(* threads.  A call is one step per access of the file and one for the     *)
(* download, so that calls interleave between them.  A day's bar is the    *)
(* revision of the vendor's data it was downloaded from, 0 for no bar.     *)
(***************************************************************************)
EXTENDS Integers, FiniteSets

CONSTANTS
    Proc,          \* processes and threads that use the cache
    Symbol,
    LastDay,       \* days are 1 .. LastDay
    MaxRev,        \* bound: revisions of the vendor's data
    Ranges,        \* the <<start, end>> that are asked for
    Window,        \* bars that liquidity looks at
    Earlier,       \* sets of days that earlier ingests may have left, {} for none
    MaxFaults      \* bound: downloads, writes and processes that fail

Day == 1 .. LastDay

ASSUME CacheAssumption ==
    /\ LastDay \in Nat \ {0}
    /\ Symbol # {}
    /\ Ranges \subseteq Day \X Day
    /\ Earlier \subseteq SUBSET Day

VARIABLES
    file,          \* symbol -> the parquet file
    rev,           \* the vendor's current revision
    call,          \* process -> its call of the cache
    answered,      \* symbol -> newest bar of each day ever returned (history)
    faults,        \* failures so far
    serial         \* no two calls fetched a symbol at once, no write broke (history)

cacheVars == <<file, rev, call, answered, faults, serial>>

Bars == [Day -> 0 .. MaxRev]
NoBars == [d \in Day |-> 0]
Kept(bars, D) == [d \in Day |-> IF d \in D THEN bars[d] ELSE 0]
Present(bars) == {d \in Day : bars[d] # 0}

\* One call: "bars" is get_ohlcv, "prices" is _prices_from_cache, "liquidity"
\* is get_liquidity as of the end of its range.
Idle == [stage |-> "idle", kind |-> "bars", sym |-> CHOOSE y \in Symbol : TRUE,
         from |-> 1, to |-> 1, bars |-> NoBars, rivals |-> {}]

Init ==
    /\ \E left \in [Symbol -> Earlier] :
          /\ file = [y \in Symbol |-> [state |-> IF left[y] = {} THEN "absent" ELSE "whole",
                                     bars |-> [d \in Day |-> IF d \in left[y] THEN 1 ELSE 0]]]
          /\ answered = [y \in Symbol |-> file[y].bars]
    /\ rev = 1
    /\ call = [p \in Proc |-> Idle]
    /\ faults = 0
    /\ serial = TRUE

\* read_parquet raises on a file that is half written.
Torn(p) == file[call[p].sym].state = "torn"
Cached(p) == file[call[p].sym].bars

At(p, stage) == call[p].stage = stage
Goto(p, stage, bars) == call' = [call EXCEPT ![p].stage = stage, ![p].bars = bars]
Raise(p) == Goto(p, "raised", NoBars) /\ UNCHANGED <<file, answered, serial>>

Fault == faults < MaxFaults /\ faults' = faults + 1

-----------------------------------------------------------------------------
(***************************************************************************)
(* get_ohlcv, _prices_from_cache and get_liquidity.                        *)
(***************************************************************************)

\* Mutant: either end of the range is enough.
Covers_EitherEnd(bars, s, e) ==
    \E a, b \in Present(bars) : a <= s \/ b >= e

\* The first cached bar is not after the start, the last not before the end.
Covers(bars, s, e) ==
    \E a, b \in Present(bars) : a <= s /\ b >= e

Slice(bars, s, e) == Kept(bars, s .. e)

\* The last bars up to a day, for the medians of volume and turnover.
Liquidity(bars, asOf) ==
    Kept(bars, {d \in Present(bars) : d <= asOf
                    /\ Cardinality(Present(bars) \cap d + 1 .. asOf) < Window})

Answer(p, bars) ==
    /\ Goto(p, "done", bars)
    /\ answered' = [answered EXCEPT ![call[p].sym] =
                        [d \in Day |-> IF bars[d] > @[d] THEN bars[d] ELSE @[d]]]

Start(p, kind, y, range) ==
    /\ At(p, "idle")
    /\ call' = [call EXCEPT ![p] = [Idle EXCEPT !.stage = "read", !.kind = kind,
                    !.sym = y, !.from = range[1], !.to = range[2]]]
    /\ UNCHANGED <<file, rev, answered, faults, serial>>

\* A backtest or a sweep takes what is cached, and so does liquidity, which
\* raises if nothing is; a bar request downloads unless the cache covers the
\* range.
CacheRead(p) ==
    /\ At(p, "read")
    /\ LET c == call[p]
           taken == IF c.kind = "liquidity" THEN Liquidity(Cached(p), c.to)
                    ELSE Slice(Cached(p), c.from, c.to)
           raises == Torn(p) \/ (c.kind = "liquidity" /\ Present(Cached(p)) = {})
           hit == c.kind # "bars" \/ Covers(Cached(p), c.from, c.to)
       IN \/ raises /\ Raise(p)
          \/ ~raises /\ hit /\ Answer(p, taken) /\ UNCHANGED <<file, serial>>
          \/ ~raises /\ ~hit /\ Goto(p, "download", NoBars)
             /\ UNCHANGED <<file, answered, serial>>
    /\ UNCHANGED <<rev, faults>>

\* A row without any value.
Blank == -1

\* Mutant: rows without any value are kept.
Normalize_KeepsBlanks(raw) == raw

\* _normalize: dropna(how="all").
Normalize(raw) == [d \in Day |-> IF raw[d] = Blank THEN 0 ELSE raw[d]]

\* The rows of [start, end) as yfinance defines it, some of them blank, none at
\* all, or refused.
Download(p) ==
    /\ At(p, "download")
    /\ LET c == call[p]
           sessions == [d \in Day |-> IF d \in c.from .. c.to - 1 THEN rev ELSE 0]
       IN \/ /\ \/ Goto(p, "merge", Normalize(sessions)) /\ UNCHANGED faults
                \/ /\ \E D \in (SUBSET Present(sessions)) \ {{}} :
                         Goto(p, "merge", Normalize([d \in Day |->
                                              IF d \in D THEN Blank ELSE sessions[d]]))
                   /\ Fault
             /\ serial' = (serial /\ \A q \in Proc \ {p} :
                   call[q].sym = c.sym => call[q].stage \notin {"merge", "open", "close"})
             /\ UNCHANGED <<file, answered>>
          \/ Fault /\ Raise(p)
    /\ UNCHANGED rev

\* Last write wins per date.
Merged(existing, new) ==
    [d \in Day |-> IF new[d] # 0 THEN new[d] ELSE existing[d]]

MergeRead(p) ==
    /\ At(p, "merge")
    /\ \/ Torn(p) /\ Raise(p)
       \/ ~Torn(p) /\ Goto(p, "open", Merged(Cached(p), call[p].bars))
          /\ UNCHANGED <<file, answered, serial>>
    /\ UNCHANGED <<rev, faults>>

\* Opening for writing truncates the file.
OpenFile(p) ==
    /\ At(p, "open")
    /\ file' = [file EXCEPT ![call[p].sym] = [state |-> "torn", bars |-> NoBars]]
    /\ Goto(p, "close", call[p].bars)
    /\ UNCHANGED <<rev, answered, faults, serial>>

\* With one writer the file holds the merged bars.  Of two writers that had it
\* open at once the last to close leaves either's bars or a mixture of both.
CloseFile(p) ==
    LET c == call[p]
        others == {q \in Proc \ {p} : At(q, "close") /\ call[q].sym = c.sym}
        noted == [call EXCEPT ![p].stage = "done", ![p].bars = Slice(c.bars, c.from, c.to),
                              ![p].rivals = {}]
    IN /\ At(p, "close")
       /\ \/ /\ others # {}
             /\ call' = [q \in Proc |-> IF q \in others
                            THEN [noted[q] EXCEPT !.rivals = @ \cup {c.bars}] ELSE noted[q]]
             /\ UNCHANGED file
          \/ /\ others = {}
             /\ call' = noted
             /\ \/ \E bars \in {c.bars} \cup c.rivals :
                      file' = [file EXCEPT ![c.sym] = [state |-> "whole", bars |-> bars]]
                \/ c.rivals # {} /\ UNCHANGED file
       /\ answered' = [answered EXCEPT ![c.sym] =
                [d \in Day |-> IF noted[p].bars[d] > @[d] THEN noted[p].bars[d] ELSE @[d]]]
       /\ UNCHANGED <<rev, faults, serial>>

\* The time limit of the job or an I/O error raises anywhere in the call.  A
\* write that breaks off leaves part of the file, or removes it.
CallFails(p) ==
    /\ Fault
    /\ call[p].stage \in {"read", "download", "merge", "open", "close"}
    /\ Goto(p, "raised", NoBars)
    /\ IF At(p, "close")
       THEN /\ \E s \in {"torn", "absent"} :
                  file' = [file EXCEPT ![call[p].sym] = [state |-> s, bars |-> NoBars]]
            /\ serial' = FALSE
       ELSE UNCHANGED <<file, serial>>
    /\ UNCHANGED <<rev, answered>>

\* The process is gone: an open file stays as far as it was written.
ProcessDies(p) ==
    /\ Fault
    /\ call' = [call EXCEPT ![p] = Idle]
    /\ serial' = (serial /\ ~At(p, "close"))
    /\ UNCHANGED <<file, rev, answered>>

Return(p) ==
    /\ call[p].stage \in {"done", "raised"}
    /\ call' = [call EXCEPT ![p] = Idle]
    /\ UNCHANGED <<file, rev, answered, faults, serial>>

\* The vendor restates its history (adjusted closes).
Restate ==
    /\ rev < MaxRev
    /\ rev' = rev + 1
    /\ UNCHANGED <<file, call, answered, faults, serial>>

\* The steps of a call between its start and its end.
Step(p) ==
    \/ CacheRead(p) \/ Download(p) \/ MergeRead(p)
    \/ OpenFile(p) \/ CloseFile(p)

-----------------------------------------------------------------------------
\* As long as no two calls fetch one symbol at once and no write breaks off,
\* every bar that was ever returned is in the file, of the same revision or a
\* newer one, whenever nobody is writing it: a merge never drops or ages bars.
AnsweredStaysCached ==
    serial => \A y \in Symbol :
        (\A p \in Proc : call[p].sym = y => ~At(p, "close"))
            => \A d \in Day : file[y].bars[d] >= answered[y][d]

\* A bar request that is answered from the cache gets every day of its range,
\* unless the cached days have a hole: the first and the last day decide.
CacheAnswersWhole ==
    [][\A p \in Proc :
          (At(p, "read") /\ call[p].kind = "bars" /\ call'[p].stage = "done") =>
              LET c == call'[p]
                  days == Present(file[c.sym].bars)
                  hole == \E a, b \in days : \E d \in a .. b : d \notin days
              IN hole \/ \A d \in c.from .. c.to : c.bars[d] # 0]_cacheVars
=============================================================================

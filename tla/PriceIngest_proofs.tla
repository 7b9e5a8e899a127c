------------------------- MODULE PriceIngest_proofs -------------------------
(***************************************************************************)
(* Proofs about PriceIngest and the PriceCache it runs on, for every       *)
(* number of processes, symbols, days, jobs and clients.                   *)
(***************************************************************************)
EXTENDS PriceIngest, FiniteSetTheorems, SequenceTheorems, TLAPS

History == [Day -> Nat]
Stage == {"idle", "read", "download", "merge", "open", "close", "done", "raised"}
Call == [stage : Stage, kind : {"bars", "prices", "liquidity"}, sym : Symbol,
         from : Day, to : Day, bars : History, rivals : SUBSET History]

CacheTypes ==
    /\ file \in [Symbol -> [state : {"absent", "whole", "torn"}, bars : History]]
    /\ rev \in Nat
    /\ call \in [Proc -> Call]
    /\ answered \in [Symbol -> History]
    /\ serial \in BOOLEAN

Writing == {"merge", "open", "close"}

\* What a call holds against the file it is about.
CallOK(p) ==
    LET c == call[p]
        f == file[c.sym]
    IN /\ c.rivals = {}
       /\ c.stage = "merge" => \A d \in Day :
             c.bars[d] # 0 => c.bars[d] >= f.bars[d] /\ c.bars[d] <= rev
       /\ c.stage = "open" => \A d \in Day : c.bars[d] >= f.bars[d] /\ c.bars[d] <= rev
       /\ c.stage = "close" =>
             /\ f.state = "torn"
             /\ \A d \in Day : c.bars[d] >= answered[c.sym][d] /\ c.bars[d] <= rev
       /\ c.stage = "done" /\ c.kind = "bars" => f.state # "absent"

FilesOK ==
    \A y \in Symbol :
        /\ \A d \in Day : file[y].bars[d] <= rev
        /\ file[y].state = "absent" => \A d \in Day : file[y].bars[d] = 0

OneWriter ==
    \A p, q \in Proc :
        p # q /\ call[p].sym = call[q].sym
            => ~(call[p].stage \in Writing /\ call[q].stage \in Writing)

SerialOK == FilesOK /\ OneWriter /\ \A p \in Proc : CallOK(p)
CacheInv == CacheTypes /\ AnsweredStaysCached /\ (serial => SerialOK)

-----------------------------------------------------------------------------
(***************************************************************************)
(* The cache: what a step leaves alone, and one lemma per step.            *)
(***************************************************************************)

\* Only the stage and the bars of one call change.
Moved(p, stage, bars) ==
    /\ call'[p].stage = stage /\ call'[p].bars = bars
    /\ call'[p].kind = call[p].kind /\ call'[p].sym = call[p].sym
    /\ call'[p].from = call[p].from /\ call'[p].to = call[p].to
    /\ call'[p].rivals = call[p].rivals
    /\ \A q \in Proc \ {p} : call'[q] = call[q]

\* What the jobs rely on: no file goes away and no call changes its subject.
FilesKept ==
    serial' => serial /\ \A y \in Symbol : file[y].state # "absent" => file'[y].state # "absent"
CallsKept ==
    \A p \in Proc : call'[p].stage # "idle" =>
        call[p].stage # "idle" /\ call'[p].kind = call[p].kind /\ call'[p].sym = call[p].sym

LEMMA CallTypes ==
    ASSUME CacheTypes, NEW p \in Proc
    PROVE  /\ call[p] \in Call /\ call[p].stage \in Stage /\ call[p].sym \in Symbol
           /\ call[p].kind \in {"bars", "prices", "liquidity"}
           /\ call[p].from \in Day /\ call[p].to \in Day
           /\ call[p].bars \in History /\ call[p].rivals \subseteq History
           /\ file[call[p].sym].bars \in History
           /\ file[call[p].sym].state \in {"absent", "whole", "torn"}
           /\ answered[call[p].sym] \in History
BY DEF CacheTypes, Call

LEMMA GotoMoves ==
    ASSUME CacheTypes, NEW p \in Proc, NEW st \in Stage, NEW b \in History, Goto(p, st, b)
    PROVE  Moved(p, st, b) /\ call' \in [Proc -> Call]
BY DEF CacheTypes, Goto, Moved, Call

LEMMA FileTypes ==
    ASSUME CacheTypes, NEW y \in Symbol, NEW st \in {"absent", "whole", "torn"},
           NEW b \in History, file' = [file EXCEPT ![y] = [state |-> st, bars |-> b]]
    PROVE  /\ file' \in [Symbol -> [state : {"absent", "whole", "torn"}, bars : History]]
           /\ file'[y].state = st
           /\ \A z \in Symbol \ {y} : file'[z] = file[z]
BY DEF CacheTypes

LEMMA KeptFacts ==
    ASSUME NEW b \in History, NEW D
    PROVE  /\ Kept(b, D) \in History
           /\ \A d \in Day : Kept(b, D)[d] <= b[d]
           /\ \A d \in Day \cap D : Kept(b, D)[d] = b[d]
BY DEF Kept, History

LEMMA NoBarsHistory == NoBars \in History /\ \A d \in Day : NoBars[d] = 0
BY DEF NoBars, History

LEMMA MergedFacts ==
    ASSUME NEW a \in History, NEW b \in History
    PROVE  /\ Merged(a, b) \in History
           /\ \A d \in Day : Merged(a, b)[d] = IF b[d] # 0 THEN b[d] ELSE a[d]
BY DEF Merged, History

\* A call that does not begin to write leaves one writer.
LEMMA OneWriterKept ==
    ASSUME OneWriter, NEW p \in Proc, NEW st, NEW b, Moved(p, st, b),
           st \in Writing => call[p].stage \in Writing
    PROVE  OneWriter'
BY DEF OneWriter, Moved

\* The other calls when the files and the answers stay.
LEMMA OthersOK ==
    ASSUME \A q \in Proc : CallOK(q), NEW p \in Proc, NEW st, NEW b, Moved(p, st, b),
           UNCHANGED <<file, rev, answered>>
    PROVE  \A q \in Proc \ {p} : CallOK(q)'
BY DEF CallOK, Moved

LEMMA MovedKeeps ==
    ASSUME NEW p \in Proc, NEW st, NEW b, Moved(p, st, b), call[p].stage # "idle"
    PROVE  CallsKept
BY DEF Moved, CallsKept

\* A step of a call that only moves it on.
LEMMA QuietMove ==
    ASSUME CacheInv, NEW p \in Proc, NEW st \in Stage, NEW b \in History, Goto(p, st, b),
           UNCHANGED <<file, rev, answered>>, serial' \in BOOLEAN, serial' => serial,
           call[p].stage \notin {"idle", "close"},
           serial' => OneWriter' /\ CallOK(p)', st # "close"
    PROVE  CacheInv' /\ FilesKept /\ CallsKept
<1>1. Moved(p, st, b) /\ CacheTypes'
  BY GotoMoves DEF CacheInv, CacheTypes
<1>2. AnsweredStaysCached'
  BY <1>1 DEF CacheInv, AnsweredStaysCached, At, Moved
<1>3. ASSUME serial' PROVE SerialOK'
  <2>1. FilesOK'
    BY <1>3 DEF CacheInv, SerialOK, FilesOK
  <2>2. \A q \in Proc \ {p} : CallOK(q)'
    BY <1>1, <1>3, OthersOK DEF CacheInv, SerialOK
  <2>3. QED
    BY <1>3, <2>1, <2>2 DEF SerialOK
<1>4. FilesKept /\ CallsKept
  BY <1>1, MovedKeeps DEF FilesKept
<1>5. QED
  BY <1>1, <1>2, <1>3, <1>4 DEF CacheInv

LEMMA RaiseInv ==
    ASSUME CacheInv, NEW p \in Proc, Raise(p), UNCHANGED rev,
           call[p].stage \notin {"idle", "close"}
    PROVE  CacheInv' /\ FilesKept /\ CallsKept
<1>1. Goto(p, "raised", NoBars) /\ UNCHANGED <<file, rev, answered, serial>>
  BY DEF Raise
<1>2. Moved(p, "raised", NoBars)
  BY <1>1, GotoMoves, NoBarsHistory DEF CacheInv, Stage
<1>3. ASSUME serial' PROVE OneWriter' /\ CallOK(p)'
  <2>1. OneWriter'
    BY <1>1, <1>2, <1>3, OneWriterKept DEF CacheInv, SerialOK, Writing
  <2>2. CallOK(p)'
    BY <1>1, <1>2, <1>3 DEF CacheInv, SerialOK, CallOK, Moved
  <2>3. QED
    BY <2>1, <2>2
<1>4. QED
  BY <1>1, <1>3, QuietMove, NoBarsHistory DEF CacheInv, CacheTypes, Stage

\* An answer from the cache: some of the bars of a file that is not torn.
LEMMA AnswerInv ==
    ASSUME CacheInv, NEW p \in Proc, NEW b \in History, At(p, "read"), Answer(p, b), ~Torn(p),
           \A d \in Day : b[d] <= Cached(p)[d],
           call[p].kind = "bars" => file[call[p].sym].state # "absent",
           UNCHANGED <<file, serial, rev>>
    PROVE  CacheInv' /\ FilesKept /\ CallsKept
<1>1. Moved(p, "done", b) /\ call' \in [Proc -> Call]
  BY GotoMoves DEF CacheInv, Answer, Stage
<1>2. call[p].sym \in Symbol /\ Cached(p) \in History
  BY CallTypes DEF CacheInv, Cached
<1>3. /\ answered' \in [Symbol -> History]
      /\ \A y \in Symbol : y # call[p].sym => answered'[y] = answered[y]
      /\ \A d \in Day : answered'[call[p].sym][d] =
            IF b[d] > answered[call[p].sym][d] THEN b[d] ELSE answered[call[p].sym][d]
  BY <1>2 DEF CacheInv, CacheTypes, Answer, History
<1>4. CacheTypes'
  BY <1>1, <1>3 DEF CacheInv, CacheTypes
<1>5. ASSUME serial' PROVE SerialOK'
  <2>1. FilesOK' /\ OneWriter'
    BY <1>1, <1>5, OneWriterKept DEF CacheInv, SerialOK, FilesOK, Writing
  <2>2. CallOK(p)'
    BY <1>1, <1>5 DEF CacheInv, SerialOK, CallOK, Moved
  <2>3. ASSUME NEW q \in Proc \ {p} PROVE CallOK(q)'
    <3>1. CASE call[q].sym = call[p].sym
      <4>1. call[q].stage # "close"
        BY <1>5, <3>1 DEF CacheInv, SerialOK, CallOK, Torn
      <4>2. QED
        BY <1>1, <1>5, <4>1 DEF CacheInv, SerialOK, CallOK, Moved
    <3>2. CASE call[q].sym # call[p].sym
      <4>1. call[q].sym \in Symbol
        BY CallTypes DEF CacheInv
      <4>2. QED
        BY <1>1, <1>3, <1>5, <3>2, <4>1 DEF CacheInv, SerialOK, CallOK, Moved
    <3>3. QED
      BY <3>1, <3>2
  <2>4. QED
    BY <2>1, <2>2, <2>3 DEF SerialOK
<1>6. AnsweredStaysCached'
  <2> SUFFICES ASSUME serial', NEW y \in Symbol,
                      \A q \in Proc : call'[q].sym = y => call'[q].stage # "close",
                      NEW d \in Day
               PROVE  file'[y].bars[d] >= answered'[y][d]
    BY DEF AnsweredStaysCached, At
  <2>1. \A q \in Proc : call[q].sym = y => call[q].stage # "close"
    BY <1>1 DEF Moved, At
  <2>2. file[y].bars[d] >= answered[y][d]
    BY <2>1 DEF CacheInv, AnsweredStaysCached, At
  <2>3. QED
    BY <1>2, <1>3, <2>2 DEF Cached, History
<1>7. FilesKept /\ CallsKept
  BY <1>1, MovedKeeps DEF FilesKept, At
<1>8. QED
  BY <1>4, <1>5, <1>6, <1>7 DEF CacheInv

LEMMA CacheReadInv ==
    ASSUME CacheInv, NEW p \in Proc, CacheRead(p)
    PROVE  CacheInv' /\ FilesKept /\ CallsKept
<1> DEFINE c == call[p]
           taken == IF c.kind = "liquidity" THEN Liquidity(Cached(p), c.to)
                    ELSE Slice(Cached(p), c.from, c.to)
<1>1. At(p, "read") /\ UNCHANGED rev /\ Cached(p) \in History /\ c.sym \in Symbol
  BY CallTypes DEF CacheInv, CacheRead, Cached
<1>2. taken \in History /\ \A d \in Day : taken[d] <= Cached(p)[d]
  BY <1>1, KeptFacts DEF Liquidity, Slice
<1>3. CASE Raise(p)
  BY <1>1, <1>3, RaiseInv DEF At
<1>4. CASE /\ ~Torn(p) /\ Answer(p, taken) /\ UNCHANGED <<file, serial>>
           /\ c.kind # "bars" \/ Covers(Cached(p), c.from, c.to)
  <2>1. CASE serial
    <3>1. c.kind = "bars" => file[c.sym].state # "absent"
      BY <1>1, <1>4, <2>1 DEF CacheInv, SerialOK, FilesOK, Covers, Present, Cached
    <3>2. QED
      BY <1>1, <1>2, <1>4, <3>1, AnswerInv
  <2>2. CASE ~serial
    <3>1. Moved(p, "done", taken) /\ call' \in [Proc -> Call]
      BY <1>2, <1>4, GotoMoves DEF CacheInv, Answer, Stage
    <3>2. answered' \in [Symbol -> History]
      BY <1>1, <1>2, <1>4 DEF CacheInv, CacheTypes, Answer, History
    <3>3. QED
      BY <1>1, <1>4, <2>2, <3>1, <3>2, MovedKeeps
         DEF CacheInv, CacheTypes, AnsweredStaysCached, FilesKept, At
  <2>3. QED
    BY <2>1, <2>2
<1>5. CASE Goto(p, "download", NoBars) /\ UNCHANGED <<file, answered, serial>>
  <2>1. Moved(p, "download", NoBars)
    BY <1>5, GotoMoves, NoBarsHistory DEF CacheInv, Stage
  <2>2. ASSUME serial' PROVE OneWriter' /\ CallOK(p)'
    <3>1. OneWriter'
      BY <1>5, <2>1, <2>2, OneWriterKept DEF CacheInv, SerialOK, Writing
    <3>2. CallOK(p)'
      BY <1>5, <2>1, <2>2 DEF CacheInv, SerialOK, CallOK, Moved
    <3>3. QED
      BY <3>1, <3>2
  <2>3. QED
    BY <1>1, <1>5, <2>2, QuietMove, NoBarsHistory DEF CacheInv, CacheTypes, Stage, At
<1>6. QED
  BY <1>3, <1>4, <1>5 DEF CacheRead

LEMMA NormalizeFacts ==
    ASSUME NEW raw, raw \in [Day -> Int], \A d \in Day : raw[d] \in {Blank, 0, rev}, rev \in Nat
    PROVE  Normalize(raw) \in History /\ \A d \in Day : Normalize(raw)[d] \in {0, rev}
BY DEF Normalize, History, Blank

LEMMA DownloadInv ==
    ASSUME CacheInv, NEW p \in Proc, Download(p)
    PROVE  CacheInv' /\ FilesKept /\ CallsKept
<1>1. At(p, "download") /\ UNCHANGED rev /\ rev \in Nat
  BY DEF Download, CacheInv, CacheTypes
<1>2. CASE Raise(p)
  BY <1>1, <1>2, RaiseInv DEF At
<1>3. CASE ~Raise(p)
  <2>1. PICK raw : /\ raw \in [Day -> Int] /\ \A d \in Day : raw[d] \in {Blank, 0, rev}
                   /\ Goto(p, "merge", Normalize(raw))
                   /\ UNCHANGED <<file, answered>>
                   /\ serial' = (serial /\ \A q \in Proc \ {p} :
                         call[q].sym = call[p].sym => call[q].stage \notin Writing)
    <3> DEFINE c == call[p]
               sessions == [d \in Day |-> IF d \in c.from .. c.to - 1 THEN rev ELSE 0]
               holed(D) == [d \in Day |-> IF d \in D THEN Blank ELSE sessions[d]]
    <3>1. sessions \in [Day -> Int] /\ \A d \in Day : sessions[d] \in {Blank, 0, rev}
      BY <1>1
    <3>2. \A D : holed(D) \in [Day -> Int] /\ \A d \in Day : holed(D)[d] \in {Blank, 0, rev}
      BY <3>1 DEF Blank
    <3>3. /\ UNCHANGED <<file, answered>>
          /\ serial' = (serial /\ \A q \in Proc \ {p} :
                call[q].sym = call[p].sym => call[q].stage \notin Writing)
          /\ \/ Goto(p, "merge", Normalize(sessions))
             \/ \E D : Goto(p, "merge", Normalize(holed(D)))
      BY <1>3 DEF Download, Writing
    <3> HIDE DEF sessions, holed
    <3>4. QED
      BY <3>1, <3>2, <3>3
  <2> DEFINE new == Normalize(raw)
  <2>2. new \in History /\ \A d \in Day : new[d] \in {0, rev}
    BY <1>1, <2>1, NormalizeFacts
  <2> HIDE DEF new
  <2>3. Goto(p, "merge", new) /\ Moved(p, "merge", new)
    BY <2>1, <2>2, GotoMoves DEF CacheInv, Stage, new
  <2>4. ASSUME serial' PROVE OneWriter' /\ CallOK(p)'
    <3>1. serial /\ \A q \in Proc \ {p} : call[q].sym = call[p].sym => call[q].stage \notin Writing
      BY <2>1, <2>4
    <3>2. OneWriter'
      BY <2>3, <3>1 DEF CacheInv, SerialOK, OneWriter, Moved
    <3>3. call[p].sym \in Symbol /\ file[call[p].sym].bars \in History
      BY CallTypes DEF CacheInv
    <3>4. \A d \in Day : new[d] # 0 => new[d] >= file[call[p].sym].bars[d] /\ new[d] <= rev
      BY <1>1, <2>2, <3>1, <3>3 DEF CacheInv, SerialOK, FilesOK
    <3>5. CallOK(p)'
      BY <1>1, <2>1, <2>3, <3>1, <3>4 DEF CacheInv, SerialOK, CallOK, Moved
    <3>6. QED
      BY <3>2, <3>5
  <2>5. serial' \in BOOLEAN /\ (serial' => serial)
    BY <2>1 DEF CacheInv, CacheTypes
  <2>6. QED
    BY <1>1, <2>1, <2>2, <2>3, <2>4, <2>5, QuietMove DEF Stage, At
<1>4. QED
  BY <1>2, <1>3

LEMMA MergeReadInv ==
    ASSUME CacheInv, NEW p \in Proc, MergeRead(p)
    PROVE  CacheInv' /\ FilesKept /\ CallsKept
<1>1. At(p, "merge") /\ UNCHANGED rev
  BY DEF MergeRead
<1>2. CASE Raise(p)
  BY <1>1, <1>2, RaiseInv DEF At
<1>3. CASE ~Raise(p)
  <2> DEFINE f == Cached(p)
             bars == Merged(f, call[p].bars)
  <2>1. Goto(p, "open", bars) /\ UNCHANGED <<file, answered, serial>>
    BY <1>3 DEF MergeRead
  <2>2. /\ f \in History /\ call[p].bars \in History /\ call[p].sym \in Symbol
        /\ f = file[call[p].sym].bars
    BY CallTypes DEF CacheInv, Cached
  <2>3. bars \in History /\ \A d \in Day : bars[d] = IF call[p].bars[d] # 0
                                                   THEN call[p].bars[d] ELSE f[d]
    BY <2>2, MergedFacts
  <2> HIDE DEF bars, f
  <2>4. Moved(p, "open", bars)
    BY <2>1, <2>3, GotoMoves DEF CacheInv, Stage
  <2>5. ASSUME serial' PROVE OneWriter' /\ CallOK(p)'
    <3>1. OneWriter'
      BY <1>1, <2>1, <2>4, <2>5, OneWriterKept DEF CacheInv, SerialOK, Writing, At
    <3>2. \A d \in Day : bars[d] >= f[d] /\ bars[d] <= rev
      BY <1>1, <2>1, <2>2, <2>3, <2>5 DEF CacheInv, SerialOK, FilesOK, CallOK, At, History
    <3>3. CallOK(p)'
      BY <1>1, <2>1, <2>2, <2>4, <2>5, <3>2 DEF CacheInv, SerialOK, CallOK, Moved
    <3>4. QED
      BY <3>1, <3>3
  <2>6. QED
    BY <1>1, <2>1, <2>3, <2>5, QuietMove DEF CacheInv, CacheTypes, Stage, At
<1>4. QED
  BY <1>2, <1>3

\* The file is truncated: from here the call holds what was ever answered.
LEMMA OpenFileInv ==
    ASSUME CacheInv, NEW p \in Proc, OpenFile(p)
    PROVE  CacheInv' /\ FilesKept /\ CallsKept
<1> DEFINE y == call[p].sym
           bars == call[p].bars
<1>1. At(p, "open") /\ UNCHANGED <<rev, answered, serial>>
  BY DEF OpenFile
<1>2. y \in Symbol /\ bars \in History
  BY CallTypes DEF CacheInv
<1>3. Moved(p, "close", bars) /\ call' \in [Proc -> Call]
  BY <1>2, GotoMoves DEF CacheInv, OpenFile, Stage
<1>4. /\ file'[y] = [state |-> "torn", bars |-> NoBars]
      /\ \A z \in Symbol \ {y} : file'[z] = file[z]
  BY <1>2 DEF OpenFile, CacheInv, CacheTypes
<1>5. CacheTypes'
  <2>1. file' \in [Symbol -> [state : {"absent", "whole", "torn"}, bars : History]]
    BY <1>2, NoBarsHistory DEF OpenFile, CacheInv, CacheTypes
  <2>2. QED
    BY <1>1, <1>3, <2>1 DEF CacheInv, CacheTypes
<1>6. AnsweredStaysCached'
  <2> SUFFICES ASSUME serial', NEW z \in Symbol,
                      \A q \in Proc : call'[q].sym = z => call'[q].stage # "close",
                      NEW d \in Day
               PROVE  file'[z].bars[d] >= answered'[z][d]
    BY DEF AnsweredStaysCached, At
  <2>1. z # y
    BY <1>3 DEF Moved
  <2>2. \A q \in Proc : call[q].sym = z => call[q].stage # "close"
    BY <1>3, <2>1 DEF Moved
  <2>3. QED
    BY <1>1, <1>4, <2>1, <2>2 DEF CacheInv, AnsweredStaysCached, At
<1>7. ASSUME serial' PROVE SerialOK'
  <2>1. FilesOK'
    <3>1. rev \in Nat
      BY DEF CacheInv, CacheTypes
    <3>2. QED
      BY <1>1, <1>4, <1>7, <3>1, NoBarsHistory DEF CacheInv, SerialOK, FilesOK
  <2>2. OneWriter'
    BY <1>1, <1>3, <1>7, OneWriterKept DEF CacheInv, SerialOK, Writing, At
  <2>3. CallOK(p)'
    <3>1. \A q \in Proc : call[q].sym = y => call[q].stage # "close"
      BY <1>1, <1>7 DEF CacheInv, SerialOK, OneWriter, At, Writing
    <3>2. \A d \in Day : /\ bars[d] <= rev /\ bars[d] >= file[y].bars[d]
                         /\ file[y].bars[d] >= answered[y][d]
      BY <1>1, <1>2, <1>7, <3>1
         DEF CacheInv, SerialOK, CallOK, AnsweredStaysCached, At
    <3>3. file[y].bars \in History /\ answered[y] \in History
      BY CallTypes DEF CacheInv
    <3>4. \A d \in Day : bars[d] <= rev /\ bars[d] >= answered[y][d]
      BY <1>2, <3>2, <3>3 DEF History
    <3>5. call[p].rivals = {}
      BY <1>1, <1>7 DEF CacheInv, SerialOK, CallOK
    <3>6. QED
      BY <1>1, <1>3, <1>4, <3>4, <3>5 DEF CallOK, Moved
  <2>4. ASSUME NEW q \in Proc \ {p} PROVE CallOK(q)'
    <3>1. CASE call[q].sym = y
      <4>1. call[q].stage \notin Writing
        BY <1>1, <1>7, <3>1 DEF CacheInv, SerialOK, OneWriter, At, Writing
      <4>2. QED
        BY <1>1, <1>3, <1>4, <1>7, <3>1, <4>1 DEF CacheInv, SerialOK, CallOK, Moved, Writing
    <3>2. CASE call[q].sym # y
      <4>1. file'[call[q].sym] = file[call[q].sym]
        BY <1>4, <3>2, CallTypes DEF CacheInv
      <4>2. QED
        BY <1>1, <1>3, <1>7, <4>1 DEF CacheInv, SerialOK, CallOK, Moved
    <3>3. QED
      BY <3>1, <3>2
  <2>5. QED
    BY <2>1, <2>2, <2>3, <2>4 DEF SerialOK
<1>8. FilesKept /\ CallsKept
  BY <1>1, <1>3, <1>4, MovedKeeps DEF FilesKept, At
<1>9. QED
  BY <1>5, <1>6, <1>7, <1>8 DEF CacheInv

\* The types after a close, whoever else had the file open.
LEMMA CloseFileTypes ==
    ASSUME CacheInv, NEW p \in Proc, CloseFile(p)
    PROVE  /\ CacheTypes' /\ FilesKept /\ CallsKept
           /\ \A q \in Proc \ {p} : call'[q].stage = call[q].stage
<1> DEFINE c == call[p]
           others == {q \in Proc \ {p} : At(q, "close") /\ call[q].sym = c.sym}
           slice == Slice(c.bars, c.from, c.to)
           noted == [call EXCEPT ![p].stage = "done", ![p].bars = slice, ![p].rivals = {}]
           grown(q) == [noted[q] EXCEPT !.rivals = @ \cup {c.bars}]
<1>1. /\ At(p, "close") /\ c.sym \in Symbol /\ c.bars \in History
      /\ c.rivals \subseteq History /\ UNCHANGED <<rev, serial>>
  BY CallTypes DEF CacheInv, CloseFile
<1>2. slice \in History
  BY <1>1, KeptFacts DEF Slice
<1> HIDE DEF slice
<1>3. noted \in [Proc -> Call]
  <2>1. [call[p] EXCEPT !.stage = "done", !.bars = slice, !.rivals = {}] \in Call
    BY <1>2, CallTypes DEF CacheInv, Call, Stage
  <2>2. noted = [call EXCEPT ![p] = [call[p] EXCEPT !.stage = "done", !.bars = slice,
                                                    !.rivals = {}]]
    BY DEF CacheInv, CacheTypes, Call
  <2>3. QED
    BY <2>1, <2>2 DEF CacheInv, CacheTypes
<1>4. \A q \in Proc : /\ noted[q].sym = call[q].sym /\ noted[q].kind = call[q].kind
                       /\ noted[q].stage = IF q = p THEN "done" ELSE call[q].stage
  BY DEF CacheInv, CacheTypes, Call
<1>5. \A q \in Proc : /\ grown(q) \in Call /\ grown(q).sym = noted[q].sym
                       /\ grown(q).kind = noted[q].kind /\ grown(q).stage = noted[q].stage
  <2>1. \A q \in Proc : noted[q] \in Call
    BY <1>3
  <2> HIDE DEF noted
  <2>2. QED
    BY <1>1, <2>1 DEF Call
<1>6. /\ call' = [q \in Proc |-> IF q \in others THEN grown(q) ELSE noted[q]] \/ call' = noted
      /\ \/ UNCHANGED file
         \/ \E bars \in {c.bars} \cup c.rivals :
                file' = [file EXCEPT ![c.sym] = [state |-> "whole", bars |-> bars]]
      /\ answered' = [answered EXCEPT ![c.sym] =
            [d \in Day |-> IF noted[p].bars[d] > @[d] THEN noted[p].bars[d] ELSE @[d]]]
  BY DEF CloseFile, slice
<1>7. noted[p].bars \in History
  BY <1>3 DEF Call
<1> HIDE DEF noted, grown
<1>8. call' \in [Proc -> Call] /\ \A q \in Proc :
         /\ call'[q].sym = call[q].sym /\ call'[q].kind = call[q].kind
         /\ call'[q].stage = IF q = p THEN "done" ELSE call[q].stage
  BY <1>3, <1>4, <1>5, <1>6
<1>9. /\ file' \in [Symbol -> [state : {"absent", "whole", "torn"}, bars : History]]
      /\ \A y \in Symbol : file[y].state # "absent" => file'[y].state # "absent"
  <2>1. CASE UNCHANGED file
    BY <2>1 DEF CacheInv, CacheTypes
  <2>2. ASSUME NEW bars \in History,
               file' = [file EXCEPT ![c.sym] = [state |-> "whole", bars |-> bars]]
        PROVE  /\ file' \in [Symbol -> [state : {"absent", "whole", "torn"}, bars : History]]
               /\ \A y \in Symbol : file[y].state # "absent" => file'[y].state # "absent"
    BY <1>1, <2>2, FileTypes DEF CacheInv
  <2>3. QED
    BY <1>1, <1>6, <2>1, <2>2
<1>10. answered' \in [Symbol -> History]
  <2> PICK b \in History : b = noted[p].bars
    BY <1>7
  <2>1. [d \in Day |-> IF b[d] > answered[c.sym][d] THEN b[d] ELSE answered[c.sym][d]]
           \in History
    BY CallTypes DEF CacheInv, History
  <2>2. QED
    BY <1>1, <1>6, <2>1 DEF CacheInv, CacheTypes
<1>11. QED
  BY <1>1, <1>8, <1>9, <1>10 DEF CacheInv, CacheTypes, FilesKept, CallsKept, At

\* With one writer the file gets the bars the call held.
LEMMA CloseFileAlone ==
    ASSUME CacheInv, NEW p \in Proc, CloseFile(p), serial
    PROVE  /\ Moved(p, "done", Slice(call[p].bars, call[p].from, call[p].to))
           /\ file'[call[p].sym] = [state |-> "whole", bars |-> call[p].bars]
           /\ \A y \in Symbol \ {call[p].sym} :
                 file'[y] = file[y] /\ answered'[y] = answered[y]
           /\ \A d \in Day : answered'[call[p].sym][d] <= call[p].bars[d]
<1> DEFINE c == call[p]
           others == {q \in Proc \ {p} : At(q, "close") /\ call[q].sym = c.sym}
           slice == Slice(c.bars, c.from, c.to)
           noted == [call EXCEPT ![p].stage = "done", ![p].bars = slice, ![p].rivals = {}]
<1>1. At(p, "close") /\ c \in Call /\ c.sym \in Symbol /\ c.bars \in History /\ answered[c.sym] \in History
  BY CallTypes DEF CacheInv, CloseFile
<1>2. c.rivals = {} /\ \A d \in Day : c.bars[d] >= answered[c.sym][d]
  BY <1>1 DEF CacheInv, SerialOK, CallOK, At
<1>3. others = {}
  BY <1>1 DEF CacheInv, SerialOK, OneWriter, Writing, At
<1>4. /\ call' = noted
      /\ file' = [file EXCEPT ![c.sym] = [state |-> "whole", bars |-> c.bars]]
      /\ answered' = [answered EXCEPT ![c.sym] =
            [d \in Day |-> IF noted[p].bars[d] > @[d] THEN noted[p].bars[d] ELSE @[d]]]
  BY <1>2, <1>3 DEF CloseFile
<1>5. slice \in History /\ \A d \in Day : slice[d] <= c.bars[d]
  BY <1>1, KeptFacts DEF Slice
<1> HIDE DEF slice
<1>6. Moved(p, "done", slice)
  BY <1>2, <1>4 DEF Moved, CacheInv, CacheTypes, Call
<1>7. noted[p].bars = slice
  BY DEF CacheInv, CacheTypes, Call
<1>8. \A d \in Day : answered'[c.sym][d] <= c.bars[d]
  BY <1>1, <1>2, <1>4, <1>5, <1>7 DEF CacheInv, CacheTypes, History
<1>9. QED
  BY <1>1, <1>4, <1>6, <1>8 DEF CacheInv, CacheTypes, slice

LEMMA CloseFileInv ==
    ASSUME CacheInv, NEW p \in Proc, CloseFile(p)
    PROVE  CacheInv' /\ FilesKept /\ CallsKept
<1>1. CacheTypes' /\ FilesKept /\ CallsKept /\ At(p, "close") /\ UNCHANGED <<rev, serial>>
  BY CloseFileTypes DEF CloseFile
<1>2. ASSUME serial' PROVE SerialOK' /\ AnsweredStaysCached'
  <2> DEFINE c == call[p]
             y == c.sym
             slice == Slice(c.bars, c.from, c.to)
  <2>1. /\ Moved(p, "done", slice)
        /\ file'[y] = [state |-> "whole", bars |-> c.bars]
        /\ \A z \in Symbol \ {y} : file'[z] = file[z] /\ answered'[z] = answered[z]
        /\ \A d \in Day : answered'[y][d] <= c.bars[d]
    BY <1>1, <1>2, CloseFileAlone
  <2> HIDE DEF slice
  <2>2. /\ y \in Symbol /\ c.bars \in History /\ c.rivals = {}
        /\ \A d \in Day : c.bars[d] <= rev
    BY <1>1, <1>2, CallTypes DEF CacheInv, SerialOK, CallOK, At
  <2>3. FilesOK'
    BY <1>1, <1>2, <2>1, <2>2 DEF CacheInv, SerialOK, FilesOK
  <2>4. OneWriter'
    BY <1>1, <1>2, <2>1, OneWriterKept DEF CacheInv, SerialOK, Writing
  <2>5. CallOK(p)'
    BY <2>1, <2>2 DEF CallOK, Moved
  <2>6. ASSUME NEW q \in Proc \ {p} PROVE CallOK(q)'
    <3>1. CASE call[q].sym = y
      <4>1. call[q].stage \notin Writing
        BY <1>1, <1>2, <3>1 DEF CacheInv, SerialOK, OneWriter, At, Writing
      <4>2. QED
        BY <1>1, <1>2, <2>1, <3>1, <4>1 DEF CacheInv, SerialOK, CallOK, Moved, Writing
    <3>2. CASE call[q].sym # y
      <4>1. file'[call[q].sym] = file[call[q].sym] /\ answered'[call[q].sym] = answered[call[q].sym]
        BY <2>1, <3>2, CallTypes DEF CacheInv
      <4>2. QED
        BY <1>1, <1>2, <2>1, <4>1 DEF CacheInv, SerialOK, CallOK, Moved
    <3>3. QED
      BY <3>1, <3>2
  <2>7. AnsweredStaysCached'
    <3> SUFFICES ASSUME NEW z \in Symbol,
                        \A q \in Proc : call'[q].sym = z => call'[q].stage # "close",
                        NEW d \in Day
                 PROVE  file'[z].bars[d] >= answered'[z][d]
      BY DEF AnsweredStaysCached, At
    <3>1. CASE z = y
      <4>1. answered'[y][d] \in Nat /\ c.bars[d] \in Nat
        BY <1>1, <2>2 DEF CacheTypes, History
      <4>2. QED
        BY <2>1, <3>1, <4>1
    <3>2. CASE z # y
      <4>1. \A q \in Proc : call[q].sym = z => call[q].stage # "close"
        BY <2>1, <3>2 DEF Moved
      <4>2. QED
        BY <1>1, <1>2, <2>1, <3>2, <4>1 DEF CacheInv, AnsweredStaysCached, At
    <3>3. QED
      BY <3>1, <3>2
  <2>8. QED
    BY <2>3, <2>4, <2>5, <2>6, <2>7 DEF SerialOK
<1>3. QED
  BY <1>1, <1>2 DEF CacheInv, AnsweredStaysCached

LEMMA CallFailsInv ==
    ASSUME CacheInv, NEW p \in Proc, CallFails(p)
    PROVE  CacheInv' /\ FilesKept /\ CallsKept
<1>1. /\ call[p].stage \in {"read", "download", "merge", "open", "close"}
      /\ Goto(p, "raised", NoBars) /\ UNCHANGED <<rev, answered>>
  BY DEF CallFails
<1>2. CASE call[p].stage # "close"
  <2>1. Raise(p)
    BY <1>1, <1>2 DEF CallFails, Raise, At
  <2>2. QED
    BY <1>1, <1>2, <2>1, RaiseInv
<1>3. CASE call[p].stage = "close"
  <2>1. serial' = FALSE /\ \E s \in {"torn", "absent"} :
           file' = [file EXCEPT ![call[p].sym] = [state |-> s, bars |-> NoBars]]
    BY <1>3 DEF CallFails, At
  <2>2. Moved(p, "raised", NoBars) /\ call' \in [Proc -> Call]
    BY <1>1, GotoMoves, NoBarsHistory DEF CacheInv, Stage
  <2>3. CacheTypes'
    <3>1. file' \in [Symbol -> [state : {"absent", "whole", "torn"}, bars : History]]
      <4> PICK st \in {"torn", "absent"} :
              file' = [file EXCEPT ![call[p].sym] = [state |-> st, bars |-> NoBars]]
        BY <2>1
      <4>1. call[p].sym \in Symbol /\ CacheTypes
        BY CallTypes DEF CacheInv
      <4>2. QED
        BY <4>1, FileTypes, NoBarsHistory
    <3>2. QED
      BY <1>1, <2>1, <2>2, <3>1 DEF CacheInv, CacheTypes
  <2>4. QED
    BY <1>3, <2>1, <2>2, <2>3, MovedKeeps DEF CacheInv, AnsweredStaysCached, FilesKept
<1>4. QED
  BY <1>2, <1>3

\* A call that is put back to idle, or started, by its process.
LEMMA IdleFacts ==
    /\ Idle \in Call /\ Idle.stage = "idle" /\ Idle.rivals = {}
    /\ Idle.sym \in Symbol
BY NoBarsHistory, CacheAssumption DEF Idle, Call, Stage, Day

LEMMA ResetInv ==
    ASSUME CacheInv, NEW p \in Proc, NEW new \in Call, call' = [call EXCEPT ![p] = new],
           new.stage \in {"idle", "read"}, new.rivals = {},
           UNCHANGED <<file, rev, answered>>, serial' \in BOOLEAN,
           serial' => serial /\ call[p].stage # "close"
    PROVE  CacheInv' /\ FilesKept
<1>1. CacheTypes' /\ FilesKept
  BY DEF CacheInv, CacheTypes, FilesKept
<1>2. call'[p] = new /\ \A q \in Proc \ {p} : call'[q] = call[q]
  BY DEF CacheInv, CacheTypes
<1>3. ASSUME serial' PROVE SerialOK'
  <2>1. FilesOK' /\ OneWriter'
    BY <1>2, <1>3 DEF CacheInv, SerialOK, FilesOK, OneWriter, Writing
  <2>2. \A q \in Proc : CallOK(q)'
    BY <1>2, <1>3 DEF CacheInv, SerialOK, CallOK
  <2>3. QED
    BY <2>1, <2>2 DEF SerialOK
<1>4. AnsweredStaysCached'
  BY <1>2 DEF CacheInv, AnsweredStaysCached, At
<1>5. QED
  BY <1>1, <1>3, <1>4 DEF CacheInv

LEMMA ProcessDiesInv ==
    ASSUME CacheInv, NEW p \in Proc, ProcessDies(p) PROVE CacheInv' /\ FilesKept
BY ResetInv, IdleFacts DEF ProcessDies, At, CacheInv, CacheTypes

LEMMA ReturnInv ==
    ASSUME CacheInv, NEW p \in Proc, Return(p) PROVE CacheInv' /\ FilesKept
BY ResetInv, IdleFacts DEF Return, CacheInv, CacheTypes

LEMMA StartInv ==
    ASSUME CacheInv, NEW p \in Proc, NEW kind \in {"bars", "prices", "liquidity"},
           NEW y \in Symbol, NEW range \in Ranges, Start(p, kind, y, range)
    PROVE  /\ CacheInv' /\ FilesKept
           /\ call'[p].kind = kind /\ call'[p].sym = y
           /\ \A q \in Proc \ {p} : call'[q] = call[q]
<1> DEFINE new == [Idle EXCEPT !.stage = "read", !.kind = kind, !.sym = y,
                               !.from = range[1], !.to = range[2]]
<1>1. range[1] \in Day /\ range[2] \in Day
  BY CacheAssumption
<1>2. /\ new \in Call /\ new.stage = "read" /\ new.rivals = {}
      /\ new.kind = kind /\ new.sym = y
  BY <1>1, IdleFacts DEF Call, Stage
<1>3. /\ call' = [call EXCEPT ![p] = new] /\ At(p, "idle")
      /\ UNCHANGED <<file, rev, answered, serial>>
  BY DEF Start
<1> HIDE DEF new
<1>4. CacheInv' /\ FilesKept
  BY <1>2, <1>3, ResetInv DEF At, CacheInv, CacheTypes
<1>5. QED
  BY <1>2, <1>3, <1>4 DEF CacheInv, CacheTypes

LEMMA RestateInv == ASSUME CacheInv, Restate PROVE CacheInv' /\ FilesKept /\ CallsKept
<1>1. /\ rev \in Nat /\ rev' = rev + 1
      /\ UNCHANGED <<file, call, answered, serial>>
  BY DEF Restate, CacheInv, CacheTypes
<1>2. ASSUME serial' PROVE SerialOK'
  <2>1. FilesOK'
    BY <1>1, <1>2 DEF CacheInv, CacheTypes, SerialOK, FilesOK, History
  <2>2. OneWriter'
    BY <1>1, <1>2 DEF CacheInv, SerialOK, OneWriter
  <2>3. ASSUME NEW p \in Proc PROVE CallOK(p)'
    <3>1. call[p].bars \in History
      BY CallTypes DEF CacheInv
    <3>2. QED
      BY <1>1, <1>2, <3>1 DEF CacheInv, SerialOK, CallOK, History
  <2>4. QED
    BY <2>1, <2>2, <2>3 DEF SerialOK
<1>3. QED
  BY <1>1, <1>2 DEF CacheInv, CacheTypes, AnsweredStaysCached, At, FilesKept, CallsKept

LEMMA CacheStutter ==
    ASSUME CacheInv, UNCHANGED cacheVars PROVE CacheInv' /\ FilesKept /\ CallsKept
BY DEF cacheVars, CacheInv, CacheTypes, AnsweredStaysCached, At, SerialOK, FilesOK, OneWriter,
       CallOK, FilesKept, CallsKept

LEMMA CacheStep ==
    ASSUME CacheInv, NEW p \in Proc, Step(p) \/ CallFails(p)
    PROVE  CacheInv' /\ FilesKept /\ CallsKept
BY CacheReadInv, DownloadInv, MergeReadInv, OpenFileInv, CloseFileInv, CallFailsInv DEF Step

LEMMA CacheInit == ASSUME Init PROVE CacheInv
<1>1. PICK left \in [Symbol -> Earlier] :
          /\ file = [y \in Symbol |-> [state |-> IF left[y] = {} THEN "absent" ELSE "whole",
                                     bars |-> [d \in Day |-> IF d \in left[y] THEN 1 ELSE 0]]]
          /\ answered = [y \in Symbol |-> file[y].bars]
  BY DEF Init
<1>2. /\ file \in [Symbol -> [state : {"absent", "whole", "torn"}, bars : History]]
      /\ \A y \in Symbol : \A d \in Day : file[y].bars[d] \in {0, 1}
      /\ \A y \in Symbol : file[y].state = "absent" => \A d \in Day : file[y].bars[d] = 0
  BY <1>1 DEF History
<1>3. rev = 1 /\ call = [p \in Proc |-> Idle] /\ serial = TRUE
  BY DEF Init
<1>4. CacheTypes
  BY <1>1, <1>2, <1>3, IdleFacts DEF CacheTypes
<1>5. AnsweredStaysCached
  BY <1>1, <1>2 DEF AnsweredStaysCached
<1>6. SerialOK
  BY <1>2, <1>3, IdleFacts DEF SerialOK, FilesOK, OneWriter, CallOK, Writing
<1>7. QED
  BY <1>4, <1>5, <1>6 DEF CacheInv

\* A call that is read and then answered was answered by its own read.
LEMMA OnlyReadAnswers ==
    ASSUME CacheInv, NEW p \in Proc, At(p, "read"), call'[p].stage = "done",
           NEW q \in Proc, Step(q) \/ CallFails(q)
    PROVE  CacheRead(p)
<1>1. call \in [Proc -> Call]
  BY DEF CacheInv, CacheTypes
<1>2. CASE CloseFile(q)
  BY <1>2, CloseFileTypes DEF CloseFile, At
<1>3. CASE CacheRead(q) /\ q # p
  BY <1>1, <1>3 DEF CacheRead, Raise, Answer, Goto, At
<1>4. CASE Download(q) \/ MergeRead(q) \/ OpenFile(q) \/ CallFails(q)
  <2>1. \E st \in Stage \ {"done"} : \E b : Goto(q, st, b)
    BY <1>4 DEF Download, MergeRead, OpenFile, CallFails, Raise, Stage
  <2>2. QED
    BY <1>1, <2>1 DEF Goto, At
<1>5. QED
  BY <1>2, <1>3, <1>4 DEF Step

LEMMA ReadAnswersWhole ==
    ASSUME CacheInv, NEW p \in Proc, CacheRead(p), call[p].kind = "bars", call'[p].stage = "done"
    PROVE  LET c == call'[p]
               days == Present(file[c.sym].bars)
               hole == \E a, b \in days : \E d \in a .. b : d \notin days
           IN  hole \/ \A d \in c.from .. c.to : c.bars[d] # 0
<1> DEFINE c == call[p]
           days == Present(Cached(p))
           slice == Slice(Cached(p), c.from, c.to)
<1>1. c.from \in Day /\ c.to \in Day /\ Cached(p) \in History
  BY CallTypes DEF CacheInv, Cached
<1>2. slice \in History /\ \A d \in Day \cap (c.from .. c.to) : slice[d] = Cached(p)[d]
  BY <1>1, KeptFacts DEF Slice
<1>3. Covers(Cached(p), c.from, c.to) /\ Goto(p, "done", slice)
  <2>1. ASSUME NEW st, NEW b, Goto(p, st, b) PROVE st = "done"
    BY <2>1 DEF Goto, CacheInv, CacheTypes, Call
  <2>2. ~Raise(p) /\ ~Goto(p, "download", NoBars)
    BY <2>1 DEF Raise
  <2>3. QED
    BY <2>2 DEF CacheRead, Answer
<1> HIDE DEF slice
<1>4. Moved(p, "done", slice)
  BY <1>2, <1>3, GotoMoves DEF CacheInv, Stage
<1>5. PICK a, b \in days : a <= c.from /\ b >= c.to
  BY <1>3 DEF Covers
<1>6. a \in Day /\ b \in Day
  BY DEF Present
<1>7. ASSUME NEW d \in c.from .. c.to, slice[d] = 0
      PROVE  d \in a .. b /\ d \notin days
  BY <1>1, <1>2, <1>5, <1>6, <1>7, CacheAssumption DEF Present, Day
<1>8. QED
  BY <1>4, <1>5, <1>7 DEF Moved, Cached

-----------------------------------------------------------------------------
(***************************************************************************)
(* The jobs.                                                               *)
(***************************************************************************)

Accounted(j) ==
    \A y \in Symbol :
        Count(job[j].ok, y) + Count(job[j].failed, y) = Count(Batches[j].syms, y)

JobRecord == [status : {"none", "queued", "started", "finished", "failed", "gone"},
              ok : Seq(Symbol), failed : Seq(Symbol)]

StreamRecord == [job : Job \cup {NoJob}, state : {"none", "open", "ended"},
                 sent : Nat,
                 last : {"none", "queued", "started", "finished", "failed", "unknown"},
                 heard : BOOLEAN]

JobTypes ==
    /\ queue \in Seq(Job)
    /\ job \in [Job -> JobRecord]
    /\ todo \in [Worker -> [job : Job \cup {NoJob}, left : Seq(Symbol)]]
    /\ stream \in [Client -> StreamRecord]

QueueOK ==
    /\ \A i \in DOMAIN queue : job[queue[i]].status = "queued"
    /\ \A i, k \in DOMAIN queue : queue[i] = queue[k] => i = k

\* What the worker's call of the cache is about.
WorkerCall(w) ==
    call[w].stage # "idle" => /\ todo[w].left # << >>
                              /\ call[w].kind = "bars" /\ call[w].sym = Head(todo[w].left)

WorkerOK(w) ==
    LET j == todo[w].job
        left == todo[w].left
    IN /\ j = NoJob => left = << >>
       /\ j # NoJob =>
             /\ job[j].status = "started"
             /\ \A y \in Symbol : Count(job[j].ok, y) + Count(job[j].failed, y)
                                     + Count(left, y) = Count(Batches[j].syms, y)
             /\ \A v \in Worker : todo[v].job = j => v = w
       /\ WorkerCall(w)

JobOK(j) ==
    /\ job[j].status \in {"none", "queued"} => job[j].ok = << >> /\ job[j].failed = << >>
    /\ job[j].status = "finished" => Accounted(j)
    /\ serial => \A i \in DOMAIN job[j].ok : file[job[j].ok[i]].state # "absent"

StreamOK(c) ==
    LET s == stream[c] IN
    /\ s.state # "none" => s.job # NoJob /\ job[s.job].status # "none"
    /\ s.last \in Terminal => s.state # "none"
    /\ s.last \in {"finished", "failed"} => job[s.job].status \in {s.last, "gone"}
    /\ s.last = "unknown" /\ s.heard => job[s.job].status = "gone"
    /\ s.last = "finished" => Accounted(s.job)

IngestInv ==
    /\ CacheInv
    /\ JobTypes
    /\ QueueOK
    /\ \A w \in Worker : WorkerOK(w)
    /\ \A j \in Job : JobOK(j)
    /\ \A c \in Client : StreamOK(c)

-----------------------------------------------------------------------------
(***************************************************************************)
(* Counting in sequences.                                                  *)
(***************************************************************************)

LEMMA CountType ==
    ASSUME NEW s \in Seq(Symbol), NEW y
    PROVE  /\ Count(s, y) \in Nat
           /\ IsFiniteSet({i \in DOMAIN s : s[i] = y})
<1>1. DOMAIN s = 1 .. Len(s) /\ Len(s) \in Nat
  BY LenProperties
<1>2. IsFiniteSet({i \in DOMAIN s : s[i] = y})
  <2>1. IsFiniteSet(1 .. Len(s))
    BY <1>1, FS_Interval
  <2>2. {i \in DOMAIN s : s[i] = y} \in SUBSET (1 .. Len(s))
    BY <1>1
  <2>3. QED
    BY <2>1, <2>2, FS_Subset
<1>3. QED
  BY <1>2, FS_CardinalityType DEF Count

LEMMA EmptyDomain == DOMAIN << >> = {}
<1>1. << >> \in Seq(Symbol) /\ Len(<< >>) = 0
  BY EmptySeq
<1>2. QED
  BY <1>1, LenProperties

LEMMA CountEmpty == \A y : Count(<< >>, y) = 0
BY EmptyDomain, FS_EmptySet DEF Count

\* One position more or less.
LEMMA CountGrown ==
    ASSUME NEW s \in Seq(Symbol), NEW t \in Seq(Symbol), NEW x, NEW y,
           Len(t) = Len(s) + 1, \A i \in 1 .. Len(s) : t[i] = s[i], t[Len(s) + 1] = x
    PROVE  Count(t, y) = Count(s, y) + (IF x = y THEN 1 ELSE 0)
<1> DEFINE S == {i \in DOMAIN s : s[i] = y}
           T == {i \in DOMAIN t : t[i] = y}
           n == Len(s) + 1
<1>1. DOMAIN s = 1 .. Len(s) /\ Len(s) \in Nat /\ DOMAIN t = 1 .. n
  BY LenProperties
<1>2. IsFiniteSet(S) /\ n \notin S /\ Count(s, y) = Cardinality(S)
  <2>1. IsFiniteSet(S) /\ Count(s, y) = Cardinality(S)
    BY CountType DEF Count
  <2>2. n \notin S
    BY <1>1
  <2>3. QED
    BY <2>1, <2>2
<1>3. CASE x = y
  <2>1. T = S \cup {n}
    BY <1>1, <1>3
  <2>2. QED
    BY <1>2, <1>3, <2>1, FS_AddElement DEF Count
<1>4. CASE x # y
  <2>1. T = S
    BY <1>1, <1>4
  <2>2. Count(s, y) \in Nat /\ Count(t, y) = Count(s, y)
    BY <2>1, CountType DEF Count
  <2>3. QED
    BY <1>4, <2>2
<1>5. QED
  BY <1>3, <1>4

LEMMA CountAppend ==
    ASSUME NEW s \in Seq(Symbol), NEW x \in Symbol, NEW y
    PROVE  Count(Append(s, x), y) = Count(s, y) + (IF x = y THEN 1 ELSE 0)
<1> DEFINE t == Append(s, x)
<1>1. /\ t \in Seq(Symbol) /\ Len(t) = Len(s) + 1
      /\ \A i \in 1 .. Len(s) : t[i] = s[i]
      /\ t[Len(s) + 1] = x
  BY AppendProperties
<1> HIDE DEF t
<1>2. Count(t, y) = Count(s, y) + (IF x = y THEN 1 ELSE 0)
  BY <1>1, CountGrown
<1>3. QED
  BY <1>2 DEF t

LEMMA AppendMembers ==
    ASSUME NEW s \in Seq(Symbol), NEW x \in Symbol
    PROVE  \A i \in DOMAIN Append(s, x) :
              Append(s, x)[i] = x \/ (i \in DOMAIN s /\ Append(s, x)[i] = s[i])
<1> DEFINE t == Append(s, x)
<1>1. t \in Seq(Symbol) /\ Len(t) = Len(s) + 1
  BY AppendProperties
<1>2. (\A i \in 1 .. Len(s) : t[i] = s[i]) /\ t[Len(s) + 1] = x
  BY AppendProperties
<1>3. Len(s) \in Nat /\ DOMAIN s = 1 .. Len(s)
  BY LenProperties
<1> HIDE DEF t
<1>4. DOMAIN t = 1 .. Len(s) + 1
  BY <1>1, LenProperties
<1>5. \A i \in DOMAIN t : t[i] = x \/ (i \in DOMAIN s /\ t[i] = s[i])
  BY <1>2, <1>3, <1>4
<1>6. QED
  BY <1>5 DEF t

LEMMA CountShifted ==
    ASSUME NEW s \in Seq(Symbol), NEW t \in Seq(Symbol), NEW y,
           Len(s) = Len(t) + 1, \A i \in 1 .. Len(t) : t[i] = s[i + 1]
    PROVE  Count(s, y) = Count(t, y) + (IF s[1] = y THEN 1 ELSE 0)
<1> DEFINE S == {i \in DOMAIN s : s[i] = y}
           T == {i \in DOMAIN t : t[i] = y}
           up == [i \in T |-> i + 1]
<1>1. Len(t) \in Nat /\ DOMAIN t = 1 .. Len(t) /\ DOMAIN s = 1 .. Len(t) + 1
  BY LenProperties
<1>2. IsFiniteSet(S) /\ IsFiniteSet(T)
  BY CountType
<1>3. up \in [T -> S \ {1}] /\ \A i \in T : up[i] = i + 1
  BY <1>1
<1>4. \A i, k \in T : up[i] = up[k] => i = k
  BY <1>1, <1>3
<1>5. ASSUME NEW k \in S \ {1} PROVE \E i \in T : up[i] = k
  <2>1. k - 1 \in 1 .. Len(t) /\ s[k] = y /\ k = (k - 1) + 1
    BY <1>1
  <2>2. k - 1 \in T
    BY <1>1, <2>1
  <2>3. QED
    BY <1>3, <2>1, <2>2
<1> HIDE DEF S, T, up
<1>6. ExistsBijection(T, S \ {1})
  <2>1. up \in Injection(T, S \ {1})
    BY <1>3, <1>4 DEF Injection, IsInjective
  <2>2. up \in Surjection(T, S \ {1})
    BY <1>3, <1>5 DEF Surjection
  <2>3. QED
    BY <2>1, <2>2 DEF ExistsBijection, Bijection
<1>7. Cardinality(S \ {1}) = Cardinality(T)
  BY <1>2, <1>6, FS_Bijection
<1>8. Cardinality(S \ {1}) = IF 1 \in S THEN Cardinality(S) - 1 ELSE Cardinality(S)
  BY <1>2, FS_RemoveElement
<1>9. 1 \in S <=> s[1] = y
  BY <1>1 DEF S
<1>10. Cardinality(S) \in Nat /\ Cardinality(T) \in Nat
  BY <1>2, FS_CardinalityType
<1>11. QED
  BY <1>7, <1>8, <1>9, <1>10 DEF Count, S, T

LEMMA CountTail ==
    ASSUME NEW s \in Seq(Symbol), s # << >>, NEW y
    PROVE  Count(s, y) = Count(Tail(s), y) + (IF Head(s) = y THEN 1 ELSE 0)
<1>1. /\ Tail(s) \in Seq(Symbol) /\ Len(Tail(s)) = Len(s) - 1 /\ Len(s) \in Nat
      /\ \A i \in 1 .. Len(Tail(s)) : Tail(s)[i] = s[i + 1]
  BY HeadTailProperties, LenProperties
<1>2. Len(s) = Len(Tail(s)) + 1 /\ Head(s) = s[1]
  BY <1>1
<1>3. QED
  BY <1>1, <1>2, CountShifted

-----------------------------------------------------------------------------
(***************************************************************************)
(* One lemma per step of the jobs, the streams and the API.                *)
(***************************************************************************)

\* Files that stay and jobs whose list of done symbols stays.
LEMMA JobFilesKept ==
    ASSUME JobTypes, FilesKept, NEW j \in Job, JobOK(j), job'[j].ok = job[j].ok
    PROVE  serial' => \A i \in DOMAIN job'[j].ok : file'[job'[j].ok[i]].state # "absent"
<1>1. job[j].ok \in Seq(Symbol)
  BY DEF JobTypes, JobRecord
<1>2. \A i \in DOMAIN job[j].ok : job[j].ok[i] \in Symbol
  BY <1>1, LenProperties, ElementOfSeq
<1>3. QED
  BY <1>2 DEF FilesKept, JobOK

\* A step that only the cache takes.
LEMMA CacheOnly ==
    ASSUME IngestInv, CacheInv', FilesKept, UNCHANGED <<queue, job, todo, stream>>,
           \A w \in Worker : WorkerCall(w)'
    PROVE  IngestInv'
<1>1. JobTypes' /\ QueueOK' /\ \A c \in Client : StreamOK(c)'
  BY DEF IngestInv, JobTypes, QueueOK, StreamOK, Accounted
<1>2. \A w \in Worker : WorkerOK(w)'
  BY DEF IngestInv, WorkerOK
<1>3. \A j \in Job : JobOK(j)'
  BY JobFilesKept DEF IngestInv, JobOK, Accounted
<1>4. QED
  BY <1>1, <1>2, <1>3 DEF IngestInv

LEMMA CallsKeepWorkers ==
    ASSUME \A w \in Worker : WorkerCall(w), CallsKept, UNCHANGED todo
    PROVE  \A w \in Worker : WorkerCall(w)'
BY IngestAssumption DEF WorkerCall, CallsKept

LEMMA CacheStepInv ==
    ASSUME IngestInv, (\E p \in Proc : Cache(p) \/ CacheFails(p)) \/ VendorRestates
    PROVE  IngestInv'
<1>1. CacheInv' /\ FilesKept /\ CallsKept
  BY CacheStep, RestateInv DEF IngestInv, Cache, CacheFails, VendorRestates
<1>2. UNCHANGED <<queue, job, todo, stream>>
  BY DEF Cache, CacheFails, VendorRestates, jobVars
<1>3. QED
  BY <1>1, <1>2, CacheOnly, CallsKeepWorkers DEF IngestInv, WorkerOK

LEMMA ReplyInv == ASSUME IngestInv, NEW p \in Reader, Reply(p) PROVE IngestInv'
<1>1. CacheInv' /\ FilesKept
  BY ReturnInv DEF Reader, IngestInv, Reply
<1>2. \A w \in Worker : call'[w] = call[w]
  BY IngestAssumption DEF Reader, Reply, Return, IngestInv, CacheInv, CacheTypes
<1>3. \A w \in Worker : WorkerCall(w)'
  BY <1>2 DEF Reply, jobVars, IngestInv, WorkerOK, WorkerCall
<1>4. QED
  BY <1>1, <1>3, CacheOnly DEF Reply, jobVars

LEMMA AskInv ==
    ASSUME IngestInv, NEW p \in Reader, NEW y \in Symbol, NEW a \in Asks, Ask(p, a[1], y, a[2])
    PROVE  IngestInv'
<1>1. a[1] \in {"bars", "prices", "liquidity"} /\ a[2] \in Ranges
  BY IngestAssumption
<1>2. CacheInv' /\ FilesKept /\ \A q \in Proc \ {p} : call'[q] = call[q]
  BY <1>1, StartInv DEF Reader, IngestInv, Ask
<1>3. \A w \in Worker : WorkerCall(w)'
  BY <1>2, IngestAssumption DEF Reader, Ask, IngestInv, WorkerOK, WorkerCall
<1>4. QED
  BY <1>2, <1>3, CacheOnly DEF Ask

\* Where a worker with symbols left has its job.
LEMMA WorkerHasJob ==
    ASSUME IngestInv, NEW w \in Worker, todo[w].job # NoJob \/ todo[w].left # << >>
    PROVE  /\ w \in Proc
           /\ todo[w].job \in Job /\ todo[w].left \in Seq(Symbol)
           /\ job[todo[w].job].status = "started"
           /\ job[todo[w].job].ok \in Seq(Symbol) /\ job[todo[w].job].failed \in Seq(Symbol)
BY IngestAssumption DEF IngestInv, WorkerOK, JobTypes, JobRecord

LEMMA NextSymbolInv == ASSUME IngestInv, NEW w \in Worker, NextSymbol(w) PROVE IngestInv'
<1> DEFINE j == todo[w].job
           y == Head(todo[w].left)
<1>1. w \in Proc /\ j \in Job /\ y \in Symbol /\ Batches[j].range \in Ranges
  BY WorkerHasJob, HeadTailProperties, IngestAssumption DEF NextSymbol
<1>2. /\ CacheInv' /\ FilesKept /\ call'[w].kind = "bars" /\ call'[w].sym = y
      /\ \A q \in Proc \ {w} : call'[q] = call[q]
  BY <1>1, StartInv DEF IngestInv, NextSymbol
<1>3. UNCHANGED <<queue, job, todo, stream>> /\ todo[w].left # << >>
  BY DEF NextSymbol, jobVars
<1>4. \A v \in Worker : WorkerCall(v)'
  BY <1>2, <1>3, IngestAssumption DEF IngestInv, WorkerOK, WorkerCall
<1>5. QED
  BY <1>2, <1>3, <1>4, CacheOnly

\* The streams when one job goes on.
LEMMA StreamsKept ==
    ASSUME JobTypes, NEW c \in Client, StreamOK(c), UNCHANGED stream, NEW j \in Job,
           \A k \in Job \ {j} : job'[k] = job[k],
           job'[j].status # "none",
           job[j].status \in {"finished", "failed", "gone"} =>
              /\ job'[j].status \in {job[j].status, "gone"}
              /\ job'[j].ok = job[j].ok /\ job'[j].failed = job[j].failed
    PROVE  StreamOK(c)'
<1>1. stream[c].job \in Job \cup {NoJob}
  BY DEF JobTypes, StreamRecord
<1>2. CASE stream[c].state = "none"
  BY <1>2 DEF StreamOK, Terminal
<1>3. CASE stream[c].state # "none" /\ stream[c].job # j
  <2>1. job'[stream[c].job] = job[stream[c].job]
    BY <1>1, <1>3 DEF StreamOK
  <2>2. QED
    BY <2>1 DEF StreamOK, Accounted
<1>4. CASE stream[c].state # "none" /\ stream[c].job = j
  BY <1>4 DEF StreamOK, Accounted, Terminal
<1>5. QED
  BY <1>2, <1>3, <1>4

\* The other jobs and workers when one job goes on.
LEMMA JobsKept ==
    ASSUME IngestInv, FilesKept, NEW j \in Job, NEW k \in Job \ {j}, job'[k] = job[k]
    PROVE  JobOK(k)'
BY JobFilesKept DEF IngestInv, JobOK, Accounted

LEMMA WorkersKept ==
    ASSUME IngestInv, NEW j \in Job, \A k \in Job \ {j} : job'[k] = job[k],
           NEW v \in Worker, todo'[v] = todo[v], call'[v] = call[v], todo[v].job # j,
           \A u \in Worker : todo'[u].job # NoJob => todo'[u].job \in {j, todo[u].job}
    PROVE  WorkerOK(v)'
<1>1. todo[v].job \in Job \cup {NoJob}
  BY DEF IngestInv, JobTypes
<1>2. QED
  BY <1>1 DEF IngestInv, WorkerOK, WorkerCall

\* Writing a part of a job's record.
LEMMA JobWritten ==
    ASSUME JobTypes, NEW j \in Job
    PROVE  /\ job[j] \in JobRecord
           /\ job[j].ok \in Seq(Symbol) /\ job[j].failed \in Seq(Symbol)
           /\ \A new \in JobRecord : job' = [job EXCEPT ![j] = new] =>
                 /\ job' \in [Job -> JobRecord] /\ job'[j] = new
                 /\ \A k \in Job \ {j} : job'[k] = job[k]
BY DEF JobTypes, JobRecord

LEMMA StatusWritten ==
    ASSUME JobTypes, NEW j \in Job,
           NEW st \in {"none", "queued", "started", "finished", "failed", "gone"},
           job' = [job EXCEPT ![j].status = st]
    PROVE  /\ job' \in [Job -> JobRecord] /\ \A k \in Job \ {j} : job'[k] = job[k]
           /\ job'[j].status = st
           /\ job'[j].ok = job[j].ok /\ job'[j].failed = job[j].failed
<1> DEFINE new == [job[j] EXCEPT !.status = st]
<1>1. new \in JobRecord /\ new.status = st /\ new.ok = job[j].ok /\ new.failed = job[j].failed
  BY JobWritten DEF JobRecord
<1>2. job' = [job EXCEPT ![j] = new]
  OBVIOUS
<1> HIDE DEF new
<1>3. QED
  BY <1>1, <1>2, JobWritten

LEMMA OkWritten ==
    ASSUME JobTypes, NEW j \in Job, NEW ok \in Seq(Symbol), job' = [job EXCEPT ![j].ok = ok]
    PROVE  /\ job' \in [Job -> JobRecord] /\ \A k \in Job \ {j} : job'[k] = job[k]
           /\ job'[j].status = job[j].status
           /\ job'[j].ok = ok /\ job'[j].failed = job[j].failed
<1> DEFINE new == [job[j] EXCEPT !.ok = ok]
<1>1. /\ new \in JobRecord /\ new.status = job[j].status
      /\ new.ok = ok /\ new.failed = job[j].failed
  BY JobWritten DEF JobRecord
<1>2. job' = [job EXCEPT ![j] = new]
  OBVIOUS
<1> HIDE DEF new
<1>3. QED
  BY <1>1, <1>2, JobWritten

LEMMA FailedWritten ==
    ASSUME JobTypes, NEW j \in Job, NEW failed \in Seq(Symbol),
           job' = [job EXCEPT ![j].failed = failed]
    PROVE  /\ job' \in [Job -> JobRecord] /\ \A k \in Job \ {j} : job'[k] = job[k]
           /\ job'[j].status = job[j].status
           /\ job'[j].ok = job[j].ok /\ job'[j].failed = failed
<1> DEFINE new == [job[j] EXCEPT !.failed = failed]
<1>1. /\ new \in JobRecord /\ new.status = job[j].status
      /\ new.ok = job[j].ok /\ new.failed = failed
  BY JobWritten DEF JobRecord
<1>2. job' = [job EXCEPT ![j] = new]
  OBVIOUS
<1> HIDE DEF new
<1>3. QED
  BY <1>1, <1>2, JobWritten

LEMMA EnqueueInv == ASSUME IngestInv, NEW j \in Job, Enqueue(j) PROVE IngestInv'
<1>1. /\ CacheInv' /\ FilesKept /\ CallsKept /\ UNCHANGED <<todo, stream, call>>
  BY CacheStutter DEF IngestInv, Enqueue, cacheVars
<1>2. /\ job[j].status = "none"
      /\ job'[j].status = "queued" /\ job'[j].ok = job[j].ok /\ job'[j].failed = job[j].failed
      /\ job' \in [Job -> JobRecord] /\ \A k \in Job \ {j} : job'[k] = job[k]
  BY StatusWritten DEF Enqueue, IngestInv
<1>3. PICK n \in Nat :
         /\ queue' \in Seq(Job) /\ DOMAIN queue = 1 .. n /\ DOMAIN queue' = 1 .. n + 1
         /\ \A i \in 1 .. n : queue[i] \in Job /\ queue'[i] = queue[i]
         /\ queue'[n + 1] = j
  <2>1. queue \in Seq(Job) /\ queue' = Append(queue, j)
    BY DEF IngestInv, JobTypes, Enqueue
  <2>2. /\ Len(queue) \in Nat /\ DOMAIN queue = 1 .. Len(queue)
        /\ \A i \in 1 .. Len(queue) : queue[i] \in Job
    BY <2>1, LenProperties, ElementOfSeq
  <2>3. /\ queue' \in Seq(Job) /\ Len(queue') = Len(queue) + 1
        /\ \A i \in 1 .. Len(queue) : queue'[i] = queue[i]
        /\ queue'[Len(queue) + 1] = j
    BY <2>1, AppendProperties
  <2>4. DOMAIN queue' = 1 .. Len(queue')
    BY <2>3, LenProperties
  <2>5. QED
    BY <2>2, <2>3, <2>4
<1>4. JobTypes'
  BY <1>1, <1>2, <1>3 DEF IngestInv, JobTypes
<1>5. QueueOK'
  <2>1. \A i \in 1 .. n : queue[i] \in Job \ {j} /\ job[queue[i]].status = "queued"
    BY <1>2, <1>3 DEF IngestInv, QueueOK
  <2>2. \A i \in DOMAIN queue' : job'[queue'[i]].status = "queued"
    <3>1. \A i \in 1 .. n : job'[queue'[i]].status = "queued"
      BY <1>2, <1>3, <2>1
    <3>2. job'[queue'[n + 1]].status = "queued"
      BY <1>2, <1>3
    <3>3. QED
      BY <1>3, <3>1, <3>2
  <2>3. \A i, k \in DOMAIN queue' : queue'[i] = queue'[k] => i = k
    <3>1. \A i \in 1 .. n : queue'[i] # j /\ queue'[i] = queue[i]
      BY <1>3, <2>1
    <3>2. \A i, k \in 1 .. n : queue[i] = queue[k] => i = k
      BY <1>3 DEF IngestInv, QueueOK
    <3>3. QED
      BY <1>3, <3>1, <3>2
  <2>4. QED
    BY <2>2, <2>3 DEF QueueOK
<1>6. \A v \in Worker : WorkerOK(v)'
  <2>1. \A v \in Worker : todo[v].job # j
    BY <1>2, WorkerHasJob, IngestAssumption
  <2>2. QED
    BY <1>1, <1>2, <2>1, WorkersKept
<1>7. \A k \in Job : JobOK(k)'
  <2>1. JobOK(j)'
    BY <1>1, <1>2, JobFilesKept DEF IngestInv, JobOK
  <2>2. QED
    BY <1>1, <1>2, <2>1, JobsKept
<1>8. \A c \in Client : StreamOK(c)'
  BY <1>1, <1>2, StreamsKept DEF IngestInv
<1>9. QED
  BY <1>1, <1>4, <1>5, <1>6, <1>7, <1>8 DEF IngestInv

LEMMA TakeJobInv == ASSUME IngestInv, NEW w \in Worker, TakeJob(w) PROVE IngestInv'
<1> PICK j, syms : j = Head(queue) /\ syms = Batches[j].syms
  OBVIOUS
<1>1. /\ CacheInv' /\ FilesKept /\ UNCHANGED <<stream, call>>
  BY CacheStutter DEF IngestInv, TakeJob, cacheVars
<1>2. /\ queue \in Seq(Job) /\ queue # << >> /\ queue' = Tail(queue)
      /\ j = queue[1] /\ j \in Job /\ Len(queue) \in Nat \ {0}
      /\ DOMAIN queue = 1 .. Len(queue)
      /\ queue' \in Seq(Job) /\ DOMAIN queue' = 1 .. Len(queue) - 1
      /\ \A i \in 1 .. Len(queue) - 1 : queue'[i] = queue[i + 1]
  <2>1. queue \in Seq(Job) /\ queue # << >> /\ queue' = Tail(queue)
    BY DEF IngestInv, JobTypes, TakeJob
  <2>2. j = queue[1]
    BY <2>1
  <2>3. QED
    BY <2>1, <2>2, HeadTailProperties, LenProperties, EmptySeq
<1>3. job[j].status = "queued" /\ job[j].ok = << >> /\ job[j].failed = << >>
  BY <1>2 DEF IngestInv, QueueOK, JobOK
<1>4. syms \in Seq(Symbol)
  BY <1>2, IngestAssumption
<1>5. /\ job'[j].status = "started" /\ job'[j].ok = << >> /\ job'[j].failed = << >>
      /\ job' \in [Job -> JobRecord] /\ \A k \in Job \ {j} : job'[k] = job[k]
  BY <1>2, <1>3, StatusWritten DEF TakeJob, IngestInv
<1>6. /\ todo[w].job = NoJob /\ todo'[w].job = j /\ todo'[w].left = syms
      /\ \A v \in Worker \ {w} : todo'[v] = todo[v]
  BY <1>2 DEF TakeJob, IngestInv, JobTypes
<1>7. JobTypes'
  <2>1. todo' = [todo EXCEPT ![w] = [job |-> j, left |-> syms]]
    BY DEF TakeJob
  <2>2. todo' \in [Worker -> [job : Job \cup {NoJob}, left : Seq(Symbol)]]
    BY <1>2, <1>4, <2>1 DEF IngestInv, JobTypes
  <2>3. QED
    BY <1>1, <1>2, <1>5, <2>2 DEF IngestInv, JobTypes
<1>8. QueueOK'
  <2>1. \A i \in 1 .. Len(queue) - 1 :
           queue'[i] \in Job \ {j} /\ job[queue'[i]].status = "queued"
    <3>1. ASSUME NEW i \in 1 .. Len(queue) - 1
          PROVE  queue[i + 1] \in Job \ {j} /\ job[queue[i + 1]].status = "queued"
      <4>1. i + 1 \in 1 .. Len(queue) /\ i + 1 # 1
        BY <1>2
      <4>2. QED
        BY <1>2, <4>1, ElementOfSeq DEF IngestInv, QueueOK
    <3>2. QED
      BY <1>2, <3>1
  <2>2. \A i \in DOMAIN queue' : job'[queue'[i]].status = "queued"
    BY <1>2, <1>5, <2>1
  <2>3. ASSUME NEW i \in DOMAIN queue', NEW k \in DOMAIN queue', queue'[i] = queue'[k]
        PROVE  i = k
    <3>1. i + 1 \in DOMAIN queue /\ k + 1 \in DOMAIN queue /\ queue[i + 1] = queue[k + 1]
      BY <1>2, <2>3
    <3>2. i + 1 = k + 1
      BY <3>1 DEF IngestInv, QueueOK
    <3>3. QED
      BY <1>2, <3>2
  <2>4. QED
    BY <2>2, <2>3 DEF QueueOK
<1>9. \A v \in Worker : WorkerOK(v)'
  <2>1. \A v \in Worker : todo[v].job # j
    BY <1>2, <1>3, WorkerHasJob, IngestAssumption
  <2>2. ASSUME NEW v \in Worker \ {w} PROVE WorkerOK(v)'
    BY <1>1, <1>2, <1>5, <1>6, <2>1, <2>2, WorkersKept
  <2>3. WorkerOK(w)'
    <3>1. call[w].stage = "idle"
      BY <1>6 DEF IngestInv, WorkerOK, WorkerCall
    <3>2. \A y \in Symbol : Count(job'[j].ok, y) + Count(job'[j].failed, y)
                               + Count(todo'[w].left, y) = Count(syms, y)
      <4> SUFFICES ASSUME NEW y \in Symbol
                   PROVE  Count(<< >>, y) + Count(<< >>, y) + Count(syms, y) = Count(syms, y)
        BY <1>5, <1>6
      <4>1. Count(syms, y) \in Nat /\ Count(<< >>, y) = 0
        BY <1>4, CountEmpty, CountType
      <4>2. QED
        BY <4>1
    <3>3. \A v \in Worker : todo'[v].job = j => v = w
      BY <1>6, <2>1
    <3>4. j # NoJob
      BY <1>2, IngestAssumption
    <3>5. QED
      BY <1>1, <1>5, <1>6, <3>1, <3>2, <3>3, <3>4 DEF WorkerOK, WorkerCall
  <2>4. QED
    BY <2>2, <2>3
<1>10. \A k \in Job : JobOK(k)'
  <2>1. JobOK(j)'
    BY <1>5, EmptyDomain DEF JobOK
  <2>2. ASSUME NEW k \in Job \ {j} PROVE JobOK(k)'
    BY <1>1, <1>2, <1>5, JobsKept
  <2>3. QED
    BY <2>1, <2>2
<1>11. \A c \in Client : StreamOK(c)'
  BY <1>1, <1>2, <1>3, <1>5, StreamsKept DEF IngestInv
<1>12. QED
  BY <1>1, <1>7, <1>8, <1>9, <1>10, <1>11 DEF IngestInv

\* What NoteSymbol works with: its job, the symbols left, the first of them, the
\* others, and the lists of done and of failed symbols with that one.
NoteParts(w, j, left, y, tail, more, rest) ==
    /\ j = todo[w].job /\ left = todo[w].left
    /\ y = Head(left) /\ tail = Tail(left)
    /\ more = Append(job[j].ok, y) /\ rest = Append(job[j].failed, y)

\* The job and the worker after a symbol is noted, in either list.
Noted(w, j, left, y, tail, more, rest) ==
    /\ left # << >> /\ y \in Symbol /\ JobTypes'
    /\ job'[j].status = "started" /\ \A k \in Job \ {j} : job'[k] = job[k]
    /\ todo'[w].job = j /\ todo'[w].left = tail
    /\ \A v \in Worker \ {w} : todo'[v] = todo[v]
    /\ \/ job'[j].ok = more /\ job'[j].failed = job[j].failed /\ call[w].stage = "done"
       \/ job'[j].ok = job[j].ok /\ job'[j].failed = rest

LEMMA NoteSymbolEffect ==
    ASSUME IngestInv, NEW w \in Worker, NoteSymbol(w), NEW j, NEW left, NEW y, NEW tail,
           NEW more, NEW rest, NoteParts(w, j, left, y, tail, more, rest)
    PROVE  Noted(w, j, left, y, tail, more, rest)
<1>a. y = Head(left) /\ tail = Tail(left)
  BY DEF NoteParts
<1>b. more = Append(job[j].ok, y) /\ rest = Append(job[j].failed, y)
  BY DEF NoteParts
<1>c. j = todo[w].job /\ left = todo[w].left
  BY DEF NoteParts
<1>1. call[w].stage \in {"done", "raised"} /\ UNCHANGED <<queue, stream>>
  BY DEF NoteSymbol, Return
<1>2. left # << >>
  BY <1>1, <1>c DEF IngestInv, WorkerOK, WorkerCall
<1>3. /\ j \in Job /\ job[j].status = "started" /\ left \in Seq(Symbol)
      /\ job[j].ok \in Seq(Symbol) /\ job[j].failed \in Seq(Symbol)
  BY <1>2, <1>c, WorkerHasJob
<1>4. y \in Symbol /\ tail \in Seq(Symbol)
  BY <1>2, <1>3, <1>a, HeadTailProperties
<1>5. more \in Seq(Symbol) /\ rest \in Seq(Symbol)
  BY <1>3, <1>4, <1>b, AppendProperties
<1>6. /\ todo' = [todo EXCEPT ![w].left = tail]
      /\ \/ job' = [job EXCEPT ![j].ok = more] /\ call[w].stage = "done"
         \/ job' = [job EXCEPT ![j].failed = rest]
  BY <1>a, <1>b, <1>c DEF NoteSymbol, At, IngestInv, JobTypes
<1>7. /\ todo' \in [Worker -> [job : Job \cup {NoJob}, left : Seq(Symbol)]]
      /\ todo'[w].job = j /\ todo'[w].left = tail
      /\ \A v \in Worker \ {w} : todo'[v] = todo[v]
  BY <1>4, <1>6, <1>c DEF IngestInv, JobTypes
<1>8. /\ job' \in [Job -> JobRecord] /\ job'[j].status = "started"
      /\ \A k \in Job \ {j} : job'[k] = job[k]
      /\ \/ job'[j].ok = more /\ job'[j].failed = job[j].failed /\ call[w].stage = "done"
         \/ job'[j].ok = job[j].ok /\ job'[j].failed = rest
  <2>1. ASSUME NEW ok \in Seq(Symbol), job' = [job EXCEPT ![j].ok = ok]
        PROVE  /\ job' \in [Job -> JobRecord] /\ job'[j].status = "started"
               /\ \A k \in Job \ {j} : job'[k] = job[k]
               /\ job'[j].ok = ok /\ job'[j].failed = job[j].failed
    BY <1>3, <2>1, OkWritten DEF IngestInv
  <2>2. ASSUME NEW failed \in Seq(Symbol), job' = [job EXCEPT ![j].failed = failed]
        PROVE  /\ job' \in [Job -> JobRecord] /\ job'[j].status = "started"
               /\ \A k \in Job \ {j} : job'[k] = job[k]
               /\ job'[j].ok = job[j].ok /\ job'[j].failed = failed
    BY <1>3, <2>2, FailedWritten DEF IngestInv
  <2>3. CASE job' = [job EXCEPT ![j].ok = more] /\ call[w].stage = "done"
    BY <1>5, <2>1, <2>3
  <2>4. CASE job' = [job EXCEPT ![j].failed = rest]
    BY <1>5, <2>2, <2>4
  <2>5. QED
    BY <1>6, <2>3, <2>4
<1>9. JobTypes'
  BY <1>1, <1>7, <1>8 DEF IngestInv, JobTypes
<1>10. QED
  BY <1>2, <1>4, <1>7, <1>8, <1>9 DEF Noted

LEMMA NoteSymbolInv == ASSUME IngestInv, NEW w \in Worker, NoteSymbol(w) PROVE IngestInv'
<1>a. PICK j, left, y, tail, more, rest : NoteParts(w, j, left, y, tail, more, rest)
  BY DEF NoteParts
<1>b. /\ y = Head(left) /\ tail = Tail(left)
      /\ more = Append(job[j].ok, y) /\ rest = Append(job[j].failed, y)
  BY <1>a DEF NoteParts
<1>c. j = todo[w].job /\ left = todo[w].left
  BY <1>a DEF NoteParts
<1>1. /\ left # << >> /\ y \in Symbol /\ JobTypes'
      /\ job'[j].status = "started" /\ \A k \in Job \ {j} : job'[k] = job[k]
      /\ todo'[w].job = j /\ todo'[w].left = tail
      /\ \A v \in Worker \ {w} : todo'[v] = todo[v]
      /\ \/ job'[j].ok = more /\ job'[j].failed = job[j].failed /\ call[w].stage = "done"
         \/ job'[j].ok = job[j].ok /\ job'[j].failed = rest
  BY <1>a, NoteSymbolEffect DEF Noted
<1>2. /\ w \in Proc /\ j \in Job /\ left \in Seq(Symbol) /\ job[j].status = "started"
      /\ job[j].ok \in Seq(Symbol) /\ job[j].failed \in Seq(Symbol)
  BY <1>1, <1>c, WorkerHasJob
<1>3. /\ CacheInv' /\ FilesKept /\ UNCHANGED <<queue, stream>>
      /\ call'[w].stage = "idle" /\ \A v \in Worker \ {w} : call'[v] = call[v]
  <2>1. Return(w) /\ UNCHANGED <<queue, stream>>
    BY DEF NoteSymbol
  <2>2. QED
    BY <1>2, <2>1, ReturnInv, IdleFacts, IngestAssumption
       DEF Return, IngestInv, CacheInv, CacheTypes
<1>4. QueueOK'
  <2>1. \A i \in DOMAIN queue : queue[i] \in Job \ {j}
    BY <1>2, LenProperties, ElementOfSeq DEF IngestInv, JobTypes, QueueOK
  <2>2. QED
    BY <1>1, <1>3, <2>1 DEF IngestInv, QueueOK
<1>5. \A v \in Worker : WorkerOK(v)'
  <2>1. j # NoJob /\ \A v \in Worker : todo[v].job = j => v = w
    <3>1. WorkerOK(w)
      BY DEF IngestInv
    <3>2. QED
      BY <1>2, <1>c, <3>1, IngestAssumption DEF WorkerOK
  <2>2. ASSUME NEW v \in Worker \ {w} PROVE WorkerOK(v)'
    BY <1>1, <1>2, <1>3, <2>1, <2>2, WorkersKept
  <2>3. ASSUME NEW z \in Symbol
        PROVE  Count(job'[j].ok, z) + Count(job'[j].failed, z) + Count(tail, z)
                  = Count(Batches[j].syms, z)
    <3>1. Count(job[j].ok, z) + Count(job[j].failed, z) + Count(left, z)
             = Count(Batches[j].syms, z)
      <4>1. WorkerOK(w)
        BY DEF IngestInv
      <4>2. QED
        BY <1>c, <2>1, <4>1 DEF WorkerOK
    <3>2. Count(left, z) = Count(tail, z) + (IF y = z THEN 1 ELSE 0)
      BY <1>1, <1>2, <1>b, CountTail
    <3>3. /\ Count(job[j].ok, z) \in Nat /\ Count(job[j].failed, z) \in Nat
          /\ Count(tail, z) \in Nat
      BY <1>1, <1>2, <1>b, CountType, HeadTailProperties
    <3>4. /\ Count(more, z) = Count(job[j].ok, z) + (IF y = z THEN 1 ELSE 0)
          /\ Count(rest, z) = Count(job[j].failed, z) + (IF y = z THEN 1 ELSE 0)
      <4>1. y \in Symbol /\ job[j].ok \in Seq(Symbol) /\ job[j].failed \in Seq(Symbol)
        BY <1>1, <1>2
      <4>2. Count(more, z) = Count(job[j].ok, z) + (IF y = z THEN 1 ELSE 0)
        BY <1>b, <4>1, CountAppend
      <4>3. Count(rest, z) = Count(job[j].failed, z) + (IF y = z THEN 1 ELSE 0)
        BY <1>b, <4>1, CountAppend
      <4>4. QED
        BY <4>2, <4>3
    <3>5. \/ /\ Count(job'[j].ok, z) = Count(job[j].ok, z) + (IF y = z THEN 1 ELSE 0)
             /\ Count(job'[j].failed, z) = Count(job[j].failed, z)
          \/ /\ Count(job'[j].ok, z) = Count(job[j].ok, z)
             /\ Count(job'[j].failed, z)
                   = Count(job[j].failed, z) + (IF y = z THEN 1 ELSE 0)
      BY <1>1, <3>4
    <3>6. QED
      BY <3>1, <3>2, <3>3, <3>5
  <2>4. WorkerOK(w)'
    <3>1. \A v \in Worker : todo'[v].job = j => v = w
      BY <1>1, <2>1
    <3>2. QED
      BY <1>1, <1>3, <2>1, <2>3, <3>1 DEF WorkerOK, WorkerCall
  <2>5. QED
    BY <2>2, <2>4
<1>6. \A k \in Job : JobOK(k)'
  <2>1. JobOK(j)'
    <3>1. CASE job'[j].ok = job[j].ok
      BY <1>1, <1>2, <1>3, <3>1, JobFilesKept DEF IngestInv, JobOK
    <3>2. CASE job'[j].ok = more /\ call[w].stage = "done"
      <4>1. serial => file[y].state # "absent"
        <5>1. WorkerOK(w) /\ (serial => CallOK(w))
          BY <1>2 DEF IngestInv, CacheInv, SerialOK
        <5>2. call[w].kind = "bars" /\ call[w].sym = y
          BY <1>b, <1>c, <3>2, <5>1 DEF WorkerOK, WorkerCall
        <5>3. QED
          BY <3>2, <5>1, <5>2 DEF CallOK
      <4>2. serial => \A i \in DOMAIN job[j].ok : file[job[j].ok[i]].state # "absent"
        BY <1>2 DEF IngestInv, JobOK
      <4>3. \A i \in DOMAIN job'[j].ok :
               \/ job'[j].ok[i] = y
               \/ i \in DOMAIN job[j].ok /\ job'[j].ok[i] = job[j].ok[i]
        <5> PICK s, t : s = job[j].ok /\ t = job'[j].ok
          OBVIOUS
        <5>1. y \in Symbol /\ s \in Seq(Symbol) /\ t = Append(s, y)
          BY <1>1, <1>2, <1>b, <3>2
        <5>2. \A i \in DOMAIN t : t[i] = y \/ (i \in DOMAIN s /\ t[i] = s[i])
          BY <5>1, AppendMembers
        <5>3. QED
          BY <5>2
      <4>4. \A i \in DOMAIN job[j].ok : job[j].ok[i] \in Symbol
        BY <1>2, LenProperties, ElementOfSeq
      <4>5. serial' => \A i \in DOMAIN job'[j].ok : file'[job'[j].ok[i]].state # "absent"
        BY <1>1, <1>3, <4>1, <4>2, <4>3, <4>4 DEF FilesKept
      <4>6. QED
        BY <1>1, <4>5 DEF JobOK
    <3>3. QED
      BY <1>1, <3>1, <3>2
  <2>2. ASSUME NEW k \in Job \ {j} PROVE JobOK(k)'
    BY <1>1, <1>2, <1>3, JobsKept
  <2>3. QED
    BY <2>1, <2>2
<1>7. \A c \in Client : StreamOK(c)'
  BY <1>1, <1>2, <1>3, StreamsKept DEF IngestInv
<1>8. QED
  BY <1>1, <1>3, <1>4, <1>5, <1>6, <1>7 DEF IngestInv

\* A job that ends, finished with its batch or failed with its worker.
LEMMA EndJobInv ==
    ASSUME IngestInv, NEW w \in Worker, NEW st \in {"finished", "failed"}, EndJob(w, st),
           todo[w].job # NoJob, st = "finished" => todo[w].left = << >>,
           CacheInv', FilesKept, call'[w].stage = "idle",
           \A v \in Worker \ {w} : call'[v] = call[v]
    PROVE  IngestInv'
<1> PICK j : j = todo[w].job
  OBVIOUS
<1>1. /\ j \in Job /\ job[j].status = "started" /\ todo[w].left \in Seq(Symbol)
      /\ job[j].ok \in Seq(Symbol) /\ job[j].failed \in Seq(Symbol)
  BY WorkerHasJob
<1>2. /\ job' \in [Job -> JobRecord] /\ \A k \in Job \ {j} : job'[k] = job[k]
      /\ job'[j].status = st /\ job'[j].ok = job[j].ok /\ job'[j].failed = job[j].failed
      /\ UNCHANGED <<queue, stream>>
  BY <1>1, StatusWritten DEF EndJob, IngestInv
<1>3. /\ todo' \in [Worker -> [job : Job \cup {NoJob}, left : Seq(Symbol)]]
      /\ todo'[w].job = NoJob /\ todo'[w].left = << >>
      /\ \A v \in Worker \ {w} : todo'[v] = todo[v]
  BY EmptySeq DEF EndJob, IngestInv, JobTypes
<1>4. JobTypes'
  BY <1>2, <1>3 DEF IngestInv, JobTypes
<1>5. QueueOK'
  <2>1. \A i \in DOMAIN queue : queue[i] \in Job \ {j}
    BY <1>1, LenProperties, ElementOfSeq DEF IngestInv, JobTypes, QueueOK
  <2>2. QED
    BY <1>2, <2>1 DEF IngestInv, QueueOK
<1>6. \A v \in Worker : WorkerOK(v)'
  <2>1. \A v \in Worker : todo[v].job = j => v = w
    BY DEF IngestInv, WorkerOK
  <2>2. ASSUME NEW v \in Worker \ {w} PROVE WorkerOK(v)'
    BY <1>1, <1>2, <1>3, <2>1, <2>2, WorkersKept
  <2>3. WorkerOK(w)'
    BY <1>3 DEF WorkerOK, WorkerCall
  <2>4. QED
    BY <2>2, <2>3
<1>7. \A k \in Job : JobOK(k)'
  <2>1. JobOK(j)'
    <3>1. ASSUME st = "finished", NEW y \in Symbol
          PROVE  Count(job[j].ok, y) + Count(job[j].failed, y) = Count(Batches[j].syms, y)
      <4>1. Count(job[j].ok, y) + Count(job[j].failed, y) + Count(<< >>, y)
               = Count(Batches[j].syms, y)
        BY <3>1 DEF IngestInv, WorkerOK
      <4>2. Count(<< >>, y) = 0
        BY CountEmpty
      <4>3. Count(job[j].ok, y) \in Nat /\ Count(job[j].failed, y) \in Nat
        BY <1>1, CountType
      <4>4. QED
        BY <4>1, <4>2, <4>3
    <3>2. st = "finished" => Accounted(j)'
      BY <1>2, <3>1 DEF Accounted
    <3>3. serial' => \A i \in DOMAIN job'[j].ok : file'[job'[j].ok[i]].state # "absent"
      BY <1>1, <1>2, JobFilesKept DEF IngestInv
    <3>4. QED
      BY <1>2, <3>2, <3>3 DEF JobOK
  <2>2. ASSUME NEW k \in Job \ {j} PROVE JobOK(k)'
    BY <1>1, <1>2, JobsKept
  <2>3. QED
    BY <2>1, <2>2
<1>8. \A c \in Client : StreamOK(c)'
  BY <1>1, <1>2, StreamsKept DEF IngestInv
<1>9. QED
  BY <1>4, <1>5, <1>6, <1>7, <1>8 DEF IngestInv

LEMMA FinishJobInv == ASSUME IngestInv, NEW w \in Worker, FinishJob(w) PROVE IngestInv'
<1>1. CacheInv' /\ FilesKept /\ UNCHANGED call
  BY CacheStutter DEF IngestInv, FinishJob, cacheVars
<1>2. call'[w].stage = "idle"
  BY <1>1 DEF FinishJob, IngestInv, WorkerOK, WorkerCall
<1>3. QED
  BY <1>1, <1>2, EndJobInv DEF FinishJob

LEMMA WorkerDiesInv == ASSUME IngestInv, NEW w \in Worker, WorkerDies(w) PROVE IngestInv'
<1>1. w \in Proc /\ ProcessDies(w) /\ CacheInv
  BY IngestAssumption DEF WorkerDies, IngestInv
<1>2. CacheInv' /\ FilesKept
  BY <1>1, ProcessDiesInv
<1>3. call'[w].stage = "idle" /\ \A v \in Worker \ {w} : call'[v] = call[v]
  BY <1>1, IdleFacts, IngestAssumption DEF ProcessDies, CacheInv, CacheTypes
<1>4. QED
  BY <1>2, <1>3, EndJobInv DEF WorkerDies

LEMMA ExpireInv == ASSUME IngestInv, NEW j \in Job, Expire(j) PROVE IngestInv'
<1>1. /\ CacheInv' /\ FilesKept /\ UNCHANGED <<todo, stream, queue, call>>
      /\ job[j].status \in {"finished", "failed"}
  BY CacheStutter DEF IngestInv, Expire, cacheVars
<1>2. /\ job' \in [Job -> JobRecord] /\ \A k \in Job \ {j} : job'[k] = job[k]
      /\ job'[j].status = "gone" /\ job'[j].ok = job[j].ok /\ job'[j].failed = job[j].failed
  BY StatusWritten DEF Expire, IngestInv
<1>3. JobTypes'
  BY <1>1, <1>2 DEF IngestInv, JobTypes
<1>4. QueueOK'
  <2>1. \A i \in DOMAIN queue : queue[i] \in Job \ {j}
    BY <1>1, LenProperties, ElementOfSeq DEF IngestInv, JobTypes, QueueOK
  <2>2. QED
    BY <1>1, <1>2, <2>1 DEF IngestInv, QueueOK
<1>5. \A v \in Worker : WorkerOK(v)'
  <2>1. \A v \in Worker : todo[v].job # j
    BY <1>1, WorkerHasJob, IngestAssumption
  <2>2. QED
    BY <1>1, <1>2, <2>1, WorkersKept
<1>6. \A k \in Job : JobOK(k)'
  <2>1. JobOK(j)'
    BY <1>1, <1>2, JobFilesKept DEF IngestInv, JobOK
  <2>2. ASSUME NEW k \in Job \ {j} PROVE JobOK(k)'
    BY <1>1, <1>2, JobsKept
  <2>3. QED
    BY <2>1, <2>2
<1>7. \A c \in Client : StreamOK(c)'
  BY <1>1, <1>2, StreamsKept DEF IngestInv
<1>8. QED
  BY <1>1, <1>3, <1>4, <1>5, <1>6, <1>7 DEF IngestInv

\* A step of one stream.
LEMMA StreamOnly ==
    ASSUME IngestInv, UNCHANGED <<cacheVars, queue, job, todo>>, NEW c \in Client,
           stream' \in [Client -> StreamRecord],
           \A d \in Client \ {c} : stream'[d] = stream[d], StreamOK(c)'
    PROVE  IngestInv'
<1>1. CacheInv' /\ FilesKept /\ CallsKept
  BY CacheStutter DEF IngestInv
<1>2. JobTypes' /\ QueueOK' /\ \A w \in Worker : WorkerOK(w)'
  BY DEF IngestInv, JobTypes, QueueOK, WorkerOK, WorkerCall, cacheVars
<1>3. \A j \in Job : JobOK(j)'
  BY DEF IngestInv, JobOK, Accounted, cacheVars
<1>4. \A d \in Client \ {c} : StreamOK(d)'
  BY DEF IngestInv, StreamOK, Accounted
<1>5. QED
  BY <1>1, <1>2, <1>3, <1>4 DEF IngestInv

LEMMA OpenStreamInv ==
    ASSUME IngestInv, NEW c \in Client, NEW j \in Job, OpenStream(c, j) PROVE IngestInv'
<1>1. /\ stream' \in [Client -> StreamRecord]
      /\ stream'[c].job = j /\ stream'[c].state = "open" /\ stream'[c].last = stream[c].last
      /\ \A d \in Client \ {c} : stream'[d] = stream[d]
  BY DEF OpenStream, IngestInv, JobTypes, StreamRecord
<1>2. stream[c].last \notin Terminal
  BY DEF OpenStream, IngestInv, StreamOK
<1>3. StreamOK(c)'
  BY <1>1, <1>2, IngestAssumption DEF OpenStream, StreamOK, Terminal
<1>4. QED
  BY <1>1, <1>3, StreamOnly DEF OpenStream

LEMMA PollInv ==
    ASSUME IngestInv, NEW c \in Client, NEW heard \in BOOLEAN, Poll(c, heard) PROVE IngestInv'
<1> PICK j, s : j = stream[c].job /\ s = Status(j, heard)
  OBVIOUS
<1>1. /\ stream[c].state = "open" /\ j \in Job /\ job[j].status # "none"
      /\ job[j] \in JobRecord
  BY DEF Poll, IngestInv, StreamOK, JobTypes, StreamRecord
<1>2. /\ s \in {"none", "queued", "started", "finished", "failed", "unknown"}
      /\ s \in {"finished", "failed"} => job[j].status = s
      /\ s = "unknown" /\ heard => job[j].status = "gone"
  <2>1. job[j].status \in {"none", "queued", "started", "finished", "failed", "gone"}
    BY <1>1 DEF JobRecord
  <2>2. CASE ~heard \/ job[j].status \in {"none", "gone"}
    BY <1>1, <2>2 DEF Status
  <2>3. CASE heard /\ job[j].status \notin {"none", "gone"}
    <3>1. s = job[j].status
      BY <2>3 DEF Status
    <3>2. QED
      BY <2>1, <2>3, <3>1
  <2>4. QED
    BY <2>2, <2>3
<1>3. PICK sent \in Nat, state \in {"open", "ended"} :
         stream' = [stream EXCEPT ![c].sent = sent, ![c].last = s, ![c].heard = heard,
                                  ![c].state = state]
  <2> DEFINE n == stream[c].sent + 1
             over == s \in Terminal \/ n = MaxEvents
  <2>1. n \in Nat
    BY DEF IngestInv, JobTypes, StreamRecord
  <2>2. stream' = [stream EXCEPT ![c].sent = IF over THEN 0 ELSE n, ![c].last = s,
                         ![c].heard = heard, ![c].state = IF over THEN "ended" ELSE "open"]
    BY DEF Poll
  <2>3. QED
    BY <2>1, <2>2
<1>4. /\ stream' \in [Client -> StreamRecord]
      /\ stream'[c].job = j /\ stream'[c].state # "none"
      /\ stream'[c].last = s /\ stream'[c].heard = heard
      /\ \A d \in Client \ {c} : stream'[d] = stream[d]
  <2> DEFINE new == [stream[c] EXCEPT !.sent = sent, !.last = s, !.heard = heard,
                               !.state = state]
  <2>1. /\ new \in StreamRecord /\ new.job = j /\ new.state # "none" /\ new.last = s
        /\ new.heard = heard
    BY <1>2 DEF IngestInv, JobTypes, StreamRecord
  <2>2. stream' = [stream EXCEPT ![c] = new]
    BY <1>3
  <2> HIDE DEF new
  <2>3. QED
    BY <2>1, <2>2 DEF IngestInv, JobTypes
<1>5. UNCHANGED job
  BY DEF Poll
<1>6. s = "finished" => Accounted(j)
  BY <1>1, <1>2 DEF IngestInv, JobOK
<1>7. StreamOK(c)'
  BY <1>1, <1>2, <1>4, <1>5, <1>6, IngestAssumption DEF StreamOK, Accounted
<1>8. QED
  BY <1>4, <1>7, StreamOnly DEF Poll

LEMMA IngestStutter == ASSUME IngestInv, UNCHANGED vars PROVE IngestInv'
<1>1. CacheInv' /\ FilesKept /\ CallsKept
  BY CacheStutter DEF IngestInv, vars
<1>2. QED
  BY <1>1, CacheOnly, CallsKeepWorkers DEF IngestInv, WorkerOK, vars, jobVars

LEMMA IngestInitInv == IngestInit => IngestInv
<1> SUFFICES ASSUME IngestInit PROVE IngestInv
  OBVIOUS
<1>1. CacheInv /\ \A p \in Proc : call[p].stage = "idle"
  BY CacheInit, IdleFacts DEF IngestInit, Init
<1>2. JobTypes /\ QueueOK
  <2>1. << >> \in Seq(Job) /\ << >> \in Seq(Symbol)
    BY EmptySeq
  <2>2. [status |-> "none", ok |-> << >>, failed |-> << >>] \in JobRecord
    BY <2>1 DEF JobRecord
  <2>3. [job |-> NoJob, state |-> "none", sent |-> 0, last |-> "none", heard |-> FALSE]
           \in StreamRecord
    BY DEF StreamRecord
  <2>4. [job |-> NoJob, left |-> << >>] \in [job : Job \cup {NoJob}, left : Seq(Symbol)]
    BY <2>1
  <2>5. JobTypes
    BY <2>1, <2>2, <2>3, <2>4 DEF IngestInit, JobTypes
  <2>6. QED
    BY <2>5, EmptyDomain DEF IngestInit, QueueOK
<1>3. \A w \in Worker : WorkerOK(w)
  BY <1>1, IngestAssumption DEF IngestInit, WorkerOK, WorkerCall
<1>4. \A j \in Job : JobOK(j)
  BY EmptyDomain DEF IngestInit, JobOK
<1>5. \A c \in Client : StreamOK(c)
  BY DEF IngestInit, StreamOK, Terminal
<1>6. QED
  BY <1>1, <1>2, <1>3, <1>4, <1>5 DEF IngestInv

LEMMA IngestStep == IngestInv /\ [Next]_vars => IngestInv'
<1> SUFFICES ASSUME IngestInv, [Next]_vars PROVE IngestInv'
  OBVIOUS
<1>1. CASE UNCHANGED vars
  BY <1>1, IngestStutter
<1>2. ASSUME NEW j \in Job, Enqueue(j) \/ Expire(j) PROVE IngestInv'
  BY <1>2, EnqueueInv, ExpireInv
<1>3. ASSUME NEW w \in Worker,
             TakeJob(w) \/ NextSymbol(w) \/ NoteSymbol(w) \/ FinishJob(w) \/ WorkerDies(w)
      PROVE  IngestInv'
  BY <1>3, TakeJobInv, NextSymbolInv, NoteSymbolInv, FinishJobInv, WorkerDiesInv
<1>4. ASSUME NEW c \in Client,
             (\E heard \in BOOLEAN : Poll(c, heard)) \/ \E j \in Job : OpenStream(c, j)
      PROVE  IngestInv'
  BY <1>4, PollInv, OpenStreamInv
<1>5. ASSUME NEW p \in Reader, Reply(p) \/ \E y \in Symbol, a \in Asks : Ask(p, a[1], y, a[2])
      PROVE  IngestInv'
  BY <1>5, ReplyInv, AskInv
<1>6. CASE (\E p \in Proc : Cache(p) \/ CacheFails(p)) \/ VendorRestates
  BY <1>6, CacheStepInv
<1>7. QED
  BY <1>1, <1>2, <1>3, <1>4, <1>5, <1>6 DEF Next

LEMMA IngestInvariant == Spec => []IngestInv
BY IngestInitInv, IngestStep, PTL DEF Spec

-----------------------------------------------------------------------------
\* A merge never drops or ages bars: whatever interleaves, as long as no two
\* calls fetched one symbol at once and no write broke off, every bar that was
\* ever returned is in the file whenever nobody is writing it.
THEOREM AnswersStayCached == Spec => []AnsweredStaysCached
<1>1. IngestInv => AnsweredStaysCached
  BY DEF IngestInv, CacheInv
<1>2. QED
  BY <1>1, IngestInvariant, PTL

\* The result of a finished job accounts for its batch: each symbol is among the
\* done or the failed as often as it was asked for, and the done have a file.
THEOREM FinishedJobsAreAccounted == Spec => []FinishedIsAccounted
<1>1. IngestInv => FinishedIsAccounted
  <2> SUFFICES ASSUME IngestInv, NEW c \in Client, stream[c].last = "finished"
               PROVE  LET j == stream[c].job
                      IN  /\ \A y \in Symbol : Count(job[j].ok, y) + Count(job[j].failed, y)
                                                 = Count(Batches[j].syms, y)
                          /\ serial => \A i \in DOMAIN job[j].ok :
                                          file[job[j].ok[i]].state # "absent"
    BY DEF FinishedIsAccounted
  <2>1. stream[c].job \in Job /\ Accounted(stream[c].job)
    BY DEF IngestInv, StreamOK, JobTypes, StreamRecord, Terminal
  <2>2. QED
    BY <2>1 DEF IngestInv, JobOK, Accounted
<1>2. QED
  BY <1>1, IngestInvariant, PTL

\* A stream that ends on an outcome is right about its job, now and later, and one
\* that Redis told "unknown" has a job that was forgotten, not one that runs.
THEOREM StreamsEndWithTheirJobs == Spec => []StreamEndsWithTheJob
<1>1. IngestInv => StreamEndsWithTheJob
  BY DEF IngestInv, StreamOK, StreamEndsWithTheJob
<1>2. QED
  BY <1>1, IngestInvariant, PTL

\* A bar request that the cache answers gets its whole range, unless the cached
\* days have a hole: the file it read is the file of the step that answers.
THEOREM CacheAnswersAreWhole == Spec => CacheAnswersWhole
<1> DEFINE Whole == \A p \in Proc :
              (At(p, "read") /\ call[p].kind = "bars" /\ call'[p].stage = "done") =>
                  LET c == call'[p]
                      days == Present(file[c.sym].bars)
                      hole == \E a, b \in days : \E d \in a .. b : d \notin days
                  IN hole \/ \A d \in c.from .. c.to : c.bars[d] # 0
<1>1. ASSUME IngestInv, [Next]_vars PROVE Whole
  <2> SUFFICES ASSUME NEW p \in Proc, At(p, "read"), call[p].kind = "bars",
                      call'[p].stage = "done"
               PROVE  CacheRead(p)
    BY <1>1, ReadAnswersWhole DEF IngestInv
  <2>1. call \in [Proc -> Call] /\ Worker \subseteq Proc /\ Reader \subseteq Proc
    BY <1>1, IngestAssumption DEF IngestInv, CacheInv, CacheTypes, Reader
  <2>2. call' # call
    BY DEF At
  <2>3. ASSUME NEW q \in Proc, call' = [call EXCEPT ![q] = Idle] PROVE FALSE
    BY <2>1, <2>3, IdleFacts DEF At
  <2>4. ASSUME NEW q \in Proc, NEW kind, NEW y, NEW range, Start(q, kind, y, range) PROVE FALSE
    <3>1. call'[q].stage = "read" /\ \A r \in Proc \ {q} : call'[r] = call[r]
      BY <2>1, <2>4 DEF Start, Idle
    <3>2. QED
      BY <3>1 DEF At
  <2>5. ASSUME NEW q \in Proc, Cache(q) \/ CacheFails(q) PROVE CacheRead(p)
    BY <1>1, <2>5, OnlyReadAnswers DEF Cache, CacheFails, IngestInv
  <2>6. QED
    BY <1>1, <2>1, <2>2, <2>3, <2>4, <2>5
       DEF Next, vars, cacheVars, Enqueue, Expire, TakeJob, NextSymbol, NoteSymbol, Return,
           FinishJob, WorkerDies, ProcessDies, Poll, OpenStream, Reply, Ask, VendorRestates,
           Restate
<1>2. QED
  BY <1>1, IngestInvariant, PTL DEF Spec, CacheAnswersWhole, vars
=============================================================================

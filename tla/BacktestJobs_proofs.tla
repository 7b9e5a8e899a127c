------------------------ MODULE BacktestJobs_proofs ------------------------
(***************************************************************************)
(* Proofs about BacktestJobs, for every set of runs and of workers.        *)
(*                                                                         *)
(* The properties relate the row of a run, its artifact and its worker.    *)
(* They hold because a run has one job and a job one worker: JobInv says   *)
(* where the job of a run is, and OutcomeInv what the worker that is about *)
(* to store an outcome knows.                                              *)
(***************************************************************************)
EXTENDS BacktestJobs, SequenceTheorems, TLAPS

Types ==
    /\ DOMAIN runs \subseteq RunId
    /\ \A r \in DOMAIN runs : runs[r] \in {"queued", "running"} \cup Terminal
    /\ api \in [RunId -> {"none", "inserted", "enqueued", "committed", "failed"}]
    /\ job \in [RunId -> {"none", "queued", "started", "finished", "failed"}]
    /\ queue \in Seq(RunId)
    /\ artifact \in [RunId -> {"absent", "partial", "complete"}]
    /\ pc \in [Worker -> {"idle", "load", "compute", "write", "settle", "return"}]
    /\ at \in [Worker -> RunId \cup {NoRun}]
    /\ outcome \in [Worker -> {"none"} \cup Terminal]

\* A run has at most one job, which is in the queue once, or at one worker.
JobInv ==
    /\ \A w \in Worker : pc[w] = "idle" <=> at[w] = NoRun
    /\ \A w \in Worker : at[w] # NoRun => job[at[w]] = "started"
    /\ \A v, w \in Worker : at[v] # NoRun /\ at[v] = at[w] => v = w
    /\ \A i \in 1 .. Len(queue) : job[queue[i]] = "queued"
    /\ \A i, j \in 1 .. Len(queue) : queue[i] = queue[j] => i = j
    /\ \A r \in RunId : api[r] \in {"none", "inserted"} => job[r] = "none"

\* What a worker is about to store: an outcome, a success only with its curve.
\* A run without a worker has not been loaded, or its job has ended.
OutcomeInv ==
    /\ \A w \in Worker : pc[w] = "settle" => outcome[w] \in Terminal
    /\ \A w \in Worker :
          pc[w] = "settle" /\ outcome[w] = "succeeded" => artifact[at[w]] = "complete"
    /\ \A w \in Worker :
          pc[w] \in {"compute", "write", "settle"} => at[w] \in DOMAIN runs
    /\ \A w \in Worker :
          pc[w] \in {"compute", "write", "settle"} => runs[at[w]] = "running"
    /\ \A w \in Worker : pc[w] = "return" => runs[at[w]] \in Terminal
    /\ \A w \in Worker : pc[w] = "return" => at[w] \in DOMAIN runs
    /\ \A w \in Worker : pc[w] = "load" /\ at[w] \in DOMAIN runs => runs[at[w]] = "queued"
    /\ \A r \in DOMAIN runs : runs[r] # "queued" => job[r] \in {"started", "finished", "failed"}
    /\ \A r \in DOMAIN runs : api[r] = "committed"

Inv == Types /\ JobInv /\ OutcomeInv /\ SucceededHasCurve /\ RunningHasWorker

LEMMA InvInit == Init => Inv
<1> SUFFICES ASSUME Init PROVE Inv
  OBVIOUS
<1>1. queue = << >> /\ queue \in Seq(RunId) /\ Len(queue) = 0
  BY EmptySeq DEF Init
<1>2. DOMAIN runs = {}
  <2>1. runs = << >>
    BY DEF Init
  <2>2. runs \in Seq({}) /\ Len(runs) = 0
    BY <2>1, EmptySeq
  <2> QED
    BY <2>2, LenProperties
<1>3. Types
  BY <1>1, <1>2 DEF Init, Types
<1>4. JobInv
  BY <1>1 DEF Init, JobInv
<1>5. OutcomeInv /\ SucceededHasCurve /\ RunningHasWorker
  BY <1>2 DEF Init, OutcomeInv, SucceededHasCurve, GetEquityCurve, RunningHasWorker
<1> QED
  BY <1>3, <1>4, <1>5 DEF Inv

-----------------------------------------------------------------------------
(***************************************************************************)
(* One lemma per action.                                                   *)
(***************************************************************************)

LEMMA InsertStep == ASSUME Inv, NEW r \in RunId, SubmitInsert(r) PROVE Inv'
BY DEF SubmitInsert, Inv, Types, JobInv, OutcomeInv,
       SucceededHasCurve, GetEquityCurve, RunningHasWorker, Terminal

LEMMA EnqueueStep == ASSUME Inv, NEW r \in RunId, SubmitEnqueue(r) PROVE Inv'
<1>1. /\ api[r] = "inserted" /\ job[r] = "none"
      /\ api' = [api EXCEPT ![r] = "enqueued"]
      /\ job' = [job EXCEPT ![r] = "queued"]
      /\ queue' = Append(queue, r)
      /\ UNCHANGED <<runs, artifact, pc, at, outcome>>
  BY DEF SubmitEnqueue, Inv, JobInv
<1>2. /\ queue' \in Seq(RunId) /\ Len(queue) \in Nat /\ Len(queue') = Len(queue) + 1
      /\ \A i \in 1 .. Len(queue) : queue'[i] = queue[i] /\ queue[i] \in RunId
      /\ queue'[Len(queue) + 1] = r
  BY <1>1, AppendProperties, LenProperties, ElementOfSeq DEF Inv, Types
<1>3. r \notin DOMAIN runs
  BY <1>1 DEF Inv, OutcomeInv
<1>4. Types'
  BY <1>1, <1>2 DEF Inv, Types
<1>5. JobInv'
  <2>1. \A i \in 1 .. Len(queue) : queue[i] # r
    BY <1>1 DEF Inv, JobInv
  <2>2. \A i \in 1 .. Len(queue') : job'[queue'[i]] = "queued"
    BY <1>1, <1>2 DEF Inv, Types, JobInv
  <2>3. \A i, j \in 1 .. Len(queue') : queue'[i] = queue'[j] => i = j
    BY <1>2, <2>1 DEF Inv, JobInv
  <2> QED
    BY <1>1, <2>2, <2>3 DEF Inv, Types, JobInv
<1>6. OutcomeInv' /\ SucceededHasCurve' /\ RunningHasWorker'
  BY <1>1, <1>3 DEF Inv, Types, JobInv, OutcomeInv,
                    SucceededHasCurve, GetEquityCurve, RunningHasWorker, Terminal
<1> QED
  BY <1>4, <1>5, <1>6 DEF Inv

LEMMA CommitStep == ASSUME Inv, NEW r \in RunId, SubmitCommit(r) PROVE Inv'
<1>1. /\ api[r] = "enqueued"
      /\ api' = [api EXCEPT ![r] = "committed"]
      /\ UNCHANGED <<job, queue, artifact, pc, at, outcome>>
  BY DEF SubmitCommit, WithRun
<1>2. r \notin DOMAIN runs
  BY <1>1 DEF Inv, OutcomeInv
<1>3. /\ DOMAIN runs' = DOMAIN runs \cup {r}
      /\ runs'[r] = "queued"
      /\ \A x \in DOMAIN runs : runs'[x] = runs[x]
  BY <1>2 DEF SubmitCommit, WithRun
<1>4. Types' /\ JobInv'
  BY <1>1, <1>3 DEF Inv, Types, JobInv
<1>5. OutcomeInv'
  BY <1>1, <1>2, <1>3 DEF Inv, Types, JobInv, OutcomeInv, Terminal
<1>6. SucceededHasCurve' /\ RunningHasWorker'
  BY <1>1, <1>3 DEF Inv, SucceededHasCurve, GetEquityCurve, RunningHasWorker
<1> QED
  BY <1>4, <1>5, <1>6 DEF Inv

LEMMA SubmitFailsStep == ASSUME Inv, NEW r \in RunId, SubmitFails(r) PROVE Inv'
BY DEF SubmitFails, Inv, Types, JobInv, OutcomeInv,
       SucceededHasCurve, GetEquityCurve, RunningHasWorker, Terminal

LEMMA TakeStep == ASSUME Inv, NEW w \in Worker, TakeJob(w) PROVE Inv'
<1> DEFINE r == Head(queue)
<1>1. /\ pc[w] = "idle" /\ queue # << >>
      /\ at' = [at EXCEPT ![w] = r] /\ queue' = Tail(queue)
      /\ job' = [job EXCEPT ![r] = "started"] /\ pc' = [pc EXCEPT ![w] = "load"]
      /\ UNCHANGED <<api, runs, artifact, outcome>>
  BY DEF TakeJob
<1>2. /\ Len(queue) \in Nat /\ Len(queue) # 0 /\ r = queue[1]
      /\ r \in RunId
      /\ queue' \in Seq(RunId) /\ Len(queue') = Len(queue) - 1
      /\ \A i \in 1 .. Len(queue') : queue'[i] = queue[i + 1]
      /\ \A i \in 1 .. Len(queue) : queue[i] \in RunId
  BY <1>1, HeadTailProperties, LenProperties, EmptySeq, ElementOfSeq DEF Inv, Types
<1>3. job[r] = "queued" /\ r # NoRun
  BY <1>2, NoRunAssumption DEF Inv, JobInv
<1>4. Types'
  BY <1>1, <1>2 DEF Inv, Types
<1>5. JobInv'
  <2>1. \A i \in 1 .. Len(queue') : queue'[i] # r /\ job[queue'[i]] = "queued"
    BY <1>2 DEF Inv, JobInv
  <2>2. \A i \in 1 .. Len(queue') : job'[queue'[i]] = "queued"
    BY <1>1, <1>2, <2>1 DEF Inv, Types
  <2>3. \A i, j \in 1 .. Len(queue') : queue'[i] = queue'[j] => i = j
    BY <1>2 DEF Inv, JobInv
  <2>4. \A v \in Worker : at[v] # r
    BY <1>3 DEF Inv, JobInv
  <2>5. \A v \in Worker : (pc'[v] = "idle" <=> at'[v] = NoRun)
    BY <1>1, <1>3 DEF Inv, Types, JobInv
  <2>6. \A v \in Worker : at'[v] # NoRun => job'[at'[v]] = "started"
    BY <1>1, <1>2, <2>4 DEF Inv, Types, JobInv
  <2>7. \A u, v \in Worker : at'[u] # NoRun /\ at'[u] = at'[v] => u = v
    BY <1>1, <2>4 DEF Inv, Types, JobInv
  <2>8. \A x \in RunId : api'[x] \in {"none", "inserted"} => job'[x] = "none"
    BY <1>1, <1>2, <1>3 DEF Inv, Types, JobInv
  <2> QED
    BY <2>2, <2>3, <2>5, <2>6, <2>7, <2>8 DEF JobInv
<1>6. r \in DOMAIN runs => runs[r] = "queued"
  BY <1>3 DEF Inv, OutcomeInv
<1>7. OutcomeInv'
  BY <1>1, <1>2, <1>6 DEF Inv, Types, OutcomeInv, Terminal
<1>8. SucceededHasCurve'
  BY <1>1 DEF Inv, SucceededHasCurve, GetEquityCurve
<1>9. RunningHasWorker'
  <2> SUFFICES ASSUME NEW x \in DOMAIN runs, runs[x] = "running"
               PROVE  job'[x] = "failed" \/ \E v \in Worker : at'[v] = x
    BY <1>1 DEF RunningHasWorker
  <2>1. x # r /\ x \in RunId
    BY <1>6 DEF Inv, Types
  <2>2. CASE job[x] = "failed"
    BY <1>1, <2>1, <2>2 DEF Inv, Types
  <2>3. ASSUME NEW v \in Worker, at[v] = x
        PROVE  \E u \in Worker : at'[u] = x
    <3>1. at[w] = NoRun
      BY <1>1 DEF Inv, JobInv
    <3>2. v # w
      BY <2>1, <2>3, <3>1, NoRunAssumption
    <3>3. at'[v] = x
      BY <1>1, <2>3, <3>2 DEF Inv, Types
    <3> QED
      BY <3>3
  <2> QED
    BY <2>2, <2>3 DEF Inv, RunningHasWorker
<1> QED
  BY <1>4, <1>5, <1>7, <1>8, <1>9 DEF Inv

\* A job may end once its run is not shown running, or as failed.
LEMMA EndJobStep ==
    ASSUME Inv, NEW w \in Worker, NEW s \in {"finished", "failed"}, EndJob(w, s),
           pc[w] # "idle", UNCHANGED <<api, runs, queue, artifact>>,
           s = "failed" \/ at[w] \notin DOMAIN runs \/ runs[at[w]] # "running"
    PROVE  Inv'
<1>1. /\ at[w] # NoRun /\ at[w] \in RunId /\ job[at[w]] = "started"
      /\ job' = [job EXCEPT ![at[w]] = s]
      /\ pc' = [pc EXCEPT ![w] = "idle"]
      /\ at' = [at EXCEPT ![w] = NoRun]
      /\ outcome' = [outcome EXCEPT ![w] = "none"]
  BY DEF EndJob, Inv, Types, JobInv
<1>2. Types'
  BY <1>1 DEF Inv, Types
<1>3. JobInv'
  <2>1. \A i \in 1 .. Len(queue) : queue[i] \in RunId
    BY ElementOfSeq DEF Inv, Types
  <2>2. \A i \in 1 .. Len(queue') : job'[queue'[i]] = "queued"
    BY <1>1, <2>1 DEF Inv, Types, JobInv
  <2> QED
    BY <1>1, <2>2 DEF Inv, Types, JobInv
<1>4. OutcomeInv'
  BY <1>1 DEF Inv, Types, JobInv, OutcomeInv
<1>5. SucceededHasCurve' /\ RunningHasWorker'
  BY <1>1 DEF Inv, Types, JobInv,
              SucceededHasCurve, GetEquityCurve, RunningHasWorker
<1> QED
  BY <1>2, <1>3, <1>4, <1>5 DEF Inv

LEMMA LoadStep == ASSUME Inv, NEW w \in Worker, LoadAndMark(w) PROVE Inv'
<1>1. /\ pc[w] = "load" /\ at[w] \in DOMAIN runs /\ runs[at[w]] = "queued"
      /\ at[w] # NoRun /\ at[w] \in RunId /\ job[at[w]] = "started"
      /\ \A v \in Worker : v # w => at[v] # at[w]
      /\ runs' = [runs EXCEPT ![at[w]] = "running"]
      /\ pc' = [pc EXCEPT ![w] = "compute"]
      /\ UNCHANGED <<api, job, queue, artifact, at, outcome>>
  BY DEF LoadAndMark, Updated, Inv, Types, JobInv, OutcomeInv
<1>2. /\ DOMAIN runs' = DOMAIN runs
      /\ \A x \in DOMAIN runs : runs'[x] = IF x = at[w] THEN "running" ELSE runs[x]
  BY <1>1
<1>3. Types' /\ JobInv'
  BY <1>1, <1>2 DEF Inv, Types, JobInv
<1>4. OutcomeInv'
  BY <1>1, <1>2 DEF Inv, Types, JobInv, OutcomeInv
<1>5. SucceededHasCurve' /\ RunningHasWorker'
  BY <1>1, <1>2 DEF Inv, SucceededHasCurve, GetEquityCurve, RunningHasWorker
<1> QED
  BY <1>3, <1>4, <1>5 DEF Inv

LEMMA BeginStep == ASSUME Inv, NEW w \in Worker, BeginArtifact(w) PROVE Inv'
<1>1. /\ pc[w] = "compute" /\ at[w] \in DOMAIN runs /\ runs[at[w]] = "running"
      /\ at[w] # NoRun /\ at[w] \in RunId
      /\ \A v \in Worker : v # w => at[v] # at[w]
      /\ artifact' = [artifact EXCEPT ![at[w]] = "partial"]
      /\ pc' = [pc EXCEPT ![w] = "write"]
      /\ UNCHANGED <<api, runs, job, queue, at, outcome>>
  BY DEF BeginArtifact, Inv, Types, JobInv, OutcomeInv
<1>2. Types' /\ JobInv'
  BY <1>1 DEF Inv, Types, JobInv
<1>3. OutcomeInv'
  BY <1>1 DEF Inv, Types, JobInv, OutcomeInv
<1>4. SucceededHasCurve' /\ RunningHasWorker'
  BY <1>1 DEF Inv, Types, SucceededHasCurve, GetEquityCurve, RunningHasWorker
<1> QED
  BY <1>2, <1>3, <1>4 DEF Inv

\* The try block ends with an outcome, a success only when the curve is complete.
LEMMA ComputedStep ==
    ASSUME Inv, NEW w \in Worker, pc[w] \in {"compute", "write"},
           NEW s \in Terminal, NEW c \in {artifact[at[w]], "complete"},
           s = "succeeded" => c = "complete",
           artifact' = [artifact EXCEPT ![at[w]] = c],
           outcome' = [outcome EXCEPT ![w] = s],
           pc' = [pc EXCEPT ![w] = "settle"],
           UNCHANGED <<api, runs, job, queue, at>>
    PROVE  Inv'
<1>1. /\ at[w] \in DOMAIN runs /\ runs[at[w]] = "running"
      /\ at[w] # NoRun /\ at[w] \in RunId
      /\ \A v \in Worker : v # w => at[v] # at[w]
      /\ c \in {"absent", "partial", "complete"}
  BY DEF Inv, Types, JobInv, OutcomeInv
<1>2. Types' /\ JobInv'
  <2>1. Types'
    BY <1>1 DEF Inv, Types
  <2>2. JobInv'
    BY <1>1 DEF Inv, Types, JobInv
  <2> QED
    BY <2>1, <2>2
<1>3. OutcomeInv'
  BY <1>1 DEF Inv, Types, JobInv, OutcomeInv
<1>4. SucceededHasCurve' /\ RunningHasWorker'
  BY <1>1 DEF Inv, Types, SucceededHasCurve, GetEquityCurve, RunningHasWorker
<1> QED
  BY <1>2, <1>3, <1>4 DEF Inv

LEMMA SettleStep == ASSUME Inv, NEW w \in Worker, Settle(w) PROVE Inv'
<1>1. /\ pc[w] = "settle" /\ at[w] \in DOMAIN runs /\ runs[at[w]] = "running"
      /\ at[w] # NoRun /\ at[w] \in RunId /\ job[at[w]] = "started"
      /\ outcome[w] \in Terminal
      /\ outcome[w] = "succeeded" => artifact[at[w]] = "complete"
      /\ \A v \in Worker : v # w => at[v] # at[w]
      /\ pc' = [pc EXCEPT ![w] = "return"]
      /\ UNCHANGED <<api, job, queue, artifact, at, outcome>>
  BY DEF Settle, Updated, Inv, Types, JobInv, OutcomeInv
<1>2. /\ DOMAIN runs' = DOMAIN runs
      /\ \A x \in DOMAIN runs : runs'[x] = IF x = at[w] THEN outcome[w] ELSE runs[x]
  BY DEF Settle, Updated
<1>3. Types' /\ JobInv'
  BY <1>1, <1>2 DEF Inv, Types, JobInv
<1>4. OutcomeInv'
  BY <1>1, <1>2 DEF Inv, Types, JobInv, OutcomeInv, Terminal
<1>5. SucceededHasCurve' /\ RunningHasWorker'
  BY <1>1, <1>2 DEF Inv,
                    SucceededHasCurve, GetEquityCurve, RunningHasWorker, Terminal
<1> QED
  BY <1>3, <1>4, <1>5 DEF Inv

-----------------------------------------------------------------------------
LEMMA InvStep == Inv /\ [Next]_vars => Inv'
<1> SUFFICES ASSUME Inv, [Next]_vars PROVE Inv'
  OBVIOUS
<1>1. ASSUME NEW r \in RunId, SubmitInsert(r) \/ Submission(r) \/ SubmitFails(r)
      PROVE  Inv'
  BY <1>1, InsertStep, EnqueueStep, CommitStep, SubmitFailsStep DEF Submission
<1>2. ASSUME NEW w \in Worker, TakeJob(w) \/ LoadAndMark(w) \/ BeginArtifact(w) \/ Settle(w)
      PROVE  Inv'
  BY <1>2, TakeStep, LoadStep, BeginStep, SettleStep
<1>3. ASSUME NEW w \in Worker, LoadMissing(w)
      PROVE  Inv'
  BY <1>3, EndJobStep DEF LoadMissing
<1>4. ASSUME NEW w \in Worker, Return(w)
      PROVE  Inv'
  <2>1. runs[at[w]] # "running" /\ pc[w] # "idle"
    BY <1>4 DEF Return, Inv, OutcomeInv, Terminal
  <2> QED
    BY <1>4, <2>1, EndJobStep DEF Return
<1>5. ASSUME NEW w \in Worker, JobFails(w)
      PROVE  Inv'
  BY <1>5, EndJobStep DEF JobFails
<1>6. ASSUME NEW w \in Worker, EndArtifact(w)
      PROVE  Inv'
  BY <1>6, ComputedStep DEF EndArtifact, Terminal
<1>7. ASSUME NEW w \in Worker, ComputeFails(w)
      PROVE  Inv'
  <2>1. CASE UNCHANGED artifact
    <3>1. artifact' = [artifact EXCEPT ![at[w]] = artifact[at[w]]]
      BY <2>1 DEF Inv, Types
    <3> QED
      BY <1>7, <3>1, ComputedStep DEF ComputeFails, Terminal
  <2>2. CASE artifact' = [artifact EXCEPT ![at[w]] = "complete"]
    BY <1>7, <2>2, ComputedStep DEF ComputeFails, Terminal
  <2> QED
    BY <1>7, <2>1, <2>2 DEF ComputeFails
<1>8. ASSUME UNCHANGED vars
      PROVE  Inv'
  BY <1>8 DEF vars, Inv, Types, JobInv, OutcomeInv,
              SucceededHasCurve, GetEquityCurve, RunningHasWorker
<1> QED
  BY <1>1, <1>2, <1>3, <1>4, <1>5, <1>6, <1>7, <1>8 DEF Next, Work, Quiet

-----------------------------------------------------------------------------
(***************************************************************************)
(* Theorems.                                                               *)
(***************************************************************************)

THEOREM InvAlways == Spec => []Inv
BY InvInit, InvStep, PTL DEF Spec

\* Rows, jobs, files and workers only take the values the code gives them.
THEOREM TypeCorrect == Spec => []TypeOK
<1>1. Inv => TypeOK
  <2> SUFFICES ASSUME Inv PROVE TypeOK
    OBVIOUS
  <2>1. \A k \in DOMAIN queue : queue[k] \in RunId
    BY ElementOfSeq, LenProperties DEF Inv, Types
  <2> QED
    BY <2>1 DEF Inv, Types, TypeOK
<1> QED
  BY <1>1, InvAlways, PTL

\* Whatever fails, a run that shows succeeded has its whole equity curve:
\* run_backtest sets the status after save_json, and stores it last.
THEOREM CurveForEverySuccess == Spec => []SucceededHasCurve
<1>1. Inv => SucceededHasCurve
  BY DEF Inv
<1> QED
  BY <1>1, InvAlways, PTL

\* A run shows running while a worker executes it, or after its job failed:
\* run_backtest stores an outcome for everything its try block raises.
THEOREM RunningIsWorkedOn == Spec => []RunningHasWorker
<1>1. Inv => RunningHasWorker
  BY DEF Inv
<1> QED
  BY <1>1, InvAlways, PTL

\* No step of the API or of a worker changes a stored outcome: the one job of
\* a run is the only thing that writes its row.
THEOREM OutcomesAreFinal == Spec => OutcomeIsFinal
<1> DEFINE Final == \A r \in DOMAIN runs :
                       /\ runs[r] \in Terminal => runs'[r] = runs[r]
                       /\ runs[r] = "running" => runs'[r] # "queued"
<1>1. Inv /\ [Next]_vars => Final
  <2> SUFFICES ASSUME Inv, [Next]_vars PROVE Final
    OBVIOUS
  <2>1. CASE UNCHANGED runs
    BY <2>1
  <2>2. ASSUME NEW r \in RunId, SubmitCommit(r)
        PROVE  Final
    <3>1. r \notin DOMAIN runs
      BY <2>2 DEF SubmitCommit, WithRun, Inv, OutcomeInv
    <3> QED
      BY <2>2, <3>1 DEF SubmitCommit, WithRun
  <2>3. ASSUME NEW w \in Worker, LoadAndMark(w)
        PROVE  Final
    <3>1. runs[at[w]] = "queued"
      BY <2>3 DEF LoadAndMark, Updated, Inv, OutcomeInv
    <3> QED
      BY <2>3, <3>1 DEF LoadAndMark, Updated, Terminal
  <2>4. ASSUME NEW w \in Worker, Settle(w)
        PROVE  Final
    <3>1. runs[at[w]] = "running" /\ outcome[w] \in Terminal
      BY <2>4 DEF Settle, Updated, Inv, OutcomeInv
    <3> QED
      BY <2>4, <3>1 DEF Settle, Updated, Terminal
  <2>5. \/ UNCHANGED runs
        \/ \E r \in RunId : SubmitCommit(r)
        \/ \E w \in Worker : LoadAndMark(w) \/ Settle(w)
    BY DEF Next, Work, Submission, Quiet, vars, SubmitInsert, SubmitEnqueue, SubmitFails,
           TakeJob, LoadMissing, BeginArtifact, EndArtifact, ComputeFails, Return, JobFails
  <2> HIDE DEF Final
  <2> QED
    BY <2>1, <2>2, <2>3, <2>4, <2>5
<1>2. Spec => [][Next]_vars
  BY DEF Spec
<1> QED
  BY <1>1, <1>2, InvAlways, PTL DEF OutcomeIsFinal
=============================================================================

---------------------------- MODULE BacktestJobs ----------------------------
(***************************************************************************)
(* A backtest from submission to result: api/routers/backtests.py inserts  *)
(* the run and enqueues a job in one request, workers/tasks.py executes it *)
(* in an RQ worker, the equity curve goes to the artifact store and the    *)
(* outcome to the run's row.                                               *)
(*                                                                         *)
(* The request enqueues before its transaction commits.  The worker uses   *)
(* one transaction to mark the run RUNNING and a second one, after the     *)
(* computation, to store the outcome.  Redis, the database, the artifact   *)
(* directory and the worker process fail independently of one another.     *)
(***************************************************************************)
EXTENDS Integers, Sequences

CONSTANTS
    RunId,
    Worker,        \* RQ worker processes
    Faults         \* whether the database and the worker process can fail

VARIABLES
    api,           \* run -> where its submit request is
    runs,          \* committed rows: run -> status
    job,           \* run -> status of its RQ job
    queue,         \* the RQ queue: runs whose job waits, in order
    artifact,      \* run -> content of runs/<id>/equity.json
    pc,            \* where each worker is in run_backtest
    at,            \* the run each worker is executing
    outcome        \* `status' of run_backtest, by worker

vars == <<api, runs, job, queue, artifact, pc, at, outcome>>

Terminal == {"succeeded", "failed"}
NoRun == "none"

ASSUME NoRunAssumption == NoRun \notin RunId

Init ==
    /\ api = [r \in RunId |-> "none"]
    /\ runs = << >>
    /\ job = [r \in RunId |-> "none"]
    /\ queue = << >>
    /\ artifact = [r \in RunId |-> "absent"]
    /\ pc = [w \in Worker |-> "idle"]
    /\ at = [w \in Worker |-> NoRun]
    /\ outcome = [w \in Worker |-> "none"]

-----------------------------------------------------------------------------
(***************************************************************************)
(* submit_backtest and the commit of its session.                          *)
(***************************************************************************)

\* The configuration and the run are flushed, not committed.
SubmitInsert(r) ==
    /\ api[r] = "none"
    /\ api' = [api EXCEPT ![r] = "inserted"]
    /\ UNCHANGED <<runs, job, queue, artifact, pc, at, outcome>>

SubmitEnqueue(r) ==
    /\ api[r] = "inserted"
    /\ api' = [api EXCEPT ![r] = "enqueued"]
    /\ job' = [job EXCEPT ![r] = "queued"]
    /\ queue' = Append(queue, r)
    /\ UNCHANGED <<runs, artifact, pc, at, outcome>>

\* create_backtest_run: a row of its own, which shows queued.
WithRun(r) == [x \in DOMAIN runs \cup {r} |-> IF x = r THEN "queued" ELSE runs[x]]

SubmitCommit(r) ==
    /\ api[r] = "enqueued"
    /\ api' = [api EXCEPT ![r] = "committed"]
    /\ runs' = WithRun(r)
    /\ UNCHANGED <<job, queue, artifact, pc, at, outcome>>

\* Redis refuses the job or the database the commit: the session rolls back,
\* and a job that was enqueued stays.
SubmitFails(r) ==
    /\ Faults
    /\ api[r] \in {"inserted", "enqueued"}
    /\ api' = [api EXCEPT ![r] = "failed"]
    /\ UNCHANGED <<runs, job, queue, artifact, pc, at, outcome>>

-----------------------------------------------------------------------------
(***************************************************************************)
(* The worker.                                                             *)
(***************************************************************************)

\* Mutant: the job stays in the queue until it has ended.
TakeJob_LeavesItQueued(w) ==
    /\ pc[w] = "idle" /\ queue # << >>
    /\ at' = [at EXCEPT ![w] = Head(queue)]
    /\ job' = [job EXCEPT ![Head(queue)] = "started"]
    /\ pc' = [pc EXCEPT ![w] = "load"]
    /\ UNCHANGED <<api, runs, queue, artifact, outcome>>

TakeJob(w) ==
    /\ pc[w] = "idle" /\ queue # << >>
    /\ at' = [at EXCEPT ![w] = Head(queue)]
    /\ queue' = Tail(queue)
    /\ job' = [job EXCEPT ![Head(queue)] = "started"]
    /\ pc' = [pc EXCEPT ![w] = "load"]
    /\ UNCHANGED <<api, runs, artifact, outcome>>

\* The job ends with the status s and the worker asks for the next one.
EndJob(w, s) ==
    /\ job' = [job EXCEPT ![at[w]] = s]
    /\ pc' = [pc EXCEPT ![w] = "idle"]
    /\ at' = [at EXCEPT ![w] = NoRun]
    /\ outcome' = [outcome EXCEPT ![w] = "none"]

\* run is None: run_backtest returns {"error": "run not found"}.
LoadMissing(w) ==
    /\ pc[w] = "load"
    /\ at[w] \notin DOMAIN runs
    /\ EndJob(w, "finished")
    /\ UNCHANGED <<api, runs, queue, artifact>>

\* update_backtest_run: the status is overwritten, whatever it is.
Updated(r, status) == [x \in DOMAIN runs |-> IF x = r THEN status ELSE runs[x]]

LoadAndMark(w) ==
    /\ pc[w] = "load"
    /\ at[w] \in DOMAIN runs
    /\ runs' = Updated(at[w], "running")
    /\ pc' = [pc EXCEPT ![w] = "compute"]
    /\ UNCHANGED <<api, job, queue, artifact, at, outcome>>

\* execute_backtest returned; save_json opens the file.  The curve is never
\* empty: a backtest without a single bar raises.
BeginArtifact(w) ==
    /\ pc[w] = "compute"
    /\ artifact' = [artifact EXCEPT ![at[w]] = "partial"]
    /\ pc' = [pc EXCEPT ![w] = "write"]
    /\ UNCHANGED <<api, runs, job, queue, at, outcome>>

EndArtifact(w) ==
    /\ pc[w] = "write"
    /\ artifact' = [artifact EXCEPT ![at[w]] = "complete"]
    /\ outcome' = [outcome EXCEPT ![w] = "succeeded"]
    /\ pc' = [pc EXCEPT ![w] = "settle"]
    /\ UNCHANGED <<api, runs, job, queue, at>>

\* Mutant: the status is set before the curve is saved.
ComputeFails_KeepsSuccess(w) ==
    /\ pc[w] \in {"compute", "write"}
    /\ outcome' = [outcome EXCEPT ![w] = IF pc[w] = "write" THEN "succeeded" ELSE "failed"]
    /\ pc' = [pc EXCEPT ![w] = "settle"]
    /\ UNCHANGED <<api, runs, job, queue, artifact, at>>

\* Mutant: the handler logs the exception and sets no status.
ComputeFails_NoStatus(w) ==
    /\ pc[w] \in {"compute", "write"}
    /\ pc' = [pc EXCEPT ![w] = "settle"]
    /\ UNCHANGED <<api, runs, job, queue, artifact, at, outcome>>

\* No prices, a strategy that is not supported, the job's time limit, a full
\* disk: whatever the try block raises is caught.  The time limit may strike
\* when the file has been written.
ComputeFails(w) ==
    /\ pc[w] \in {"compute", "write"}
    /\ \/ UNCHANGED artifact
       \/ pc[w] = "write" /\ artifact' = [artifact EXCEPT ![at[w]] = "complete"]
    /\ outcome' = [outcome EXCEPT ![w] = "failed"]
    /\ pc' = [pc EXCEPT ![w] = "settle"]
    /\ UNCHANGED <<api, runs, job, queue, at>>

\* Mutant: only a success is stored.
Settle_SuccessOnly(w) ==
    /\ pc[w] = "settle"
    /\ runs' = [r \in DOMAIN runs |->
                   IF r = at[w] /\ outcome[w] = "succeeded" THEN "succeeded" ELSE runs[r]]
    /\ pc' = [pc EXCEPT ![w] = "return"]
    /\ UNCHANGED <<api, job, queue, artifact, at, outcome>>

\* The second transaction commits the outcome.
Settle(w) ==
    /\ pc[w] = "settle"
    /\ runs' = Updated(at[w], outcome[w])
    /\ pc' = [pc EXCEPT ![w] = "return"]
    /\ UNCHANGED <<api, job, queue, artifact, at, outcome>>

Return(w) ==
    /\ pc[w] = "return"
    /\ EndJob(w, "finished")
    /\ UNCHANGED <<api, runs, queue, artifact>>

\* An exception leaves run_backtest (a database error in one of its two
\* transactions, the time limit outside the try block), or the process running
\* it dies: RQ marks the job failed and does not retry it.
JobFails(w) ==
    /\ Faults
    /\ pc[w] # "idle"
    /\ EndJob(w, "failed")
    /\ UNCHANGED <<api, runs, queue, artifact>>

Submission(r) == SubmitEnqueue(r) \/ SubmitCommit(r)

Work(w) ==
    \/ TakeJob(w)
    \/ LoadMissing(w)
    \/ LoadAndMark(w)
    \/ BeginArtifact(w)
    \/ EndArtifact(w)
    \/ ComputeFails(w)
    \/ Settle(w)
    \/ Return(w)

\* get_equity_curve: 404 without a file, else what the file holds.
GetEquityCurve(r) == IF artifact[r] = "absent" THEN "404" ELSE artifact[r]

\* Every submission has ended and no job waits.
Quiet ==
    /\ \A r \in RunId : api[r] \in {"committed", "failed"}
    /\ queue = << >>
    /\ \A w \in Worker : pc[w] = "idle"
    /\ UNCHANGED vars

Next ==
    \/ \E r \in RunId : SubmitInsert(r) \/ Submission(r) \/ SubmitFails(r)
    \/ \E w \in Worker : Work(w) \/ JobFails(w)
    \/ Quiet

\* A request that has started goes on, and so does a worker process.
Fairness ==
    /\ \A r \in RunId : WF_vars(Submission(r))
    /\ \A w \in Worker : WF_vars(Work(w))

Spec == Init /\ [][Next]_vars /\ Fairness

-----------------------------------------------------------------------------
(***************************************************************************)
(* Properties.                                                             *)
(***************************************************************************)

TypeOK ==
    /\ api \in [RunId -> {"none", "inserted", "enqueued", "committed", "failed"}]
    /\ DOMAIN runs \subseteq RunId
    /\ \A r \in DOMAIN runs : runs[r] \in {"queued", "running"} \cup Terminal
    /\ job \in [RunId -> {"none", "queued", "started", "finished", "failed"}]
    /\ \A k \in DOMAIN queue : queue[k] \in RunId
    /\ artifact \in [RunId -> {"absent", "partial", "complete"}]
    /\ pc \in [Worker -> {"idle", "load", "compute", "write", "settle", "return"}]
    /\ at \in [Worker -> RunId \cup {NoRun}]
    /\ outcome \in [Worker -> {"none"} \cup Terminal]

\* The dashboard (App.tsx) asks for the curve when a run shows succeeded: the
\* whole curve is served.
SucceededHasCurve ==
    \A r \in DOMAIN runs : runs[r] = "succeeded" => GetEquityCurve(r) = "complete"

\* A run shows running only while a worker is executing it, or after its job
\* failed; a job that finished never leaves it so.
RunningHasWorker ==
    \A r \in DOMAIN runs :
        runs[r] = "running" => job[r] = "failed" \/ \E w \in Worker : at[w] = r

\* A stored outcome is final, and a run is never taken back to queued.
OutcomeIsFinal ==
    [][\A r \in DOMAIN runs :
          /\ runs[r] \in Terminal => runs'[r] = runs[r]
          /\ runs[r] = "running" => runs'[r] # "queued"]_vars

\* A run that is visible before a worker takes its job gets an outcome, unless
\* the job fails.
VisibleRunSettles ==
    \A r \in RunId :
        (r \in DOMAIN runs /\ job[r] = "queued")
        ~> ((r \in DOMAIN runs /\ runs[r] \in Terminal) \/ job[r] = "failed")

\* Wiki, step 10: run_backtest loads the run, marks it RUNNING and persists
\* SUCCEEDED or FAILED; the client follows the job to its end and then fetches
\* the results.  So a finished job has left its run with an outcome.
FinishedJobLeftOutcome ==
    \A r \in DOMAIN runs : job[r] = "finished" => runs[r] \in Terminal
=============================================================================

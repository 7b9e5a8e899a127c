---------------------------- MODULE PriceIngest ----------------------------
(***************************************************************************)
(* Ingestion of prices end to end: POST /data/ohlcv enqueues a job, an RQ  *)
(* worker runs workers/tasks.py ingest_ohlcv over the cache of PriceCache, *)
(* GET /jobs/{id}/stream tells a client of the job's status, and API       *)
(* threads read bars (GET /data/ohlcv/{symbol}, which fills the cache      *)
(* too), cached prices (POST /sweep) or the liquidity of a symbol (which   *)
(* the port offers and no endpoint asks for yet).                          *)
(***************************************************************************)
EXTENDS PriceCache, Sequences

CONSTANTS
    Worker,        \* the members of Proc that are RQ workers
    Batches,       \* job id -> [syms, range] of its request
    Client,        \* event streams
    MaxEvents,     \* _MAX_EVENTS
    Asks,          \* the <<kind, range>> of requests of the API threads
    MaxAsks        \* bound: how many they make

VARIABLES
    queue,         \* job ids that wait in Redis
    job,           \* job id -> [status, ok, failed]; the result has ok's length
    todo,          \* worker -> [job, left]: the batch it is in
    stream,        \* client -> [job, state, sent, last, heard]; heard: Redis gave the last answer
    asks           \* requests made by API threads

jobVars == <<queue, job, todo, stream, asks>>
vars == <<cacheVars, jobVars>>

Job == DOMAIN Batches
Reader == Proc \ Worker
NoJob == "no job"

ASSUME IngestAssumption ==
    /\ Worker \subseteq Proc
    /\ NoJob \notin Job
    /\ \A j \in Job : Batches[j].syms \in Seq(Symbol) /\ Batches[j].range \in Ranges
    /\ Asks \subseteq {"bars", "prices", "liquidity"} \X Ranges

\* Mutant: a job without a result yet counts as unknown.
Status_NeedsResult(j, heard) ==
    IF ~heard \/ job[j].status \in {"none", "started", "gone"} THEN "unknown" ELSE job[j].status

\* queue.status and _TERMINAL: its except clause turns whatever is raised into
\* "unknown", by Job.fetch for an id Redis does not know or by a Redis that does
\* not answer (~heard).
Status(j, heard) ==
    IF ~heard \/ job[j].status \in {"none", "gone"} THEN "unknown" ELSE job[j].status
Terminal == {"finished", "failed", "unknown"}

IngestInit ==
    /\ Init
    /\ queue = << >>
    /\ job = [j \in Job |-> [status |-> "none", ok |-> << >>, failed |-> << >>]]
    /\ todo = [w \in Worker |-> [job |-> NoJob, left |-> << >>]]
    /\ stream = [c \in Client |-> [job |-> NoJob, state |-> "none", sent |-> 0, last |-> "none",
                                  heard |-> FALSE]]
    /\ asks = 0

-----------------------------------------------------------------------------
(***************************************************************************)
(* The job.                                                                *)
(***************************************************************************)

Enqueue(j) ==
    /\ job[j].status = "none"
    /\ job' = [job EXCEPT ![j].status = "queued"]
    /\ queue' = Append(queue, j)
    /\ UNCHANGED <<cacheVars, todo, stream, asks>>

TakeJob(w) ==
    /\ todo[w].job = NoJob /\ queue # << >>
    /\ todo' = [todo EXCEPT ![w] = [job |-> Head(queue), left |-> Batches[Head(queue)].syms]]
    /\ job' = [job EXCEPT ![Head(queue)].status = "started"]
    /\ queue' = Tail(queue)
    /\ UNCHANGED <<cacheVars, stream, asks>>

NextSymbol(w) ==
    /\ todo[w].left # << >>
    /\ Start(w, "bars", Head(todo[w].left), Batches[todo[w].job].range)
    /\ UNCHANGED jobVars

\* Mutant: the except clause ends the loop.
NoteSymbol_StopsAtFailure(w) ==
    LET t == todo[w]
        noted == IF At(w, "done") THEN "ok" ELSE "failed"
    IN /\ Return(w)
       /\ todo' = [todo EXCEPT ![w].left = IF noted = "failed" THEN << >> ELSE Tail(@)]
       /\ job' = [job EXCEPT ![t.job][noted] = Append(@, Head(t.left))]
       /\ UNCHANGED <<queue, stream, asks>>

\* Mutant: a symbol that failed is tried again until it works.
NoteSymbol_Retries(w) ==
    LET t == todo[w]
        noted == IF At(w, "done") THEN "ok" ELSE "failed"
    IN /\ Return(w)
       /\ todo' = [todo EXCEPT ![w].left = IF noted = "failed" THEN @ ELSE Tail(@)]
       /\ job' = IF noted = "failed" THEN job ELSE [job EXCEPT ![t.job].ok = Append(@, Head(t.left))]
       /\ UNCHANGED <<queue, stream, asks>>

\* A symbol that raises, also by the job's time limit, is recorded and the
\* batch goes on.
NoteSymbol(w) ==
    LET t == todo[w]
        noted == IF At(w, "done") THEN "ok" ELSE "failed"
    IN /\ Return(w)
       /\ todo' = [todo EXCEPT ![w].left = Tail(@)]
       /\ job' = [job EXCEPT ![t.job][noted] = Append(@, Head(t.left))]
       /\ UNCHANGED <<queue, stream, asks>>

EndJob(w, s) ==
    /\ job' = [job EXCEPT ![todo[w].job].status = s]
    /\ todo' = [todo EXCEPT ![w] = [job |-> NoJob, left |-> << >>]]
    /\ UNCHANGED <<queue, stream, asks>>

FinishJob(w) ==
    /\ todo[w].job # NoJob /\ todo[w].left = << >>
    /\ EndJob(w, "finished")
    /\ UNCHANGED cacheVars

WorkerDies(w) ==
    /\ todo[w].job # NoJob
    /\ ProcessDies(w)
    /\ EndJob(w, "failed")

\* The result's time to live: Redis forgets the job.
Expire(j) ==
    /\ job[j].status \in {"finished", "failed"}
    /\ job' = [job EXCEPT ![j].status = "gone"]
    /\ UNCHANGED <<cacheVars, queue, todo, stream, asks>>

-----------------------------------------------------------------------------
(***************************************************************************)
(* stream_job.                                                             *)
(***************************************************************************)

OpenStream(c, j) ==
    /\ stream[c].state = "none"
    /\ job[j].status # "none"
    /\ stream' = [stream EXCEPT ![c].job = j, ![c].state = "open"]
    /\ UNCHANGED <<cacheVars, queue, job, todo, asks>>

\* One turn of the loop: an event, then the end or a second of sleep.
Poll(c, heard) ==
    /\ stream[c].state = "open"
    /\ LET s == Status(stream[c].job, heard)
           n == stream[c].sent + 1
           over == s \in Terminal \/ n = MaxEvents
       IN stream' = [stream EXCEPT ![c].sent = IF over THEN 0 ELSE n, ![c].last = s,
                         ![c].heard = heard, ![c].state = IF over THEN "ended" ELSE "open"]
    /\ UNCHANGED <<cacheVars, queue, job, todo, asks>>

-----------------------------------------------------------------------------
(***************************************************************************)
(* The API threads.  get_bars and run_sweep (whose backtests keep no       *)
(* state); a call that raises is a 500.                                    *)
(***************************************************************************)

Ask(p, kind, y, range) ==
    /\ asks < MaxAsks
    /\ Start(p, kind, y, range)
    /\ asks' = asks + 1
    /\ UNCHANGED <<queue, job, todo, stream>>

Reply(p) == Return(p) /\ UNCHANGED jobVars

Cache(p) == Step(p) /\ UNCHANGED jobVars
CacheFails(p) == CallFails(p) /\ UNCHANGED jobVars
VendorRestates == Restate /\ UNCHANGED jobVars

Next ==
    \/ \E j \in Job : Enqueue(j) \/ Expire(j)
    \/ \E w \in Worker : \/ TakeJob(w) \/ NextSymbol(w) \/ NoteSymbol(w)
                         \/ FinishJob(w) \/ WorkerDies(w)
    \/ \E c \in Client : \/ \E heard \in BOOLEAN : Poll(c, heard)
                         \/ \E j \in Job : OpenStream(c, j)
    \/ \E p \in Reader : \/ Reply(p)
                         \/ \E y \in Symbol, a \in Asks : Ask(p, a[1], y, a[2])
    \/ \E p \in Proc : Cache(p) \/ CacheFails(p)
    \/ VendorRestates

\* A worker goes on with the job it has, and with the calls and the downloads
\* in it, which end or raise; the event loop polls.  Nobody has to ask or to
\* enqueue, and no API thread has to go on.
Works(w) == TakeJob(w) \/ NextSymbol(w) \/ Cache(w) \/ NoteSymbol(w) \/ FinishJob(w)
Fairness == /\ \A w \in Worker : WF_vars(Works(w))
            /\ \A c \in Client : WF_vars(\E heard \in BOOLEAN : Poll(c, heard))

Spec == IngestInit /\ [][Next]_vars /\ Fairness

-----------------------------------------------------------------------------
Count(seq, y) == Cardinality({i \in DOMAIN seq : seq[i] = y})

\* A client that was told "finished" can account for every symbol of the batch:
\* it is reported as failed, or counted as done with its cache file in place,
\* as long as calls did not overlap and no write broke off.
FinishedIsAccounted ==
    \A c \in Client :
        LET j == stream[c].job
        IN stream[c].last = "finished" =>
            /\ \A y \in Symbol : Count(job[j].ok, y) + Count(job[j].failed, y) = Count(Batches[j].syms, y)
            /\ serial => \A i \in DOMAIN job[j].ok : file[job[j].ok[i]].state # "absent"

\* A stream that ended on an outcome told the truth: the job ended so and, while
\* the client acts on it, at most expires.  One that ended on "unknown" says that
\* the job has expired only if Redis answered; else the job may wait or run on.
StreamEndsWithTheJob ==
    \A c \in Client :
        LET s == stream[c]
        IN  s.state = "ended" =>
              /\ s.last \in {"finished", "failed"} => job[s.job].status \in {s.last, "gone"}
              /\ s.last = "unknown" /\ s.heard => job[s.job].status = "gone"

\* Every stream ends, whatever happens to its job, and every job that was
\* enqueued ends.
StreamsAndJobsEnd ==
    /\ \A c \in Client : stream[c].state = "open" ~> stream[c].state = "ended"
    /\ \A j \in Job : job[j].status = "queued" ~> job[j].status \in {"finished", "failed", "gone"}
=============================================================================

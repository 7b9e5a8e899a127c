------------------------------ MODULE Universe ------------------------------
(***************************************************************************)
(* Point-in-time membership of one symbol in one index: the add and drop   *)
(* events of a CSV file (engine/data/universe.py), the ingest jobs that    *)
(* turn them into intervals and add these to the database                  *)
(* (workers/tasks.py ingest_universe) and what a query by date returns     *)
(* (adapters/persistence/repository.py).                                   *)
(*                                                                         *)
(* The file grows between ingests, in any order of dates, also by rows     *)
(* that do not parse.  Jobs run when a worker takes them, several at once  *)
(* or one after the other; a job adds its rows and never looks at those    *)
(* that are there.                                                         *)
(***************************************************************************)
EXTENDS Integers, Sequences, SequencesExt, Ranking

CONSTANTS
    LastDate,      \* dates are 1 .. LastDate
    MaxEvents,     \* bound: events in the file
    Ingest         \* ingest jobs

ASSUME UniverseAssumption == LastDate \in Nat \ {0}

Date == 1 .. LastDate
Open == LastDate + 1       \* effective_to of a name that is still in the index

VARIABLES
    csv,           \* the rows of the file, in its order: [action, date]
    ingest,        \* job -> [state, rows, read]
    rows,          \* committed rows of universe_membership
    committed      \* the contents that were ingested (history)

universeVars == <<csv, ingest, rows, committed>>

NoIngest == [state |-> "none", rows |-> << >>, read |-> << >>]

UniverseInit ==
    /\ csv = << >>
    /\ ingest = [j \in Ingest |-> NoIngest]
    /\ rows = << >> /\ committed = << >>

\* parse_membership_events: one row that does not validate raises for them all.
Parses(file) == \A i \in DOMAIN file : file[i].action \in {"add", "drop"}

\* The file's events by date; events of one date stay in the file's order.
ByDate(events) ==
    LET order == SortOrder([i \in DOMAIN events |-> events[i].date])
    IN [k \in DOMAIN events |-> events[order[k]]]

Interval(from, to) == [from |-> from, to |-> to]

\* Mutant: every add opens an interval, also of a name that is in the index.
Consume_Reopens(acc, event) ==
    IF event.action = "add" THEN [acc EXCEPT !.from = event.date]
    ELSE IF acc.from # 0
         THEN [from |-> 0, out |-> Append(acc.out, Interval(acc.from, event.date))]
         ELSE acc

\* One event: an add opens unless one is open, a drop closes the open one.
Consume(acc, event) ==
    IF event.action = "add" THEN [acc EXCEPT !.from = IF @ = 0 THEN event.date ELSE @]
    ELSE IF acc.from # 0
         THEN [from |-> 0, out |-> Append(acc.out, Interval(acc.from, event.date))]
         ELSE acc

BuildIntervals(events) ==
    LET acc == FoldLeft(Consume, [from |-> 0, out |-> << >>], ByDate(events))
    IN IF acc.from = 0 THEN acc.out ELSE Append(acc.out, Interval(acc.from, Open))

\* [from, to).
Covers(row, d) == row.from <= d /\ d < row.to

\* get_universe_membership: one result for each row that covers the date.
Members(d) == {i \in DOMAIN rows : Covers(rows[i], d)}

\* membership_matrix: the dates on which the symbol is eligible.
MembershipMask(intervals) ==
    [d \in Date |-> \E i \in DOMAIN intervals : Covers(intervals[i], d)]

-----------------------------------------------------------------------------
Becomes(j, state, rs, read) ==
    ingest' = [ingest EXCEPT ![j] = [state |-> state, rows |-> rs, read |-> read]]

EditFile ==
    /\ Len(csv) < MaxEvents
    /\ \/ \E a \in {"add", "drop"}, d \in Date : csv' = Append(csv, [action |-> a, date |-> d])
       \/ csv' = Append(csv, [action |-> "unreadable", date |-> 1])
    /\ UNCHANGED <<ingest, rows, committed>>

\* POST /data/universe.
RequestIngest(j) ==
    /\ ingest[j].state = "none"
    /\ Becomes(j, "queued", << >>, << >>)
    /\ UNCHANGED <<csv, rows, committed>>

IngestReads(j) ==
    /\ ingest[j].state = "queued"
    /\ IF Parses(csv) THEN Becomes(j, "read", BuildIntervals(csv), csv)
                      ELSE Becomes(j, "failed", << >>, << >>)
    /\ UNCHANGED <<csv, rows, committed>>

IngestCommits(j) ==
    /\ ingest[j].state = "read"
    /\ rows' = rows \o ingest[j].rows
    /\ committed' = Append(committed, ingest[j].read)
    /\ Becomes(j, "finished", << >>, << >>)
    /\ UNCHANGED csv

\* The transaction rolls back and the job fails.
IngestFails(j) ==
    /\ ingest[j].state = "read"
    /\ Becomes(j, "failed", << >>, << >>)
    /\ UNCHANGED <<csv, rows, committed>>

UniverseNext ==
    \/ EditFile
    \/ \E j \in Ingest : RequestIngest(j) \/ IngestReads(j) \/ IngestCommits(j) \/ IngestFails(j)

UniverseSpec == UniverseInit /\ [][UniverseNext]_universeVars

-----------------------------------------------------------------------------
\* On a date the symbol is a member if its last event until then is an add,
\* the later in the file of two events of that date.
MemberOn(events, d) ==
    \E i \in DOMAIN events :
        /\ events[i].action = "add" /\ events[i].date <= d
        /\ \A j \in DOMAIN events : events[j].date <= d =>
              events[j].date < events[i].date \/ (events[j].date = events[i].date /\ j <= i)

\* Exactly the names of the file: on every date the symbol is eligible if all
\* ingested files have it in the index then and is not if none has, so intervals
\* neither overlap nor leave a gap, also where a name leaves and enters on one
\* date, and a failed ingest leaves nothing; and one ingest returns no name twice.
\* (Where the files disagree see RebuildIsExact.)
MembershipIsExact ==
    \A d \in Date :
        LET had == {n \in DOMAIN committed : MemberOn(committed[n], d)}
        IN /\ had = {} => ~MembershipMask(rows)[d]
           /\ had # {} /\ had = DOMAIN committed => MembershipMask(rows)[d]
           /\ Len(committed) <= 1 => Cardinality(Members(d)) <= 1

\* tasks.py calls the job a rebuild of the membership, and universe.py promises
\* exactly the names that were in the index on a date: when the last file that
\* was ingested is the file as it stands, it decides who is eligible.
RebuildIsExact ==
    (committed # << >> /\ committed[Len(committed)] = csv) =>
        \A d \in Date : MembershipMask(rows)[d] = MemberOn(csv, d)
=============================================================================

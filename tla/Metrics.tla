------------------------------- MODULE Metrics -------------------------------
(***************************************************************************)
(* What SourceJobs write for one retrieval status: its total, and its        *)
(* records per month and per day.  They are separate statements, without a   *)
(* transaction around them, so an error or another job may come in between.  *)
(* The other counts (pdf, html, readers, comments, likes) are treated like   *)
(* the total.  A source that dates its events itself supplies the records    *)
(* (get_events_by_month) and skips get_events_current; the module describes  *)
(* the other sources.                                                       *)
(***************************************************************************)
EXTENDS Integers, FiniteSets

CONSTANTS
    Jobs,         \* SourceJobs that may have the row at the same time
    DaysPerMonth, \* length of a month
    Window,       \* 30: days after publication with daily records
    MaxDay,       \* bound: days that pass
    MaxTotal,     \* bound: events that the source reports
    MaxRuns       \* bound: retrievals

ASSUME MetricsAssumption ==
    /\ DaysPerMonth \in Nat \ {0} /\ Window \in Nat /\ MaxDay \in Nat /\ MaxTotal \in Nat
    /\ MaxRuns \in Nat /\ IsFiniteSet(Jobs)

Kind == {"month", "day"}

VARIABLES
    day,       \* days since the work was published
    total,     \* retrieval_statuses.total
    records,   \* the tables months and days
    job,
    runs,
    disturbed  \* has a job ever had the row at the same time as another one?

vars == <<day, total, records, job, runs, disturbed>>

\* A record: its period, its count, and the retrieval that made it (in place of an id).
Record == [at : 0..MaxDay, total : Int, run : 0..MaxRuns]

NoItem == [at |-> 0, total |-> 0, run |-> 0]
NoJob == [pc |-> "idle", kind |-> "month", total |-> 0, loaded |-> 0, saved |-> FALSE, run |-> 0,
          item |-> NoItem]

Goto(j, pc) == job' = [job EXCEPT ![j].pc = pc]
Idle(j) == job' = [job EXCEPT ![j] = NoJob]

\* today, as the year and month of a month record or the date of a day record
period(kind) == IF kind = "month" THEN day \div DaysPerMonth ELSE day

\* default_scope orders by period
Last(kind) == {r \in records[kind] : \A s \in records[kind] : s.at <= r.at}

-------------------------------------------------------------------------------
\* SourceJob, for this row.

\* The row is loaded.
Load(j) ==
    /\ job[j].pc = "idle"
    /\ runs < MaxRuns
    /\ runs' = runs + 1
    /\ job' = [job EXCEPT ![j] = [NoJob EXCEPT !.pc = "fetch", !.loaded = total,
                                               !.run = runs + 1]]
    /\ disturbed' = (disturbed \/ \E i \in Jobs : job[i].pc # "idle")
    /\ UNCHANGED <<day, total, records>>

\* The source reports a total, which may be less than before, or answers 404, which
\* counts as no events.
Fetch(j) ==
    /\ job[j].pc = "fetch"
    /\ \E t \in 0..MaxTotal :
         job' = [job EXCEPT ![j] = [@ EXCEPT !.pc = "data", !.total = t]]
    /\ UNCHANGED <<day, total, records, runs, disturbed>>

\* Any other error: nothing is written.
Skip(j) ==
    /\ job[j].pc = "fetch"
    /\ Idle(j)
    /\ UNCHANGED <<day, total, records, runs, disturbed>>

\* A statement raises: the job ends, what it has written stays.
Raise(j) ==
    /\ job[j].pc \notin {"idle", "fetch"}
    /\ Idle(j)
    /\ UNCHANGED <<day, total, records, runs, disturbed>>

\* Mutant: the new events are added to the total.
update_data_adds(j) ==
    /\ job[j].pc = "data"
    /\ \E saved \in BOOLEAN :
         /\ total' = IF saved THEN total + job[j].total ELSE total
         /\ job' = [job EXCEPT ![j] = [@ EXCEPT !.pc = "previous", !.loaded = 0, !.saved = saved]]
    /\ UNCHANGED <<day, records, runs, disturbed>>

\* Mutant: no events leave the total as it is.
update_data_some(j) ==
    /\ job[j].pc = "data"
    /\ \E saved \in BOOLEAN :
         /\ total' = IF saved /\ job[j].total # 0 THEN job[j].total ELSE total
         /\ job' = [job EXCEPT ![j] = [@ EXCEPT !.pc = "previous", !.loaded = 0, !.saved = saved]]
    /\ UNCHANGED <<day, records, runs, disturbed>>

\* update_attributes writes what differs from the row as it was loaded, or nothing if
\* the work or the source is not valid.  The job goes on with what it got in either case.
update_data(j) ==
    /\ job[j].pc = "data"
    /\ \E saved \in BOOLEAN :
         /\ total' = IF saved /\ job[j].total # job[j].loaded THEN job[j].total ELSE total
         /\ job' = [job EXCEPT ![j] = [@ EXCEPT !.pc = "previous", !.loaded = 0, !.saved = saved]]
    /\ UNCHANGED <<day, records, runs, disturbed>>

\* get_events_previous_month, get_events_previous_day
get_events_previous(kind, t) ==
    IF records[kind] = {} THEN {0}
    ELSE {IF r.at = period(kind) THEN t - r.total ELSE r.total : r \in Last(kind)}

\* get_events_current_month, get_events_current_day.  Daily records are kept for
\* some days after publication only.
get_events_current(j) ==
    LET kind == job[j].kind
    IN  /\ job[j].pc = "previous"
        /\ IF kind = "day" /\ day > Window
           THEN Idle(j)
           ELSE \E previous \in get_events_previous(kind, job[j].total) :
                  job' = [job EXCEPT ![j] = [@ EXCEPT !.pc = "find",
                             !.item = [at |-> period(kind), total |-> job[j].total - previous,
                                       run |-> job[j].run]]]
        /\ UNCHANGED <<day, total, records, runs, disturbed>>

\* After the month comes the day, then the job is done with the row.
Advance(j) ==
    job' = [job EXCEPT ![j] = IF job[j].kind = "month"
                              THEN [job[j] EXCEPT !.pc = "previous", !.kind = "day", !.item = NoItem]
                              ELSE NoJob]

\* Mutant: the record is not looked up.
first_of_none(j) ==
    /\ job[j].pc = "find"
    /\ Goto(j, "create")
    /\ UNCHANGED <<day, total, records, runs, disturbed>>

\* update_months, update_days: where(...).first, and a record that is there stays
\* as it is ...
first(j) ==
    /\ job[j].pc = "find"
    /\ IF \E r \in records[job[j].kind] : r.at = job[j].item.at THEN Advance(j)
       ELSE Goto(j, "create")
    /\ UNCHANGED <<day, total, records, runs, disturbed>>

\* ... or else is created.
or_create(j) ==
    /\ job[j].pc = "create"
    /\ records' = [records EXCEPT ![job[j].kind] = @ \cup {job[j].item}]
    /\ Advance(j)
    /\ UNCHANGED <<day, total, runs, disturbed>>

JobStep(j) ==
    \/ Load(j) \/ Fetch(j) \/ Skip(j) \/ Raise(j) \/ update_data(j)
    \/ get_events_current(j) \/ first(j) \/ or_create(j)

-------------------------------------------------------------------------------
DayPasses ==
    /\ day < MaxDay
    /\ day' = day + 1
    /\ UNCHANGED <<total, records, job, runs, disturbed>>

Init ==
    /\ day = 0 /\ total = 0
    /\ records = [k \in Kind |-> {}]
    /\ job = [j \in Jobs |-> NoJob]
    /\ runs = 0 /\ disturbed = FALSE

Next ==
    \/ \E j \in Jobs : JobStep(j)
    \/ DayPasses

Spec == Init /\ [][Next]_vars

-------------------------------------------------------------------------------
\* Properties.

JobRec == [pc : {"idle", "fetch", "data", "previous", "find", "create"}, kind : Kind,
           total : 0..MaxTotal, loaded : 0..MaxTotal, saved : BOOLEAN, run : 0..MaxRuns,
           item : Record]

TypeOK ==
    /\ day \in 0..MaxDay /\ total \in 0..MaxTotal
    /\ records \in [Kind -> SUBSET Record]
    /\ job \in [Jobs -> JobRec]
    /\ runs \in 0..MaxRuns /\ disturbed \in BOOLEAN

\* While a job computes the records from the total that it got, the row has that
\* total (retrieval_status.rb 84-96) if it was valid, although only changes are written.
TotalIsReported ==
    ~disturbed => \A j \in Jobs : job[j].pc \in {"previous", "find", "create"} /\ job[j].saved
                                     => total = job[j].total

\* A period has no more records than there were jobs to look for it at the same
\* time (retrieval_status.rb 140-167), one if there was one: no index of the tables
\* requires it.
RecordsPerPeriod ==
    \A kind \in Kind : \A r \in records[kind] :
        Cardinality({s \in records[kind] : s.at = r.at}) <= Cardinality(Jobs)

\* "update this month's record" (retrieval_status.rb:273): after a retrieval this
\* month's record and the ones before make the total.  Stated for the first month,
\* which has no others.
MonthIsUpdated ==
    [][\A j \in Jobs, r \in records["month"] :
         first(j) /\ ~disturbed /\ job[j].kind = "month" /\ records["month"] = {r}
           /\ r.at = job[j].item.at
           => \E s \in records'["month"] : s.at = r.at /\ s.total = job[j].total]_vars

===============================================================================

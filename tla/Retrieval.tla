------------------------------ MODULE Retrieval ------------------------------
(***************************************************************************)
(* How the metrics of one source are kept up to date: the rake tasks        *)
(* queue:stale, queue:all, queue:one and queue:reset mark retrieval         *)
(* statuses and enqueue SourceJobs, Sidekiq runs the jobs, an admin fires   *)
(* events of the source's state machine, and crashes happen.  Sources share *)
(* no state on this path, so the module describes one of them.              *)
(*                                                                         *)
(* One action is one database (or cache, or Redis) round trip.  Rake tasks  *)
(* and jobs load the source once and go on with that copy: "src" below is   *)
(* the state a job's copy has, "state" the one in the sources table.        *)
(***************************************************************************)
EXTENDS Naturals, FiniteSets, Statable

CONSTANTS
    Works,            \* the works of the installation
    Tracked,          \* those with works.tracked = true
    Rakes,            \* rake processes that may run at the same time
    Jobs,             \* job slots of Sidekiq, a bound on unfinished SourceJobs
    BatchSize,        \* job_batch_size
    MaxFailedQueries, \* max_failed_queries
    Obsolete,         \* is the source obsolete?
    Configured,       \* are its config fields filled in?
    Tasks,            \* the queue tasks that are run
    Events,           \* the events an admin fires
    RaiseAt,          \* the steps of a job at which an error may be raised
    SlowStaleness,    \* staleness is longer than any job takes
    MaxGen,           \* bound: rows created per work
    MaxInserts,       \* bound: pending InsertRetrievalJobs
    MaxAlerts,        \* bound: alerts that check_for_failures counts
    MaxRequeues,      \* bound: jobs that a Sidekiq shutdown requeues
    MaxCrashes        \* bound: processes killed

Task == {"stale", "all", "one", "reset"}
Event == {"install", "uninstall", "activate", "inactivate"}
Running == {"check", "load", "request", "after", "wait"}

ASSUME RetrievalAssumption ==
    /\ Tracked \subseteq Works
    /\ Rakes \cap Jobs = {}
    /\ Obsolete \in BOOLEAN /\ Configured \in BOOLEAN /\ SlowStaleness \in BOOLEAN
    /\ Tasks \subseteq Task /\ Events \subseteq Event /\ RaiseAt \subseteq Running
    /\ BatchSize \in Nat \ {0} /\ MaxFailedQueries \in Nat \ {0}
    /\ MaxGen \in Nat /\ MaxInserts \in Nat /\ MaxAlerts \in Nat
    /\ MaxRequeues \in Nat /\ MaxCrashes \in Nat

VARIABLES
    state,     \* sources.state
    rows,      \* the source's retrieval_statuses
    gen,       \* how many rows each work has had: ids are never reused
    queued,    \* rows with queued_at set
    stale,     \* rows with scheduled_at <= now
    alerts,    \* alerts that check_for_failures counts
    limited,   \* rate_limit_remaining < 10
    inserts,   \* InsertRetrievalJobs that have not run yet
    rake,      \* the rake processes
    job,       \* the SourceJobs
    admin,     \* an uninstall between its guard and its transition
    requeues, crashes

vars == <<state, rows, gen, queued, stale, alerts, limited, inserts,
          rake, job, admin, requeues, crashes>>

rowVars == <<rows, gen, stale>>
faultVars == <<requeues, crashes>>

\* A row is the g-th retrieval status that work w has had.
Row == Works \X (1..MaxGen)

Idle == [pc |-> "idle", task |-> "stale", todo |-> {}, batch |-> {}]
NoJob == [pc |-> "free", ids |-> {}, todo |-> {}, cur |-> {}, mark |-> FALSE,
          src |-> "waiting"]
NoUninstall == "none"

RakeRec == [pc : {"idle", "select", "wait", "mark", "enqueue"}, task : Task,
            todo : SUBSET Row, batch : SUBSET Row]

JobRec == [pc : {"free", "pending", "failed"} \cup Running, ids : SUBSET Row,
           todo : SUBSET Row, cur : SUBSET Row, mark : BOOLEAN, src : State]

-------------------------------------------------------------------------------
\* Queries and scopes.

tracked(r) == r[1] \in Tracked

\* Mutant: the scope forgets queued_at.
not_queued_any(r) == tracked(r)

not_queued(r) == tracked(r) /\ r \notin queued

stale_scope == {r \in rows : not_queued(r) /\ r \in stale}

check_for_failures == alerts > MaxFailedQueries

check_for_rate_limits == limited

\* Alert.where(message).where(unresolved).first_or_create: a new alert, or an
\* unresolved one with the same message is already there.
first_or_create_alert ==
    \/ alerts' = alerts
    \/ alerts < MaxAlerts /\ alerts' = alerts + 1

\* A job has its rows until its last statement on their queued_at.
Holds(j) == job[j].pc \notin {"free", "wait"}

HeldRows == UNION {job[j].ids : j \in {i \in Jobs : Holds(i)}}

MarkedByRake == UNION {rake[k].batch : k \in {i \in Rakes : rake[i].pc = "enqueue"}}

-------------------------------------------------------------------------------
\* The admin: web interface and db:sources tasks.

\* after_transition available => any - [available, retired]: create_retrievals.
create_retrievals(from, to) ==
    IF from = "available" /\ to \notin {"available", "retired"}
    THEN inserts < MaxInserts /\ inserts' = inserts + 1
    ELSE UNCHANGED inserts

\* after_transition to inactive: remove_queues.
remove_queues(to) ==
    IF to = "inactive" THEN queued' = {} ELSE UNCHANGED queued

Transition(to) ==
    /\ admin = NoUninstall
    /\ state' = to
    /\ create_retrievals(state, to)
    /\ remove_queues(to)
    /\ UNCHANGED <<rowVars, alerts, limited, rake, job, admin, faultVars>>

AdminInstall ==
    /\ "install" \in Events
    /\ state = "available"
    /\ Transition(install(state, Obsolete))

AdminActivate ==
    /\ "activate" \in Events
    /\ activate(state, Obsolete, Configured) # state
    /\ Transition(activate(state, Obsolete, Configured))

AdminInactivate ==
    /\ "inactivate" \in Events
    /\ Transition(inactivate(state))

\* where(:retrieved_at == '1970-01-01') compares a symbol with a string: the
\* condition is where(false), which filters nothing, and the source loses all its
\* rows (source_spec.rb 122-127).
remove_all_retrievals == {}

\* The guard of uninstall deletes, then counts: two statements.
AdminUninstall ==
    /\ "uninstall" \in Events
    /\ admin = NoUninstall /\ state # "available"
    /\ \A w \in Works : gen[w] < MaxGen
    /\ admin' = state
    /\ rows' = remove_all_retrievals
    /\ queued' = queued \cap rows'
    /\ stale' = stale \cap rows'
    /\ UNCHANGED <<state, gen, alerts, limited, inserts, rake, job, faultVars>>

AdminUninstalled ==
    /\ admin # NoUninstall
    /\ IF admin = "retired" /\ rows # {} THEN UNCHANGED state
       ELSE state' = uninstall(admin, rows = {})
    /\ admin' = NoUninstall
    /\ UNCHANGED <<rowVars, queued, alerts, limited, inserts, rake, job, faultVars>>

\* InsertRetrievalJob: a row for every work that has none.  scheduled_at and
\* retrieved_at default to 1970-01-01.
insert_retrievals ==
    LET missing == {w \in Works : ~\E r \in rows : r[1] = w}
        new == {<<w, gen[w] + 1>> : w \in missing}
    IN  /\ inserts > 0
        /\ inserts' = inserts - 1
        /\ \A w \in missing : gen[w] < MaxGen
        /\ gen' = [w \in Works |-> IF w \in missing THEN gen[w] + 1 ELSE gen[w]]
        /\ rows' = rows \cup new
        /\ stale' = stale \cup new
        /\ UNCHANGED <<state, queued, alerts, limited, rake, job, admin, faultVars>>

-------------------------------------------------------------------------------
\* The rake tasks.

\* Mutant: the tasks take Source.waiting for Source.active.
RakeStartWaiting(k, t) ==
    /\ rake[k].pc = "idle"
    /\ t \in Tasks
    /\ state = "waiting"
    /\ rake' = [rake EXCEPT ![k] = [Idle EXCEPT !.pc = "select", !.task = t]]
    /\ UNCHANGED <<state, rowVars, queued, alerts, limited, inserts, job, admin, faultVars>>

\* sources = Source.active; each of them is loaded here.  The copy is active and
\* stays so, whatever becomes of the source: active? never stops the task.
RakeStart(k, t) ==
    /\ rake[k].pc = "idle"
    /\ t \in Tasks
    /\ active(state)
    /\ rake' = [rake EXCEPT ![k] = [Idle EXCEPT !.pc = "select", !.task = t]]
    /\ UNCHANGED <<state, rowVars, queued, alerts, limited, inserts, job, admin, faultVars>>

\* The rows that one run may take: queue_all_works with or without :all, or the
\* one row of a given work.
Selection(t) ==
    CASE t = "stale" -> {stale_scope}
      [] t = "all"   -> {{r \in rows : tracked(r)}}
      [] t = "one"   -> {{r} : r \in rows}
      [] OTHER       -> {}

queue_all_works(k) ==
    /\ rake[k].pc = "select"
    /\ \E todo \in Selection(rake[k].task) :
         rake' = [rake EXCEPT ![k] = [@ EXCEPT !.todo = todo,
                                       !.pc = IF todo = {} THEN "wait" ELSE "mark"]]
    /\ UNCHANGED <<state, rowVars, queued, alerts, limited, inserts, job, admin, faultVars>>

\* queue:one for a work that has no row prints a message and exits.
RakeNoRow(k) ==
    /\ rake[k].pc = "select" /\ rake[k].task = "one"
    /\ \E w \in Works : \A r \in rows : r[1] # w
    /\ rake' = [rake EXCEPT ![k] = Idle]
    /\ UNCHANGED <<state, rowVars, queued, alerts, limited, inserts, job, admin, faultVars>>

RakeReset(k) ==
    /\ rake[k].pc = "select" /\ rake[k].task = "reset"
    /\ queued' = {}
    /\ rake' = [rake EXCEPT ![k] = Idle]
    /\ UNCHANGED <<state, rowVars, alerts, limited, inserts, job, admin, faultVars>>

\* Nothing to queue: the event wait, fired on the copy, has the same outcome
\* whatever state the copy has.
RakeWait(k) ==
    /\ rake[k].pc = "wait"
    /\ state' = wait(state)
    /\ rake' = [rake EXCEPT ![k] = Idle]
    /\ UNCHANGED <<rowVars, queued, alerts, limited, inserts, job, admin, faultVars>>

\* each_slice(job_batch_size): mark the slice ...
RakeMark(k) ==
    /\ rake[k].pc = "mark"
    /\ \E batch \in SUBSET rake[k].todo :
         /\ \/ Cardinality(batch) = BatchSize
            \/ batch = rake[k].todo /\ Cardinality(batch) < BatchSize
         /\ queued' = queued \cup (batch \cap rows)
         /\ rake' = [rake EXCEPT ![k] = [@ EXCEPT !.pc = "enqueue", !.batch = batch,
                                                  !.todo = rake[k].todo \ batch]]
    /\ UNCHANGED <<state, rowVars, alerts, limited, inserts, job, admin, faultVars>>

\* ... then enqueue its job.
perform_later(k) ==
    /\ rake[k].pc = "enqueue"
    /\ \E j \in Jobs :
         /\ job[j].pc = "free"
         /\ job' = [job EXCEPT ![j] = [NoJob EXCEPT !.pc = "pending",
                                                    !.ids = rake[k].batch]]
    /\ rake' = [rake EXCEPT ![k] = IF rake[k].todo = {} THEN Idle
                                   ELSE [rake[k] EXCEPT !.pc = "mark", !.batch = {}]]
    /\ UNCHANGED <<state, rowVars, queued, alerts, limited, inserts, admin, faultVars>>

RakeStep(k) ==
    \/ queue_all_works(k) \/ RakeNoRow(k) \/ RakeReset(k)
    \/ RakeWait(k) \/ RakeMark(k) \/ perform_later(k)

-------------------------------------------------------------------------------
\* SourceJob.

\* Sidekiq picks the job; its arguments are deserialized, the source is loaded.
JobStart(j) ==
    /\ job[j].pc = "pending"
    /\ job' = [job EXCEPT ![j] = [@ EXCEPT !.pc = "check", !.todo = job[j].ids,
                                            !.src = state]]
    /\ UNCHANGED <<state, rowVars, queued, alerts, limited, inserts, rake, admin, faultVars>>

\* What is left of a job that raised: its arguments.
Raised(j) == [NoJob EXCEPT !.pc = "failed", !.ids = job[j].ids]

\* work_after_check on the copy.  The state is written even by a transition to
\* the same state.  Unless the source is working now, the job raises.
JobCheck(j) ==
    LET to == work_after_check(job[j].src, check_for_failures, check_for_rate_limits)
    IN  /\ job[j].pc = "check"
        /\ state' = to
        /\ remove_queues(to)
        /\ IF to = "disabled" /\ job[j].src # "disabled" THEN first_or_create_alert
           ELSE UNCHANGED alerts
        /\ job' = [job EXCEPT ![j] = IF to = "working"
                                     THEN [job[j] EXCEPT !.pc = "load", !.src = to]
                                     ELSE Raised(j)]
        /\ UNCHANGED <<rowVars, limited, inserts, rake, admin, faultVars>>

\* Load the next retrieval status; RecordNotFound when it is gone.
JobLoad(j) ==
    /\ job[j].pc = "load"
    /\ \E r \in job[j].todo :
         job' = [job EXCEPT ![j] = IF r \in rows
                                   THEN [job[j] EXCEPT !.pc = "request", !.cur = {r},
                                                       !.mark = (r \in queued)]
                                   ELSE Raised(j)]
    /\ UNCHANGED <<state, rowVars, queued, alerts, limited, inserts, rake, admin, faultVars>>

\* The next row, or the end of perform.
Advance(j) ==
    LET left == job[j].todo \ job[j].cur
    IN  job' = [job EXCEPT ![j] = [@ EXCEPT !.todo = left, !.cur = {}, !.mark = FALSE,
                                            !.pc = IF left = {} THEN "after" ELSE "check"]]

\* perform_get_data when the request fails: an alert, and the row stays as is.
JobSkipped(j) ==
    /\ job[j].pc = "request"
    /\ first_or_create_alert
    /\ Advance(j)
    /\ UNCHANGED <<state, rowVars, queued, limited, inserts, rake, admin, faultVars>>

\* Mutant: the update of a row that was deleted in between inserts it again.
perform_get_data_upsert(j) ==
    /\ job[j].pc = "request"
    /\ limited' \in BOOLEAN
    /\ stale' = (stale \ job[j].cur) \cup (job[j].cur \ rows)
    /\ queued' = IF job[j].mark THEN queued \ job[j].cur ELSE queued
    /\ Advance(j)
    /\ UNCHANGED <<state, rows, gen, alerts, inserts, rake, admin, faultVars>>

\* perform_get_data when data came back.  The response sets the rate limit.
\* queued_at is written only if the loaded row had it set, and nothing at all if
\* the work or the source is not valid.
perform_get_data(j) ==
    /\ job[j].pc = "request"
    /\ job[j].cur \subseteq rows
    /\ limited' \in BOOLEAN
    /\ \E saved \in {job[j].cur, {}} :
         /\ stale' = stale \ saved
         /\ queued' = IF job[j].mark THEN queued \ saved ELSE queued
    /\ Advance(j)
    /\ UNCHANGED <<state, rows, gen, alerts, inserts, rake, admin, faultVars>>

\* Any other StandardError in perform or in after_perform: the wait time is too
\* long, the row was deleted under the job, a query fails.  A response that came
\* before the error has set the rate limit.
JobRaise(j) ==
    /\ job[j].pc \in RaiseAt
    /\ job' = [job EXCEPT ![j] = Raised(j)]
    /\ limited' \in IF job[j].pc = "request" THEN BOOLEAN ELSE {limited}
    /\ UNCHANGED <<state, rowVars, queued, alerts, inserts, rake, admin, faultVars>>

\* Mutant: the handler that ignores the error comes first.
JobFailedIgnored(j) ==
    /\ job[j].pc = "failed"
    /\ job' = [job EXCEPT ![j] = NoJob]
    /\ UNCHANGED <<state, rowVars, queued, alerts, limited, inserts, rake, admin, faultVars>>

\* rescue_from StandardError was declared last and so is tried first: it
\* handles every error, those with a handler of their own included.
JobFailed(j) ==
    /\ job[j].pc = "failed"
    /\ queued' = queued \ job[j].ids
    /\ first_or_create_alert
    /\ job' = [job EXCEPT ![j] = NoJob]
    /\ UNCHANGED <<state, rowVars, limited, inserts, rake, admin, faultVars>>

\* Mutant: after_perform relies on update_data to clear queued_at.
after_perform_no_clear(j) ==
    /\ job[j].pc = "after"
    /\ job' = [job EXCEPT ![j].pc = "wait"]
    /\ UNCHANGED <<state, rowVars, queued, alerts, limited, inserts, rake, admin, faultVars>>

\* after_perform: clear queued_at ...
after_perform(j) ==
    /\ job[j].pc = "after"
    /\ queued' = queued \ job[j].ids
    /\ job' = [job EXCEPT ![j].pc = "wait"]
    /\ UNCHANGED <<state, rowVars, alerts, limited, inserts, rake, admin, faultVars>>

\* ... then wait_after_check on the copy.
JobWait(j) ==
    /\ job[j].pc = "wait"
    /\ state' = wait_after_check(job[j].src)
    /\ job' = [job EXCEPT ![j] = NoJob]
    /\ UNCHANGED <<rowVars, queued, alerts, limited, inserts, rake, admin, faultVars>>

JobStep(j) ==
    \/ JobStart(j) \/ JobCheck(j) \/ JobLoad(j) \/ JobSkipped(j) \/ perform_get_data(j)
    \/ JobRaise(j) \/ JobFailed(j) \/ after_perform(j) \/ JobWait(j)

-------------------------------------------------------------------------------
\* The environment.

\* scheduled_at of a row is reached.
TimePasses ==
    /\ \E r \in rows \ stale :
         /\ SlowStaleness => \A j \in Jobs : r \notin job[j].ids
         /\ stale' = stale \cup {r}
    /\ UNCHANGED <<state, rows, gen, queued, alerts, limited, inserts, rake, job, admin,
                   faultVars>>

\* Alerts get older than a day, or are deleted.
AlertsAge ==
    /\ alerts > 0
    /\ alerts' \in 0..(alerts - 1)
    /\ UNCHANGED <<state, rowVars, queued, limited, inserts, rake, job, admin, faultVars>>

\* memcached forgets the rate limit.
CacheEvicted ==
    /\ limited
    /\ limited' = FALSE
    /\ UNCHANGED <<state, rowVars, queued, alerts, inserts, rake, job, admin, faultVars>>

\* Sidekiq shuts down in good order: unfinished jobs go back to the queue.
JobRequeue(j) ==
    /\ job[j].pc \in Running \cup {"failed"}
    /\ requeues < MaxRequeues
    /\ requeues' = requeues + 1
    /\ job' = [job EXCEPT ![j] = [NoJob EXCEPT !.pc = "pending", !.ids = job[j].ids]]
    /\ UNCHANGED <<state, rowVars, queued, alerts, limited, inserts, rake, admin, crashes>>

\* Sidekiq is killed: the jobs it had fetched are lost.
JobCrash(j) ==
    /\ job[j].pc \in Running \cup {"failed"}
    /\ crashes < MaxCrashes
    /\ crashes' = crashes + 1
    /\ job' = [job EXCEPT ![j] = NoJob]
    /\ UNCHANGED <<state, rowVars, queued, alerts, limited, inserts, rake, admin, requeues>>

RakeCrash(k) ==
    /\ rake[k].pc # "idle"
    /\ crashes < MaxCrashes
    /\ crashes' = crashes + 1
    /\ rake' = [rake EXCEPT ![k] = Idle]
    /\ UNCHANGED <<state, rowVars, queued, alerts, limited, inserts, job, admin, requeues>>

-------------------------------------------------------------------------------
Init ==
    /\ state = "available"
    /\ rows = {} /\ queued = {} /\ stale = {}
    /\ gen = [w \in Works |-> 0]
    /\ alerts = 0 /\ limited = FALSE /\ inserts = 0
    /\ rake = [k \in Rakes |-> Idle]
    /\ job = [j \in Jobs |-> NoJob]
    /\ admin = NoUninstall
    /\ requeues = 0 /\ crashes = 0

AdminNext ==
    \/ AdminInstall \/ AdminActivate \/ AdminInactivate
    \/ AdminUninstall \/ AdminUninstalled

Next ==
    \/ AdminNext
    \/ insert_retrievals
    \/ \E k \in Rakes : RakeStep(k) \/ RakeCrash(k) \/ \E t \in Task : RakeStart(k, t)
    \/ \E j \in Jobs : JobStep(j) \/ JobRequeue(j) \/ JobCrash(j)
    \/ TimePasses \/ AlertsAge \/ CacheEvicted

Spec == Init /\ [][Next]_vars

-------------------------------------------------------------------------------
\* Properties.

TypeOK ==
    /\ state \in State
    /\ rows \subseteq Row
    /\ gen \in [Works -> 0..MaxGen]
    /\ queued \subseteq rows /\ stale \subseteq rows
    /\ alerts \in 0..MaxAlerts /\ limited \in BOOLEAN /\ inserts \in 0..MaxInserts
    /\ rake \in [Rakes -> RakeRec]
    /\ job \in [Jobs -> JobRec]
    /\ admin \in State \cup {NoUninstall}
    /\ requeues \in 0..MaxRequeues /\ crashes \in 0..MaxCrashes

\* A row whose queued_at is set is in a job that will clear it (source_job.rb
\* 24 and 61), or in the slice a rake task is about to enqueue.  A row for
\* which this fails is skipped by queue:stale until someone resets it.
MarkHasJob == crashes = 0 => queued \subseteq HeldRows \cup MarkedByRake

\* A source that is not active is at rest when nothing is marked and no process
\* goes on with a copy of it that has another state.
OtherCopy ==
    \/ \E k \in Rakes : rake[k].pc # "idle"
    \/ \E j \in Jobs : job[j].pc \in Running /\ job[j].src # state

AtRest == ~active(state) /\ queued = {} /\ ~OtherCopy

\* Once at rest, a source stays at rest until the admin acts: jobs enqueued
\* before neither request data nor change the state (statable.rb 90,
\* source_job.rb 38), and nothing is queued.
RestsUntilAdmin == [][AtRest /\ ~AdminNext => AtRest' /\ state' = state]_vars

\* The rows that job j has still to process.
Unprocessed(j) == IF job[j].pc = "pending" THEN job[j].ids ELSE job[j].todo

\* queue:stale alone never has a row processed by two jobs: the scope
\* not_queued keeps out what is marked, and marks outlive the processing
\* (retrieval_status.rb 37-38, source_job.rb 61).
OneJobPerRow ==
    \A i, j \in Jobs : i # j => Unprocessed(i) \cap Unprocessed(j) = {}

\* Sidekiq runs every job it has, cron runs queue:stale, a rake task that was
\* started goes on.
Fairness ==
    /\ \A j \in Jobs : WF_vars(JobStep(j))
    /\ \A k \in Rakes : WF_vars(RakeStep(k)) /\ WF_vars(RakeStart(k, "stale"))
    /\ WF_vars(insert_retrievals)

FairSpec == Spec /\ Fairness

\* No mark is for ever: every path of SourceJob ends with queued_at cleared.
MarksAreCleared == \A r \in Row : r \in queued ~> r \notin queued

\* "When we have to update the metrics for a work (determined by the staleness
\* interval), a job is added to the background queue for that source"
\* (docs/setup.md:122): a stale row of an active source gets into a job.
StaleReachesJob ==
    \A r \in Row :
        r \in stale /\ tracked(r) /\ active(state)
            ~> r \notin stale \/ r \in HeldRows \/ ~active(state)

\* The owners of the abstract specification are the rake processes and the
\* jobs; a job owns its rows until it has cleared their marks.
Owner == Rakes \cup Jobs

held ==
    [o \in Owner |-> IF o \in Jobs THEN (IF Holds(o) THEN job[o].ids ELSE {})
                     ELSE (IF rake[o].pc = "enqueue" THEN rake[o].batch ELSE {})]

Queue == INSTANCE StatusQueue WITH marked <- queued, lost <- crashes

\* Every step of rake tasks, jobs, admin and environment is one that the
\* abstract queue allows.
ImplementsQueue == Queue!Spec

===============================================================================

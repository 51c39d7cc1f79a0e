------------------------------- MODULE Filters -------------------------------
(***************************************************************************)
(* SourceJobs leave an ApiResponse for every retrieval.  Once a day, or by   *)
(* hand, filters look at those that are unresolved, raise alerts and resolve *)
(* them; cron then deletes old responses and resolves minor alerts.  Nothing *)
(* keeps tasks from overlapping with each other, with SourceJobs or with an  *)
(* admin.                                                                   *)
(*                                                                         *)
(* One action is one statement.  What a filter looks for is abstracted to    *)
(* the set of filters that a response is a hit for; an alert is about a      *)
(* source, which stands for the source and the work.  Resolved alerts, which *)
(* nobody looks at but db:alerts:delete, reviews and mails are left out.     *)
(***************************************************************************)
EXTENDS Integers, Sequences, FiniteSets

CONSTANTS
    Tasks,         \* rake processes
    Cron,          \* those that run cron:daily, the others run filter:all
    Sources,       \* active sources
    Names,         \* the filters in the order of their names
    Minor,         \* filters that raise alerts below ERROR
    NotUpdated,    \* SourceNotUpdatedError
    MaxResponses,  \* bound: API responses
    MaxDay,        \* bound: days that pass
    MaxFails,      \* bound: tasks that fail
    MaxChanges     \* bound: times that an admin intervenes

Filter == {Names[i] : i \in DOMAIN Names}

ASSUME FiltersAssumption ==
    /\ Cron \subseteq Tasks /\ IsFiniteSet(Tasks) /\ Names \in Seq(Filter) /\ Names # <<>>
    /\ MaxResponses \in Nat /\ MaxDay \in Nat /\ MaxFails \in Nat /\ MaxChanges \in Nat

VARIABLES
    responses, \* the table api_responses by primary key
    alerts,    \* the unresolved alerts that filters have raised
    active,    \* filters that are active
    run,       \* per task, where it is
    day, fails, changes,
    overlap    \* have two tasks run at the same time?

vars == <<responses, alerts, active, run, day, fails, changes, overlap>>

\* A response: slipped says that it came under a run of the filters that had begun;
\* raised, which filters raised an alert for it; done, whether a run has resolved it after
\* the filters had seen it, or only without.
Response == [source : Sources, hits : SUBSET Filter, at : 0..MaxDay,
             state : {"inserted", "stored", "deleted"}, unresolved : BOOLEAN,
             slipped : BOOLEAN, raised : SUBSET Filter, done : {"no", "missed", "seen"}]

\* What an alert is raised for: a response, or a source (SourceNotUpdatedError).
Subject == [source : Sources, id : 0..MaxResponses]

\* An alert, identified by the task and the response that it was created for.
Alert == [name : Filter, source : Sources, id : 0..MaxResponses, task : Tasks]

NoRun == [pc |-> "idle", id |-> 0, names |-> {}, next |-> 1, found |-> {}, alert |-> FALSE,
          day |-> 0]

Goto(p, pc) == run' = [run EXCEPT ![p].pc = pc]
Ids == DOMAIN responses
Unresolved == {i \in Ids : responses[i].state = "stored" /\ responses[i].unresolved}

\* ApiResponse.filter(id)
filter(id) == {i \in Unresolved : i <= id}

\* What comes after the filters: cron:daily goes on.
AfterRun(p) == [NoRun EXCEPT !.pc = IF p \in Cron THEN "delete" ELSE "idle", !.day = run[p].day]

Filtering == {"load", "filter", "find", "save", "resolve"}

\* Is a task at work that resolves the response?
UnderRun(id) == \E p \in Tasks : run[p].pc \in Filtering /\ id <= run[p].id

-------------------------------------------------------------------------------
\* Filter.run

\* Mutant: the filters run although there is no response.
Start_always(p) ==
    /\ run[p].pc = "idle"
    /\ run' = [run EXCEPT ![p] = [NoRun EXCEPT !.pc = "load", !.day = IF p \in Cron THEN day ELSE 0,
                  !.id = IF Unresolved = {} THEN 0 ELSE CHOOSE i \in Unresolved : filter(i) = Unresolved]]
    /\ overlap' = (overlap \/ \E q \in Tasks : run[q].pc # "idle")
    /\ UNCHANGED <<responses, alerts, active, day, fails, changes>>

\* maximum(:id) of the unresolved responses
Start(p) ==
    /\ run[p].pc = "idle"
    /\ LET began == [NoRun EXCEPT !.pc = "load", !.day = IF p \in Cron THEN day ELSE 0]
       IN  IF Unresolved = {}
           THEN run' = [run EXCEPT ![p] = IF p \in Cron THEN [began EXCEPT !.pc = "delete"] ELSE NoRun]
           ELSE run' = [run EXCEPT ![p] = [began EXCEPT
                           !.id = CHOOSE i \in Unresolved : filter(i) = Unresolved]]
    /\ overlap' = (overlap \/ \E q \in Tasks : run[q].pc # "idle")
    /\ UNCHANGED <<responses, alerts, active, day, fails, changes>>

\* Filter.active.each loads the filters.
Load(p) ==
    /\ run[p].pc = "load"
    /\ run' = [run EXCEPT ![p] = [@ EXCEPT !.names = active, !.pc = "filter"]]
    /\ UNCHANGED <<responses, alerts, active, day, fails, changes, overlap>>

\* The next filter, or the end.
Advance(p) ==
    run' = [run EXCEPT ![p] = [@ EXCEPT !.found = {}, !.alert = FALSE,
                !.next = IF run[p].next = Len(Names) THEN 1 ELSE run[p].next + 1,
                !.pc = IF run[p].next = Len(Names) THEN "resolve" ELSE "filter"]]

current(p) == Names[run[p].next]

\* run_filter: what the filter finds.  Filters that were not active are not run.
Found(p) ==
    LET f == current(p)
        seen == filter(run[p].id)
    IN  IF f \notin run[p].names THEN {}
        ELSE IF f = NotUpdated
        THEN {[source |-> s, id |-> 0] : s \in Sources \ {responses[i].source : i \in seen}}
        ELSE {[source |-> responses[i].source, id |-> i] : i \in {i \in seen : f \in responses[i].hits}}

run_filter(p) ==
    /\ run[p].pc = "filter"
    /\ IF Found(p) = {} THEN Advance(p)
       ELSE run' = [run EXCEPT ![p] = [@ EXCEPT !.found = Found(p), !.pc = "find"]]
    /\ UNCHANGED <<responses, alerts, active, day, fails, changes, overlap>>

Open(f, s) == {a \in alerts : a.name = f /\ a.source = s}

\* The responses are worked through one after the other.
NextSubject(p) == CHOOSE x \in run[p].found : \A y \in run[p].found : x.id <= y.id

\* Mutant: the alert is not looked up.
first_or_initialize_new(p) ==
    /\ run[p].pc = "find"
    /\ Goto(p, "save")
    /\ UNCHANGED <<responses, alerts, active, day, fails, changes, overlap>>

\* raise_alerts: an unresolved alert for the same subject is looked up ...
first_or_initialize(p) ==
    LET open == Open(current(p), NextSubject(p).source)
    IN  /\ run[p].pc = "find"
        /\ run' = [run EXCEPT ![p] = [@ EXCEPT !.pc = "save", !.alert = (open # {})]]
        /\ UNCHANGED <<responses, alerts, active, day, fails, changes, overlap>>

\* ... and updated, or else created.
update_attributes(p) ==
    LET f == current(p)
        x == NextSubject(p)
    IN  /\ run[p].pc = "save"
        /\ alerts' = IF run[p].alert THEN alerts
                     ELSE alerts \cup {[name |-> f, source |-> x.source, id |-> x.id, task |-> p]}
        /\ responses' = IF x.id = 0 THEN responses
                        ELSE [responses EXCEPT ![x.id].raised = @ \cup {f}]
        /\ IF run[p].found = {x} THEN Advance(p)
           ELSE run' = [run EXCEPT ![p] = [@ EXCEPT !.pc = "find", !.alert = FALSE,
                                                    !.found = run[p].found \ {x}]]
        /\ UNCHANGED <<active, day, fails, changes, overlap>>

\* A response that slipped under the run is resolved although no filter need have seen it.
Outcome(i) == IF ~responses[i].slipped \/ responses[i].done = "seen" THEN "seen" ELSE "missed"

Resolved(ids) == [i \in Ids |-> IF i \in ids
                                THEN [responses[i] EXCEPT !.unresolved = FALSE, !.done = Outcome(i)]
                                ELSE responses[i]]

\* Mutant: all responses are resolved.
resolve_all(p) ==
    /\ run[p].pc = "resolve"
    /\ responses' = Resolved(Unresolved)
    /\ run' = [run EXCEPT ![p] = AfterRun(p)]
    /\ UNCHANGED <<alerts, active, day, fails, changes, overlap>>

resolve(p) ==
    /\ run[p].pc = "resolve"
    /\ responses' = Resolved(filter(run[p].id))
    /\ run' = [run EXCEPT ![p] = AfterRun(p)]
    /\ UNCHANGED <<alerts, active, day, fails, changes, overlap>>

-------------------------------------------------------------------------------
\* The rest of cron:daily.

Deleted(i) == [responses[i] EXCEPT !.state = "deleted", !.hits = {}, !.at = 0, !.raised = {},
                                   !.slipped = FALSE, !.unresolved = FALSE]

\* Mutant: the responses of the days before are deleted.
delete_responses_early(p) ==
    /\ run[p].pc = "delete"
    /\ responses' = [i \in Ids |-> IF responses[i].state = "stored" /\ responses[i].at < day
                                   THEN Deleted(i) ELSE responses[i]]
    /\ Goto(p, "alerts")
    /\ UNCHANGED <<alerts, active, day, fails, changes, overlap>>

\* db:api_responses:delete: what is older than a day, resolved or not
api_responses_delete ==
    responses' = [i \in Ids |-> IF responses[i].state = "stored" /\ responses[i].at < day - 1
                                THEN Deleted(i) ELSE responses[i]]

\* as a part of cron:daily
delete_responses(p) ==
    /\ run[p].pc = "delete"
    /\ api_responses_delete
    /\ Goto(p, "alerts")
    /\ UNCHANGED <<alerts, active, day, fails, changes, overlap>>

\* or by hand
delete_by_hand ==
    /\ changes < MaxChanges
    /\ changes' = changes + 1
    /\ api_responses_delete
    /\ UNCHANGED <<alerts, active, run, day, fails, overlap>>

\* db:alerts:resolve
resolve_alerts(p) ==
    /\ run[p].pc = "alerts"
    /\ alerts' = {a \in alerts : a.name \notin Minor}
    /\ run' = [run EXCEPT ![p] = NoRun]
    /\ UNCHANGED <<responses, active, day, fails, changes, overlap>>

\* A statement fails, or the process is killed: the tasks that follow are not run.
Fails(p) ==
    /\ run[p].pc # "idle"
    /\ fails < MaxFails
    /\ fails' = fails + 1
    /\ run' = [run EXCEPT ![p] = NoRun]
    /\ UNCHANGED <<responses, alerts, active, day, changes, overlap>>

TaskStep(p) ==
    \/ Load(p) \/ run_filter(p) \/ first_or_initialize(p) \/ update_attributes(p) \/ resolve(p)
    \/ delete_responses(p) \/ resolve_alerts(p)

-------------------------------------------------------------------------------
\* SourceJob: the response gets its id when it is inserted, and is seen when that is
\* committed.
Insert ==
    /\ Len(responses) < MaxResponses
    /\ \E s \in Sources, hits \in SUBSET (Filter \ {NotUpdated}) :
         responses' = Append(responses,
             [source |-> s, hits |-> hits, at |-> day, state |-> "inserted", unresolved |-> TRUE,
              slipped |-> FALSE, raised |-> {}, done |-> "no"])
    /\ UNCHANGED <<alerts, active, run, day, fails, changes, overlap>>

Commit(i) ==
    /\ i \in Ids /\ responses[i].state = "inserted"
    /\ responses' = [responses EXCEPT ![i] = [@ EXCEPT !.state = "stored", !.slipped = UnderRun(i)]]
    /\ UNCHANGED <<alerts, active, run, day, fails, changes, overlap>>

\* Filter.unresolve, to apply the filters again
unresolve ==
    /\ changes < MaxChanges
    /\ changes' = changes + 1
    /\ responses' = [i \in Ids |-> IF responses[i].state = "stored"
                                   THEN [responses[i] EXCEPT !.unresolved = TRUE, !.raised = {},
                                                             !.slipped = UnderRun(i)]
                                   ELSE responses[i]]
    /\ UNCHANGED <<alerts, active, run, day, fails, overlap>>

\* FiltersController#update
update(f) ==
    /\ changes < MaxChanges
    /\ changes' = changes + 1
    /\ active' = IF f \in active THEN active \ {f} ELSE active \cup {f}
    /\ UNCHANGED <<responses, alerts, run, day, fails, overlap>>

\* AlertsController#destroy: the alerts that have the class, the source, the work or the
\* message in common with one
destroy ==
    /\ changes < MaxChanges
    /\ changes' = changes + 1
    /\ \E a \in alerts : \E common \in SUBSET alerts :
         a \in common /\ alerts' = alerts \ common
    /\ UNCHANGED <<responses, active, run, day, fails, overlap>>

\* A transaction takes less than a day, and so does cron:daily.
DayPasses ==
    /\ day < MaxDay
    /\ \A i \in Ids : responses[i].state # "inserted"
    /\ \A p \in Cron : run[p].pc = "idle" \/ run[p].day = day
    /\ day' = day + 1
    /\ UNCHANGED <<responses, alerts, active, run, fails, changes, overlap>>

Init ==
    /\ responses = <<>> /\ alerts = {}
    /\ active = Filter
    /\ run = [p \in Tasks |-> NoRun]
    /\ day = 0 /\ fails = 0 /\ changes = 0 /\ overlap = FALSE

Next ==
    \/ \E p \in Tasks : Start(p) \/ TaskStep(p) \/ Fails(p)
    \/ Insert \/ (\E i \in Ids : Commit(i)) \/ unresolve \/ delete_by_hand
    \/ (\E f \in Filter : update(f)) \/ destroy \/ DayPasses

Spec == Init /\ [][Next]_vars

-------------------------------------------------------------------------------
\* Properties.

RunRec == [pc : Filtering \cup {"idle", "delete", "alerts"},
           id : 0..MaxResponses, names : SUBSET Filter, next : 1..Len(Names),
           found : SUBSET Subject, alert : BOOLEAN, day : 0..MaxDay]

TypeOK ==
    /\ responses \in Seq(Response) /\ Len(responses) <= MaxResponses
    /\ alerts \subseteq Alert
    /\ active \subseteq Filter
    /\ run \in [Tasks -> RunRec]
    /\ \A p \in Tasks : run[p].pc \in Filtering => run[p].id \in Ids
    /\ day \in 0..MaxDay /\ fails \in 0..MaxFails /\ changes \in 0..MaxChanges
    /\ overlap \in BOOLEAN

\* No response is resolved before every filter that was active when the run began has
\* raised its alert (filter.rb 29-51, 71-75): the id that was read first limits both.
\* A response that is committed, or unresolved again, with a lower id during the run
\* is resolved with the others.
Examined ==
    [][\A p \in Tasks, i \in Ids :
         (/\ run[p].pc = "resolve" /\ run'[p] # run[p] /\ ~responses[i].slipped
          /\ responses[i].unresolved /\ responses'[i].state = "stored" /\ ~responses'[i].unresolved)
           => responses[i].hits \cap run[p].names \subseteq responses[i].raised]_vars

\* What cron:daily deletes (cron.rake 15-30, db.rake 346-355), resolved or not, has been
\* through a run of the filters that was completed, even if cron:daily fails for some days:
\* the filters have seen it then, unless it slipped under that run.
NothingLost ==
    [][\A p \in Cron, i \in Ids :
         (/\ run[p].pc = "delete" /\ run'[p].pc = "alerts"
          /\ responses[i].state = "stored" /\ responses'[i].state = "deleted")
           => responses[i].done \in {"seen", "missed"}]_vars

\* A filter has one unresolved alert for a source and a work (filter.rb 126-134), although
\* tasks fail and are run again, and as many as there are tasks if those overlap: no
\* index requires it.
OneAlert ==
    \A a \in alerts :
        Cardinality(Open(a.name, a.source)) <= IF overlap THEN Cardinality(Tasks) ELSE 1

===============================================================================

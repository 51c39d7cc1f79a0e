-------------------------------- MODULE Works --------------------------------
(***************************************************************************)
(* The works that sources report: update_works stores them one after the     *)
(* other with Work.find_or_create and links each to the work that it cites.  *)
(* Meanwhile sources are installed, and get retrieval statuses for all works, *)
(* and the events of a source are deleted.                                   *)
(*                                                                         *)
(* An identifier is a type and the article that it belongs to.  Sources give *)
(* no ark, so it is left out.                                               *)
(***************************************************************************)
EXTENDS Naturals, Sequences, FiniteSets

CONSTANTS
    Jobs,      \* SourceJobs that run at the same time
    Articles,
    Sources,
    Reports,   \* lists of items: what a source may report; an empty one changes nothing
    Known,     \* the work that is there at first, as its identifiers
    MaxRuns,   \* bound: retrievals
    MaxDeaths, \* bound: jobs that are killed, or stopped by an error of the database
    MaxDeletes \* bound: runs of DeleteEventJob

Column == <<"doi", "pmid", "pmcid", "canonical_url", "arxiv">>
Ids == {Column[i] : i \in DOMAIN Column} \X Articles

\* An item: identifiers, whether its URL is in another form than the normalized one,
\* whether the source's works are tracked, and the pid of the work that it cites.
Item == [ids : (SUBSET Ids) \ {{}}, raw : BOOLEAN, tracked : BOOLEAN, related : Ids]

ASSUME WorksAssumption ==
    /\ IsFiniteSet(Jobs)
    /\ \A report \in Reports : report \in Seq(Item) /\ report # <<>>
    /\ Known \in (SUBSET Ids) \ {{}}
    /\ MaxRuns \in Nat /\ MaxDeaths \in Nat /\ MaxDeletes \in Nat

VARIABLES
    works,     \* the table by primary key; a work that was destroyed has no identifiers
    relations, \* the table: the works and the type, the source, the run that made it
    statuses,  \* retrieval_statuses: pairs of a work and a source
    obsolete,  \* sources that are retired when they are installed; never changes
    installed, \* installed sources, retired ones included
    pending,   \* sources with an InsertRetrievalJob
    job,
    doomed,    \* the works that DeleteEventJob has still to destroy
    runs, deaths, deletes,
    disturbed, \* have two SourceJobs run at the same time?
    overlap    \* was a source installed while a work was being created?

vars == <<works, relations, statuses, obsolete, installed, pending, job, doomed, runs, deaths,
          deletes, disturbed, overlap>>
tables == <<works, relations, statuses>>
rest == <<obsolete, installed, pending, doomed, runs, deaths, deletes, disturbed, overlap>>

NoJob == [pc |-> "idle", todo |-> <<>>, errors |-> {}, sees |-> {}, new |-> {}, work |-> 0,
          related |-> 0, created |-> FALSE, run |-> 0, source |-> 0]

Goto(j, pc) == job' = [job EXCEPT ![j].pc = pc]
Idle(j) == job' = [job EXCEPT ![j] = NoJob]
item(j) == Head(job[j].todo)

Live == {w \in DOMAIN works : works[w].ids # {}}

\* where(column: value), value being what the identifiers have there, maybe nil
Of(ids, column) == {p \in ids : p[1] = column}
Where(ids, column) == {w \in Live : Of(works[w].ids, column) = Of(ids, column)}
first(set) == CHOOSE w \in set : \A v \in set : w <= v

\* set_pid: the first identifier there is
pid(ids) ==
    CHOOSE p \in ids : \E i \in DOMAIN Column :
        p[1] = Column[i] /\ \A q \in ids : \A k \in 1..(i - 1) : q[1] # Column[k]

\* Mutant: the URL is not validated.
taken_indexed(ids, set) ==
    {p[1] : p \in {p \in ids : p[1] # "canonical_url" /\ \E w \in set : p \in works[w].ids}}
    \cup {c \in {"pid"} : \E w \in set : pid(works[w].ids) = pid(ids)}

\* The columns with a value that another work has, by the validations ...
taken(ids, set) ==
    {p[1] : p \in {p \in ids : \E w \in set : p \in works[w].ids}}
    \cup {c \in {"pid"} : \E w \in set : pid(works[w].ids) = pid(ids)}

\* ... and by the unique indexes.
not_unique(ids, set) == taken(ids, set) \ {"canonical_url"}

-------------------------------------------------------------------------------
\* SourceJob: RetrievalStatus#update_works, Work.find_or_create.

Start(j) ==
    /\ job[j].pc = "idle"
    /\ runs < MaxRuns
    /\ runs' = runs + 1
    /\ \E report \in Reports, s \in installed :
         job' = [job EXCEPT ![j] = [NoJob EXCEPT !.pc = "create", !.todo = report,
                                                 !.run = runs + 1, !.source = s]]
    /\ disturbed' = (disturbed \/ \E i \in Jobs : job[i].pc # "idle")
    /\ UNCHANGED <<tables, obsolete, installed, pending, doomed, deaths, deletes, overlap>>

\* The item is done.
Following(j) ==
    IF Len(job[j].todo) = 1 THEN NoJob
    ELSE [NoJob EXCEPT !.pc = "create", !.todo = Tail(job[j].todo), !.run = job[j].run,
                         !.source = job[j].source]

\* create! begins a transaction, whose first query fixes what it sees, and validates.
Validate(j) ==
    LET errors == taken(item(j).ids, Live)
    IN  /\ job[j].pc = "create"
        /\ job' = [job EXCEPT ![j] = [@ EXCEPT !.errors = errors, !.sees = installed,
                                        !.pc = IF errors = {} THEN "insert" ELSE "rescue"]]
        /\ UNCHANGED <<tables, rest>>

\* Mutant: only works that are not tracked get retrieval statuses.
create_retrievals_untracked(j) ==
    IF item(j).tracked THEN {} ELSE {Len(works) + 1} \X job[j].sees

\* Mutant: before_create, when the work has no id.
create_retrievals_before(j) == IF item(j).tracked THEN {0} \X job[j].sees ELSE {}

\* create_retrievals, after_create
create_retrievals(j) ==
    IF item(j).tracked THEN {Len(works) + 1} \X job[j].sees ELSE {}

Insert(j) ==
    LET duplicate == not_unique(item(j).ids, Live)
    IN  /\ job[j].pc = "insert"
        /\ IF duplicate = {}
           THEN /\ works' = Append(works, [ids |-> item(j).ids, tracked |-> item(j).tracked,
                                           collected |-> item(j).tracked])
                /\ statuses' = statuses \cup create_retrievals(j)
                /\ job' = [job EXCEPT ![j] = [@ EXCEPT !.pc = "related", !.sees = {},
                                                !.work = Len(works) + 1, !.created = TRUE]]
           ELSE /\ \E column \in duplicate :
                     job' = [job EXCEPT ![j] = [@ EXCEPT !.pc = "rescue", !.sees = {},
                                                         !.errors = {column}]]
                /\ UNCHANGED <<works, statuses>>
        /\ UNCHANGED <<relations, rest>>

\* Mutant: the pid comes first.
Key_pid(errors) ==
    IF "pid" \in errors THEN "canonical_url" ELSE IF "doi" \in errors THEN "doi" ELSE "pmid"

\* The column by which the work is looked up.  A pid is looked up as a URL.
Key(errors) ==
    IF "doi" \in errors THEN "doi" ELSE IF "pmid" \in errors THEN "pmid" ELSE "canonical_url"

\* The URL of the item is not normalized for the lookup.
\* update_attributes: a work is updated by a tracked item only.  Identifiers that the
\* item does not have are set to nil.  A work that is not valid then is left as it is.
Rescue(j) ==
    LET errors == job[j].errors
        found == IF Key(errors) = "canonical_url" /\ item(j).raw THEN {}
                 ELSE Where(item(j).ids, Key(errors))
        w == first(found)
        new == Of(works[w].ids, Key(errors)) \cup {p \in item(j).ids : p[1] # Key(errors)}
        valid == new # {} /\ taken(new, Live \ {w}) = {}
    IN  /\ job[j].pc = "rescue"
        /\ IF errors \cap {"doi", "pmid", "pid"} = {} \/ found = {}  \* an alert, or nil
           THEN job' = [job EXCEPT ![j] = Following(j)]
           ELSE job' = [job EXCEPT ![j] = [@ EXCEPT
                           !.work = w, !.errors = {}, !.sees = {},
                           !.new = IF item(j).tracked /\ valid THEN new ELSE {},
                           !.pc = IF item(j).tracked /\ valid THEN "update" ELSE "related"]]
        /\ UNCHANGED <<tables, rest>>

\* A duplicate key raises an exception, which nobody rescues here.
Update(j) ==
    LET w == job[j].work
    IN  /\ job[j].pc = "update"
        /\ IF not_unique(job[j].new, Live \ {w}) = {}
           THEN /\ works' = IF w \notin Live THEN works
                            ELSE [works EXCEPT ![w] = [@ EXCEPT !.ids = job[j].new, !.tracked = TRUE]]
                /\ job' = [job EXCEPT ![j] = [@ EXCEPT !.pc = "related", !.new = {}]]
           ELSE Idle(j) /\ UNCHANGED works
        /\ UNCHANGED <<relations, statuses, rest>>

\* A work that was created: find_or_create returns an array, which has no pid, and
\* the job fails.
Stored(j) == IF job[j].created THEN NoJob ELSE Following(j)

\* update_relations: the related work is looked up ...
Related(j) ==
    LET found == {w \in Live : pid(works[w].ids) = item(j).related}
    IN  /\ job[j].pc = "related"
        /\ job' = [job EXCEPT ![j] = IF found = {} THEN Stored(j)
                                     ELSE [@ EXCEPT !.pc = "find", !.related = first(found)]]
        /\ UNCHANGED <<tables, rest>>

\* Mutant: the inverse has the same type.
Pair_same(j) == IF job[j].pc \in {"find", "make"} THEN <<job[j].work, job[j].related, "cites">>
                ELSE <<job[j].related, job[j].work, "cites">>

\* ... and the relation and its inverse are found or created, one after the other.
Pair(j) == IF job[j].pc \in {"find", "make"} THEN <<job[j].work, job[j].related, "cites">>
           ELSE <<job[j].related, job[j].work, "is_cited_by">>

After(j) == IF job[j].pc \in {"find", "make"} THEN [job[j] EXCEPT !.pc = "find_inverse"]
            ELSE Stored(j)

\* Mutant: create in place of first_or_create.
FindRelation_none(j) ==
    /\ job[j].pc \in {"find", "find_inverse"}
    /\ Goto(j, IF job[j].pc = "find" THEN "make" ELSE "make_inverse")
    /\ UNCHANGED <<tables, rest>>

\* The type of a relation that is there does not matter.
FindRelation(j) ==
    /\ job[j].pc \in {"find", "find_inverse"}
    /\ IF \E r \in relations : /\ r.pair[1] = Pair(j)[1] /\ r.pair[2] = Pair(j)[2]
                               /\ r.source = job[j].source
       THEN job' = [job EXCEPT ![j] = After(j)]
       ELSE Goto(j, IF job[j].pc = "find" THEN "make" ELSE "make_inverse")
    /\ UNCHANGED <<tables, rest>>

\* A foreign key makes it fail if one of the works is not there any more.
MakeRelation(j) ==
    /\ job[j].pc \in {"make", "make_inverse"}
    /\ IF {job[j].work, job[j].related} \subseteq Live
       THEN /\ relations' = relations \cup {[pair |-> Pair(j), source |-> job[j].source,
                                             run |-> job[j].run, by |-> item(j).ids]}
            /\ job' = [job EXCEPT ![j] = After(j)]
       ELSE Idle(j) /\ UNCHANGED relations
    /\ UNCHANGED <<works, statuses, rest>>

\* The process is killed, or the database answers with an error.
Dies(j) ==
    /\ job[j].pc # "idle"
    /\ deaths < MaxDeaths
    /\ deaths' = deaths + 1
    /\ Idle(j)
    /\ UNCHANGED <<tables, obsolete, installed, pending, doomed, runs, deletes, disturbed, overlap>>

JobStep(j) ==
    \/ Start(j) \/ Validate(j) \/ Insert(j) \/ Rescue(j) \/ Update(j) \/ Related(j)
    \/ FindRelation(j) \/ MakeRelation(j) \/ Dies(j)

-------------------------------------------------------------------------------
\* A source is installed: after_transition create_retrievals enqueues a job, but not
\* for a source that is retired at once.
Install(s) ==
    /\ s \notin installed
    /\ installed' = installed \cup {s}
    /\ pending' = pending \cup ({s} \ obsolete)
    /\ overlap' = (overlap \/ \E j \in Jobs : job[j].pc = "insert")
    /\ UNCHANGED <<tables, obsolete, job, doomed, runs, deaths, deletes, disturbed>>

\* InsertRetrievalJob: works without a retrieval status get one, tracked or not.
insert_retrievals(s) ==
    /\ s \in pending
    /\ pending' = pending \ {s}
    /\ statuses' = statuses \cup (Live \X {s})
    /\ UNCHANGED <<works, relations, obsolete, installed, job, doomed, runs, deaths, deletes,
                   disturbed, overlap>>

-------------------------------------------------------------------------------
\* DeleteEventJob.

\* The works with a single relation to another work, of those of the source.
Selected(s) ==
    LET like(r) == {q \in relations : q.source = s /\ q.pair[1] = r.pair[1] /\ q.pair[2] = r.pair[2]}
    IN  {r.pair[1] : r \in {r \in relations : r.source = s /\ Cardinality(like(r)) = 1}}

DeleteEvents(s) ==
    /\ s \in installed
    /\ doomed = {}
    /\ deletes < MaxDeletes
    /\ deletes' = deletes + 1
    /\ doomed' = Selected(s)
    /\ UNCHANGED <<tables, obsolete, installed, pending, job, runs, deaths, disturbed, overlap>>

\* destroy_all; the foreign keys cascade.  After the last work the job fails: a source
\* has no "relations".
destroy ==
    /\ doomed # {}
    /\ LET w == first(doomed)
       IN  /\ works' = [works EXCEPT ![w] = [ids |-> {}, tracked |-> FALSE, collected |-> FALSE]]
           /\ relations' = {r \in relations : w \notin {r.pair[1], r.pair[2]}}
           /\ statuses' = {p \in statuses : p[1] # w}
           /\ doomed' = doomed \ {w}
    /\ UNCHANGED <<obsolete, installed, pending, job, runs, deaths, deletes, disturbed, overlap>>

Init ==
    /\ works = <<[ids |-> Known, tracked |-> TRUE, collected |-> TRUE]>>
    /\ relations = {} /\ pending = {} /\ doomed = {}
    /\ obsolete \in SUBSET Sources /\ installed \in SUBSET Sources
    /\ \E S \in SUBSET installed : installed \ obsolete \subseteq S /\ statuses = {1} \X S
    /\ job = [j \in Jobs |-> NoJob]
    /\ runs = 0 /\ deaths = 0 /\ deletes = 0 /\ disturbed = FALSE /\ overlap = FALSE

Next ==
    \/ \E j \in Jobs : JobStep(j)
    \/ \E s \in Sources : Install(s) \/ insert_retrievals(s) \/ DeleteEvents(s)
    \/ destroy

Spec == Init /\ [][Next]_vars

-------------------------------------------------------------------------------
\* Properties.

TypeOK ==
    /\ works \in Seq([ids : SUBSET Ids, tracked : BOOLEAN, collected : BOOLEAN])
    /\ \A r \in relations : r.pair \in Live \X Live \X {"cites", "is_cited_by"}
    /\ statuses \subseteq Live \X installed
    /\ pending \subseteq installed /\ installed \subseteq Sources /\ obsolete \subseteq Sources
    /\ doomed \subseteq DOMAIN works
    /\ runs \in 0..MaxRuns /\ deaths \in 0..MaxDeaths /\ deletes \in 0..MaxDeletes
    /\ disturbed \in BOOLEAN /\ overlap \in BOOLEAN

\* No two works share an identifier (work.rb 51-54).  The URL has no unique index, so
\* that two jobs may create works with the same one.
UniqueIds ==
    \A v, w \in DOMAIN works : v # w =>
        \A p \in works[v].ids \cap works[w].ids : disturbed /\ p[1] = "canonical_url"

\* Identifiers of one article, and sources that report nothing else.
Same(ids, more) == \A p \in ids, q \in more : p[2] = q[2]
OneArticle ==
    /\ Same(Known, Known)
    /\ \A report \in Reports : \A i \in DOMAIN report : Same(report[i].ids, report[i].ids)

\* A relation belongs to the article that was reported (work.rb 75-100), if the
\* item has a DOI, a PubMed ID or a URL, one job runs at a time and no work is destroyed.
\* Of two jobs that create the same work one may fail on the index of the pid, and looks
\* for a URL.  If the work with that pid is destroyed before the lookup, and the item has
\* no URL, then the first work without a URL becomes the work of the item.
RightWork ==
    ~disturbed /\ deletes = 0 =>
        \A r \in relations :
            LET w == IF r.pair[3] = "cites" THEN r.pair[1] ELSE r.pair[2]
            IN  (\E p \in r.by : p[1] \in {"doi", "pmid", "canonical_url"})
                    => \A p \in r.by : \A q \in works[w].ids : p[2] = q[2]

\* Every relation of two works has its inverse (work.rb 135-144) unless a job is just about to
\* make it.  That takes that no job stops in between, and one job at a time: of two
\* articles that cite each other, each may find the relation of the other.
InverseRelation ==
    ~disturbed /\ deaths = 0 =>
        \A r \in relations : r.pair[1] # r.pair[2] =>
            \/ \E s \in relations : /\ s.pair[1] = r.pair[2] /\ s.pair[2] = r.pair[1]
                                    /\ s.source = r.source /\ s.pair[3] # r.pair[3]
            \/ \E j \in Jobs : job[j].pc \in {"find_inverse", "make_inverse"} /\ job[j].run = r.run

\* Two works have no more relations in one direction than there are jobs that may
\* have looked for one (work.rb 135-144): no index requires it.
RelationsPerPair ==
    \A r \in relations :
        Cardinality({s \in relations : s.pair[1] = r.pair[1] /\ s.pair[2] = r.pair[2]
                                         /\ s.source = r.source})
            <= Cardinality(Jobs)

\* A work that was created to be tracked has a retrieval status for every installed
\* source (work.rb 434-439, source.rb 397-401): either the work or the source came
\* second.  Neither sees the other if the source is installed while the work's
\* transaction is under way.  A source that is retired when it is installed has none for
\* the works from before, which are the first ones.
Collected ==
    ~overlap => \A w \in DOMAIN works, s \in installed \ pending :
        works[w].collected =>
            \/ <<w, s>> \in statuses
            \/ s \in obsolete /\ \A v \in 1..w : <<v, s>> \notin statuses

===============================================================================

----------------------------- MODULE WorksProofs -----------------------------
(***************************************************************************)
(* What is proved of Works, for every set of jobs, sources and articles and  *)
(* every list of items that a source may report.                            *)
(***************************************************************************)
EXTENDS Works, WellFoundedInduction, TLAPS

Columns == {Column[i] : i \in DOMAIN Column}
Pcs == {"idle", "create", "insert", "rescue", "update", "related", "find", "make",
        "find_inverse", "make_inverse"}
Linking == {"find", "make", "find_inverse", "make_inverse"}

WorkRec == [ids : SUBSET Ids, tracked : BOOLEAN, collected : BOOLEAN]
JobRec == [pc : Pcs, todo : Seq(Item), errors : SUBSET (Columns \cup {"pid"}),
           sees : SUBSET Sources, new : SUBSET Ids, work : Nat, related : Nat,
           created : BOOLEAN, run : Nat, source : Sources \cup {0}]
Relation == [pair : Nat \X Nat \X {"cites", "is_cited_by"}, source : Sources, run : Nat,
             by : SUBSET Ids]

\* The types, and what a job refers to is there.
Refers(j) ==
    /\ job[j].pc # "idle" => job[j].todo # <<>> /\ job[j].source \in installed
    /\ job[j].sees \subseteq installed
    /\ job[j].pc \in {"update", "related"} \cup Linking => job[j].work \in DOMAIN works
    /\ job[j].pc \in Linking => job[j].related \in DOMAIN works
    /\ job[j].pc = "update" => job[j].new = item(j).ids

TypeInv ==
    /\ TypeOK
    /\ relations \subseteq Relation
    /\ job \in [Jobs -> JobRec]
    /\ \A j \in Jobs : Refers(j)

\* Jobs that run one at a time.
AloneInv == ~disturbed => \A i, j \in Jobs : job[i].pc # "idle" /\ job[j].pc # "idle" => i = j

\* A job that runs alone finds at the insert or the update what it validated.
ValidInv ==
    ~disturbed => \A j \in Jobs :
        /\ job[j].pc = "insert" => \A w \in Live : works[w].ids \cap item(j).ids = {}
        /\ job[j].pc = "update" =>
             \A w \in Live \ {job[j].work} : works[w].ids \cap item(j).ids = {}

\* The new work's retrieval statuses are for the sources that are installed now.
SeesInv ==
    /\ ~overlap => \A j \in Jobs : job[j].pc = "insert" => job[j].sees = installed
    /\ \A w \in DOMAIN works : works[w].collected => works[w].ids # {}

\* The relations of two works that a source has made.
Between(a, b, s) == {r \in relations : r.pair[1] = a /\ r.pair[2] = b /\ r.source = s}

-------------------------------------------------------------------------------
\* Numbers, identifiers and records.

\* A set of numbers has a least one.
LEMMA LeastNumber ==
    ASSUME NEW S \in SUBSET Nat, S # {}
    PROVE  first(S) \in S /\ \A n \in S : first(S) <= n
<1>1. PICK m \in S : \A n \in S : ~(<<n, m>> \in OpToRel(<, Nat))
  BY Zenon, NatLessThanWellFounded, WFMin
<1>2. \A n \in S : ~(n < m)
  BY Zenon, <1>1 DEF OpToRel
<1>3. \A n \in S : m <= n
  BY <1>2
<1> QED
  BY Zenon, <1>3 DEF first

\* The pid is one of the identifiers, and a DOI or a PubMed ID if there is one.
LEMMA PidIsOne ==
    ASSUME NEW ids \in SUBSET Ids, ids # {}
    PROVE  /\ pid(ids) \in ids
           /\ pid(ids)[1] \notin {"doi", "pmid"} => \A q \in ids : q[1] \notin {"doi", "pmid"}
<1> DEFINE at == {i \in DOMAIN Column : \E p \in ids : p[1] = Column[i]}
           P(p) == \E i \in DOMAIN Column :
                       p[1] = Column[i] /\ \A q \in ids : \A k \in 1..(i - 1) : q[1] # Column[k]
<1>1. DOMAIN Column = 1..5 /\ Column[1] = "doi" /\ Column[2] = "pmid"
  BY DEF Column
<1>2. \A p \in ids : \E i \in DOMAIN Column : p[1] = Column[i]
  BY DEF Ids
<1>3. at \in SUBSET Nat /\ at # {}
  BY <1>1, <1>2
<1>4. PICK i \in at : \A k \in at : i <= k
  <2> HIDE DEF at
  <2> QED
    BY Zenon, <1>3, LeastNumber
<1>5. PICK p \in ids : p[1] = Column[i]
  BY <1>4
<1>6. P(p)
  <2>1. ASSUME NEW q \in ids, NEW k \in 1..(i - 1) PROVE q[1] # Column[k]
    BY <1>1, <1>4
  <2> QED
    BY <1>4, <1>5, <2>1
<1>7. pid(ids) \in ids /\ P(pid(ids))
  <2>1. pid(ids) = CHOOSE x \in ids : P(x)
    BY DEF pid
  <2> HIDE DEF P
  <2> QED
    BY <1>5, <1>6, <2>1
<1>8. ASSUME pid(ids)[1] \notin {"doi", "pmid"} PROVE \A q \in ids : q[1] \notin {"doi", "pmid"}
  <2>1. PICK n \in DOMAIN Column :
          pid(ids)[1] = Column[n] /\ \A q \in ids : \A k \in 1..(n - 1) : q[1] # Column[k]
    BY <1>7
  <2>2. n \in 3..5
    BY <1>1, <1>8, <2>1
  <2> QED
    BY <1>1, <2>1, <2>2
<1> QED
  BY <1>7, <1>8

\* A work of the table.
LEMMA WorkType ==
    ASSUME TypeOK
    PROVE  /\ works \in Seq(WorkRec) /\ Len(works) \in Nat /\ DOMAIN works = 1..Len(works)
           /\ Live \subseteq DOMAIN works
           /\ \A w \in DOMAIN works : works[w] \in WorkRec /\ works[w].ids \in SUBSET Ids
<1>1. works \in Seq(WorkRec)
  BY Zenon DEF TypeOK, WorkRec
<1>2. \A w \in DOMAIN works : works[w] \in WorkRec
  BY <1>1
<1>3. \A w \in DOMAIN works : works[w].ids \in SUBSET Ids
  BY <1>2 DEF WorkRec
<1> QED
  BY <1>1, <1>2, <1>3 DEF Live

\* What no error of the validation, resp. of the unique indexes means.
LEMMA NoneTaken ==
    ASSUME NEW ids, NEW set, taken(ids, set) = {}
    PROVE  \A w \in set : works[w].ids \cap ids = {}
BY DEF taken

LEMMA NoDuplicate ==
    ASSUME NEW ids, NEW set, not_unique(ids, set) = {}
    PROVE  \A w \in set : \A p \in works[w].ids \cap ids : p[1] = "canonical_url"
BY DEF not_unique, taken

\* Works that share no identifier do not have the same pid.
LEMMA AllUnique ==
    ASSUME NEW ids \in SUBSET Ids, ids # {}, NEW set \in SUBSET Live, TypeOK,
           \A w \in set : works[w].ids \cap ids = {}
    PROVE  not_unique(ids, set) = {}
<1>1. \A w \in set : works[w].ids \in SUBSET Ids /\ works[w].ids # {}
  <2> TAKE w \in set
  <2>1. w \in DOMAIN works /\ works[w].ids # {}
    BY DEF Live
  <2> QED
    BY <2>1, WorkType
<1>2. \A w \in set : pid(works[w].ids) # pid(ids)
  <2> TAKE w \in set
  <2>1. pid(works[w].ids) \in works[w].ids
    BY <1>1, PidIsOne
  <2>2. pid(ids) \in ids
    BY PidIsOne
  <2> QED
    BY <2>1, <2>2
<1>3. taken(ids, set) = {}
  BY <1>2 DEF taken
<1> QED
  BY <1>3 DEF not_unique

-------------------------------------------------------------------------------
\* What a step does to the job.

Others(j) == job' \in [Jobs -> JobRec] /\ \A i \in Jobs \ {j} : job'[i] = job[i]
Kept(j) == /\ job'[j].todo = job[j].todo /\ job'[j].source = job[j].source
           /\ job'[j].run = job[j].run
Ended(j) ==
    /\ job'[j].pc \in {"idle", "create"} /\ job'[j].sees = {}
    /\ job'[j].todo \in {<<>>, Tail(job[j].todo)}
    /\ job'[j].pc = "create" => job'[j].todo # <<>> /\ job'[j].source = job[j].source

\* Other jobs stay as they are.
LEMMA Replaced ==
    ASSUME NEW j \in Jobs, job \in [Jobs -> JobRec], NEW rec \in JobRec,
           job' = [job EXCEPT ![j] = rec]
    PROVE  Others(j) /\ job'[j] = rec
BY DEF Others

\* The items of a job.
LEMMA ItemType ==
    ASSUME TypeInv, NEW j \in Jobs, job[j].pc # "idle"
    PROVE  /\ job[j] \in JobRec /\ item(j) \in Item /\ item(j) = job[j].todo[1]
           /\ item(j).ids \in SUBSET Ids /\ item(j).ids # {} /\ 1 \in DOMAIN job[j].todo
<1>1. job[j] \in JobRec /\ job[j].todo \in Seq(Item) /\ job[j].todo # <<>>
  BY DEF TypeInv, Refers, JobRec
<1>2. item(j) \in Item /\ item(j) = job[j].todo[1] /\ 1 \in DOMAIN job[j].todo
  BY <1>1 DEF item
<1> QED
  BY <1>1, <1>2 DEF Item

\* A job that is done.
LEMMA NoJobType == NoJob \in JobRec
BY DEF NoJob, JobRec, Pcs

\* The items that are left.
LEMMA TailType ==
    ASSUME NEW s \in Seq(Item), s # <<>>
    PROVE  /\ Tail(s) \in Seq(Item) /\ (Len(s) # 1 => Tail(s) # <<>>)
           /\ \A i \in DOMAIN Tail(s) : i + 1 \in DOMAIN s /\ Tail(s)[i] = s[i + 1]
<1>1. Len(s) \in Nat \ {0} /\ DOMAIN s = 1..Len(s)
  OBVIOUS
<1>2. Tail(s) \in Seq(Item) /\ Len(Tail(s)) = Len(s) - 1
  OBVIOUS
<1>3. \A i \in DOMAIN Tail(s) : i + 1 \in DOMAIN s /\ Tail(s)[i] = s[i + 1]
  BY <1>1, <1>2
<1> QED
  BY <1>1, <1>2, <1>3

\* What follows an item.
LEMMA FollowingType ==
    ASSUME TypeInv, NEW j \in Jobs, job[j].pc # "idle"
    PROVE  /\ Following(j) \in JobRec /\ Following(j).pc \in {"idle", "create"}
           /\ Following(j).sees = {} /\ Following(j).todo \in {<<>>, Tail(job[j].todo)}
           /\ Following(j).pc = "create" =>
                Following(j).todo # <<>> /\ Following(j).source = job[j].source
<1>1. job[j] \in JobRec /\ job[j].todo \in Seq(Item) /\ job[j].todo # <<>>
      /\ job[j].source \in Sources \cup {0} /\ job[j].run \in Nat
  BY DEF TypeInv, Refers, JobRec
<1>2. CASE Len(job[j].todo) = 1
  BY <1>2, NoJobType DEF Following, NoJob
<1>3. CASE Len(job[j].todo) # 1
  <2> DEFINE tail == Tail(job[j].todo)
             run == job[j].run
             source == job[j].source
             rec == [NoJob EXCEPT !.pc = "create", !.todo = tail, !.run = run, !.source = source]
  <2>1. tail \in Seq(Item) /\ tail # <<>>
    BY <1>1, <1>3, TailType
  <2>2. Following(j) = rec
    BY <1>3 DEF Following
  <2> HIDE DEF tail, run, source
  <2>3. run \in Nat /\ source \in Sources \cup {0}
    BY <1>1 DEF run, source
  <2>4. /\ rec \in JobRec /\ rec.pc = "create" /\ rec.sees = {} /\ rec.todo = tail
        /\ rec.source = source
    BY Zenon, <2>1, <2>3 DEF NoJob, JobRec, Pcs
  <2> HIDE DEF rec
  <2> QED
    BY <2>1, <2>2, <2>4 DEF tail, source
<1> QED
  BY <1>2, <1>3

\* A job that gives up.
LEMMA IdleFields ==
    ASSUME TypeInv, NEW j \in Jobs, Idle(j)
    PROVE  Others(j) /\ job'[j] = NoJob
BY Zenon, Replaced, NoJobType DEF TypeInv, Idle

\* A job that starts has a report.
LEMMA StartFields ==
    ASSUME TypeInv, NEW j \in Jobs, Start(j)
    PROVE  /\ Others(j) /\ job[j].pc = "idle" /\ job'[j].pc = "create"
           /\ job'[j].todo \in Reports /\ job'[j].todo # <<>>
           /\ job'[j].source \in installed /\ job'[j].sees = {}
<1>1. PICK report \in Reports, s \in installed :
        job' = [job EXCEPT ![j] = [NoJob EXCEPT !.pc = "create", !.todo = report,
                                                !.run = runs + 1, !.source = s]]
  BY Zenon DEF Start
<1> DEFINE n == runs + 1
           rec == [NoJob EXCEPT !.pc = "create", !.todo = report, !.run = n, !.source = s]
<1>2. n \in Nat /\ s \in Sources /\ report \in Seq(Item) /\ report # <<>>
  <2>1. MaxRuns \in Nat /\ report \in Seq(Item) /\ report # <<>>
    BY WorksAssumption DEF WorksAssumption
  <2>2. runs \in 0..MaxRuns /\ s \in Sources
    BY DEF TypeInv, TypeOK
  <2> QED
    BY <2>1, <2>2
<1>3. job' = [job EXCEPT ![j] = rec]
  BY <1>1
<1> HIDE DEF n
<1>4. rec \in JobRec /\ rec.pc = "create" /\ rec.todo = report /\ rec.source = s /\ rec.sees = {}
  BY Zenon, <1>2 DEF NoJob, JobRec, Pcs
<1> HIDE DEF rec
<1>5. Others(j) /\ job'[j] = rec
  BY Zenon, <1>3, <1>4, Replaced DEF TypeInv
<1> QED
  BY Zenon, <1>2, <1>4, <1>5 DEF Start

\* A job validates an item.
LEMMA ValidateFields ==
    ASSUME TypeInv, NEW j \in Jobs, Validate(j)
    PROVE  /\ Others(j) /\ Kept(j) /\ job[j].pc = "create"
           /\ job'[j].pc = IF taken(item(j).ids, Live) = {} THEN "insert" ELSE "rescue"
           /\ job'[j].errors = taken(item(j).ids, Live) /\ job'[j].sees = installed
<1> DEFINE r == job[j]
           errors == taken(item(j).ids, Live)
           pc == IF errors = {} THEN "insert" ELSE "rescue"
           rec == [r EXCEPT !.errors = errors, !.sees = installed, !.pc = pc]
<1>1. job' = [job EXCEPT ![j] = rec] /\ r.pc = "create"
  BY DEF Validate
<1>2. r \in JobRec /\ item(j).ids \in SUBSET Ids
  BY <1>1, ItemType
<1>3. errors \in SUBSET (Columns \cup {"pid"}) /\ pc \in Pcs
  BY <1>2 DEF taken, Ids, Columns, Pcs
<1>4. installed \in SUBSET Sources
  BY DEF TypeInv, TypeOK
<1> HIDE DEF r, errors, pc
<1>5. /\ rec \in JobRec /\ rec.errors = errors /\ rec.sees = installed /\ rec.pc = pc
      /\ rec.todo = r.todo /\ rec.source = r.source /\ rec.run = r.run
  BY Zenon, <1>2, <1>3, <1>4 DEF JobRec
<1> HIDE DEF rec
<1>6. Others(j) /\ job'[j] = rec
  BY Zenon, <1>1, <1>5, Replaced DEF TypeInv
<1> QED
  BY <1>1, <1>5, <1>6 DEF Kept, r, pc, errors

\* A job stores an item, or is told by an index that it is there.
LEMMA InsertFields ==
    ASSUME TypeInv, NEW j \in Jobs, Insert(j)
    PROVE  /\ Others(j) /\ Kept(j) /\ job[j].pc = "insert" /\ job'[j].sees = {}
           /\ IF not_unique(item(j).ids, Live) = {}
              THEN job'[j].pc = "related" /\ job'[j].work = Len(works) + 1
              ELSE job'[j].pc = "rescue"
<1>1. job[j].pc = "insert" /\ job \in [Jobs -> JobRec] /\ item(j).ids \in SUBSET Ids
  BY Zenon, ItemType DEF Insert, TypeInv
<1>2. CASE not_unique(item(j).ids, Live) = {}
  <2> DEFINE r == job[j]
             n == Len(works) + 1
             rec == [r EXCEPT !.pc = "related", !.sees = {}, !.work = n, !.created = TRUE]
  <2>1. job' = [job EXCEPT ![j] = rec]
    BY <1>2 DEF Insert
  <2>2. n \in Nat
    BY WorkType DEF TypeInv
  <2>3. r \in JobRec
    BY <1>1
  <2> HIDE DEF r, n
  <2>4. /\ rec \in JobRec /\ rec.pc = "related" /\ rec.sees = {} /\ rec.work = n
        /\ rec.todo = r.todo /\ rec.source = r.source /\ rec.run = r.run
    BY Zenon, <2>2, <2>3 DEF JobRec, Pcs
  <2> HIDE DEF rec
  <2>5. Others(j) /\ job'[j] = rec
    BY Zenon, <1>1, <2>1, <2>4, Replaced
  <2> QED
    BY <1>1, <1>2, <2>4, <2>5 DEF Kept, r, n
<1>3. CASE not_unique(item(j).ids, Live) # {}
  <2>1. PICK column \in not_unique(item(j).ids, Live) :
          job' = [job EXCEPT ![j] = [job[j] EXCEPT !.pc = "rescue", !.sees = {}, !.errors = {column}]]
    BY Zenon, <1>3 DEF Insert
  <2> DEFINE r == job[j]
             rec == [r EXCEPT !.pc = "rescue", !.sees = {}, !.errors = {column}]
  <2>2. {column} \in SUBSET (Columns \cup {"pid"})
    BY <1>1 DEF not_unique, taken, Ids, Columns
  <2>3. r \in JobRec /\ job' = [job EXCEPT ![j] = rec]
    BY <1>1, <2>1
  <2> HIDE DEF r
  <2>4. /\ rec \in JobRec /\ rec.pc = "rescue" /\ rec.sees = {}
        /\ rec.todo = r.todo /\ rec.source = r.source /\ rec.run = r.run
    BY Zenon, <2>2, <2>3 DEF JobRec, Pcs
  <2> HIDE DEF rec
  <2>5. Others(j) /\ job'[j] = rec
    BY Zenon, <1>1, <2>3, <2>4, Replaced
  <2> QED
    BY <1>1, <1>3, <2>4, <2>5 DEF Kept, r
<1> QED
  BY <1>2, <1>3

\* A job looks the work up that is there, and updates it only with the item's identifiers.
Looked(j, w) ==
    /\ job[j].errors \cap {"doi", "pmid", "pid"} # {} /\ w \in Where(item(j).ids, Key(job[j].errors))
    /\ Kept(j) /\ job'[j].work = w /\ job'[j].sees = {} /\ job'[j].pc \in {"update", "related"}
    /\ job'[j].pc = "update" => /\ job'[j].new = item(j).ids
                                /\ \A v \in Live \ {w} : works[v].ids \cap item(j).ids = {}

LEMMA RescueFields ==
    ASSUME TypeInv, NEW j \in Jobs, Rescue(j)
    PROVE  /\ Others(j) /\ job[j].pc = "rescue"
           /\ Ended(j) \/ \E w \in Live : Looked(j, w)
<1> DEFINE errors == job[j].errors
           key == Key(errors)
           ids == item(j).ids
           found == IF key = "canonical_url" /\ item(j).raw THEN {} ELSE Where(ids, key)
           w == first(found)
           new == Of(works[w].ids, key) \cup {p \in ids : p[1] # key}
           valid == new # {} /\ taken(new, Live \ {w}) = {}
<1>1. job[j].pc = "rescue" /\ job \in [Jobs -> JobRec] /\ job[j] \in JobRec /\ ids \in SUBSET Ids
  BY ItemType DEF Rescue, TypeInv
<1>2. CASE errors \cap {"doi", "pmid", "pid"} = {} \/ found = {}
  <2>1. job' = [job EXCEPT ![j] = Following(j)]
    BY Zenon, <1>2 DEF Rescue
  <2>2. Others(j) /\ job'[j] = Following(j)
    BY Zenon, <1>1, <2>1, FollowingType, Replaced
  <2> QED
    BY <1>1, <2>2, FollowingType DEF Ended
<1>3. CASE errors \cap {"doi", "pmid", "pid"} # {} /\ found # {}
  <2> DEFINE r == job[j]
             update == item(j).tracked /\ valid
             news == IF update THEN new ELSE {}
             pc == IF update THEN "update" ELSE "related"
             rec == [r EXCEPT !.work = w, !.errors = {}, !.sees = {}, !.new = news, !.pc = pc]
  <2>1. job' = [job EXCEPT ![j] = rec]
    BY Zenon, <1>3 DEF Rescue
  <2>2. found = Where(ids, key) /\ found \in SUBSET Live /\ found \in SUBSET Nat
    BY <1>3, WorkType DEF Where, TypeInv
  <2>3. w \in found
    <3> HIDE DEF found
    <3> QED
      BY <1>3, <2>2, LeastNumber
  <2>4. w \in Live /\ w \in Nat /\ w \in Where(ids, key) /\ Of(works[w].ids, key) = Of(ids, key)
    BY <2>2, <2>3 DEF Where
  <2> HIDE DEF found, w
  <2>5. new = ids
    BY <2>4 DEF Of
  <2>6. news \in SUBSET Ids /\ (update => \A v \in Live \ {w} : works[v].ids \cap ids = {})
    BY Zenon, <1>1, <2>5, NoneTaken
  <2>7. pc \in Pcs /\ pc \in {"update", "related"} /\ (pc = "update" => update /\ news = ids)
    BY Zenon, <2>5 DEF Pcs
  <2> HIDE DEF r, update, news, pc
  <2>8. /\ rec \in JobRec /\ rec.work = w /\ rec.sees = {} /\ rec.new = news /\ rec.pc = pc
        /\ rec.todo = r.todo /\ rec.source = r.source /\ rec.run = r.run
    BY Zenon, <1>1, <2>4, <2>6, <2>7 DEF JobRec, r
  <2> HIDE DEF rec
  <2>9. Others(j) /\ job'[j] = rec
    BY Zenon, <1>1, <2>1, <2>8, Replaced
  <2>10. Looked(j, w)
    BY <1>3, <2>4, <2>6, <2>7, <2>8, <2>9 DEF Looked, Kept, r
  <2> QED
    BY <1>1, <2>4, <2>9, <2>10
<1> QED
  BY <1>2, <1>3

\* A job updates a work, or fails on an index.
LEMMA UpdateFields ==
    ASSUME TypeInv, NEW j \in Jobs, Update(j)
    PROVE  /\ Others(j) /\ job[j].pc = "update"
           /\ \/ /\ Kept(j) /\ job'[j].pc = "related" /\ job'[j].work = job[j].work
                 /\ job'[j].sees = job[j].sees
              \/ job'[j] = NoJob /\ works' = works
<1>1. job[j].pc = "update" /\ job \in [Jobs -> JobRec] /\ job[j] \in JobRec
  BY ItemType DEF Update, TypeInv
<1>2. CASE not_unique(job[j].new, Live \ {job[j].work}) = {}
  <2> DEFINE r == job[j]
             rec == [r EXCEPT !.pc = "related", !.new = {}]
  <2>1. job' = [job EXCEPT ![j] = rec]
    BY <1>2 DEF Update
  <2> HIDE DEF r
  <2>2. /\ rec \in JobRec /\ rec.pc = "related" /\ rec.work = r.work /\ rec.sees = r.sees
        /\ rec.todo = r.todo /\ rec.source = r.source /\ rec.run = r.run
    BY Zenon, <1>1 DEF JobRec, Pcs, r
  <2> HIDE DEF rec
  <2>3. Others(j) /\ job'[j] = rec
    BY Zenon, <1>1, <2>1, <2>2, Replaced
  <2> QED
    BY <1>1, <2>2, <2>3 DEF Kept, r
<1>3. CASE not_unique(job[j].new, Live \ {job[j].work}) # {}
  <2>1. Idle(j) /\ works' = works
    BY <1>3 DEF Update
  <2> QED
    BY <1>1, <2>1, IdleFields
<1> QED
  BY <1>2, <1>3

\* A job ends an item.
LEMMA StoredType ==
    ASSUME TypeInv, NEW j \in Jobs, job[j].pc # "idle"
    PROVE  /\ Stored(j) \in JobRec
           /\ job' = [job EXCEPT ![j] = Stored(j)] => Others(j) /\ Ended(j)
<1>1. Stored(j) \in {NoJob, Following(j)} /\ job \in [Jobs -> JobRec]
  BY DEF Stored, TypeInv
<1>2. /\ Stored(j) \in JobRec /\ Stored(j).pc \in {"idle", "create"}
      /\ Stored(j).sees = {} /\ Stored(j).todo \in {<<>>, Tail(job[j].todo)}
      /\ Stored(j).pc = "create" => Stored(j).todo # <<>> /\ Stored(j).source = job[j].source
  <2>1. NoJob.pc = "idle" /\ NoJob.sees = {} /\ NoJob.todo = <<>>
    BY DEF NoJob
  <2> QED
    BY <1>1, <2>1, NoJobType, FollowingType
<1> QED
  BY <1>1, <1>2, Replaced DEF Ended

\* A job that goes on with the same two works.
Linked(j) == Kept(j) /\ job'[j].work = job[j].work /\ job'[j].related = job[j].related
             /\ job'[j].sees = job[j].sees

LEMMA GotoFields ==
    ASSUME TypeInv, NEW j \in Jobs, NEW pc \in Pcs,
           Goto(j, pc) \/ job' = [job EXCEPT ![j] = [job[j] EXCEPT !.pc = pc]]
    PROVE  Others(j) /\ Linked(j) /\ job'[j].pc = pc
<1> DEFINE r == job[j]
           rec == [r EXCEPT !.pc = pc]
<1>1. job' = [job EXCEPT ![j] = rec] /\ r \in JobRec /\ job \in [Jobs -> JobRec]
  BY DEF Goto, TypeInv
<1> HIDE DEF r
<1>2. /\ rec \in JobRec /\ rec.pc = pc /\ rec.work = r.work /\ rec.sees = r.sees
      /\ rec.related = r.related /\ rec.todo = r.todo /\ rec.source = r.source /\ rec.run = r.run
  BY Zenon, <1>1 DEF JobRec
<1> HIDE DEF rec
<1>3. Others(j) /\ job'[j] = rec
  BY Zenon, <1>1, <1>2, Replaced
<1> QED
  BY <1>2, <1>3 DEF Linked, Kept, r

\* A job looks up the related work.
LEMMA RelatedFields ==
    ASSUME TypeInv, NEW j \in Jobs, Related(j)
    PROVE  /\ Others(j) /\ job[j].pc = "related"
           /\ \/ Ended(j)
              \/ /\ Kept(j) /\ job'[j].pc = "find" /\ job'[j].work = job[j].work
                 /\ job'[j].related \in Live /\ job'[j].sees = job[j].sees
<1> DEFINE found == {w \in Live : pid(works[w].ids) = item(j).related}
<1>1. job[j].pc = "related" /\ job \in [Jobs -> JobRec] /\ job[j] \in JobRec
  BY ItemType DEF Related, TypeInv
<1>2. CASE found = {}
  <2>1. job' = [job EXCEPT ![j] = Stored(j)]
    BY <1>2 DEF Related
  <2> QED
    BY Zenon, <1>1, <2>1, StoredType
<1>3. CASE found # {}
  <2> DEFINE r == job[j]
             w == first(found)
             rec == [r EXCEPT !.pc = "find", !.related = w]
  <2>1. job' = [job EXCEPT ![j] = rec]
    BY Zenon, <1>3 DEF Related
  <2>2. found \in SUBSET Live /\ found \in SUBSET Nat
    BY WorkType DEF TypeInv
  <2>3. w \in found
    <3> HIDE DEF found
    <3> QED
      BY <1>3, <2>2, LeastNumber
  <2> HIDE DEF found, w, r
  <2>4. /\ rec \in JobRec /\ rec.pc = "find" /\ rec.work = r.work /\ rec.sees = r.sees
        /\ rec.related = w /\ rec.todo = r.todo /\ rec.source = r.source /\ rec.run = r.run
    BY Zenon, <1>1, <2>2, <2>3 DEF JobRec, Pcs, r
  <2> HIDE DEF rec
  <2>5. Others(j) /\ job'[j] = rec
    BY Zenon, <1>1, <2>1, <2>4, Replaced
  <2> QED
    BY <1>1, <2>2, <2>3, <2>4, <2>5 DEF Kept, r
<1> QED
  BY <1>2, <1>3

\* After a relation comes its inverse, then the next item.
LEMMA AfterFields ==
    ASSUME TypeInv, NEW j \in Jobs, job[j].pc \in Linking, job' = [job EXCEPT ![j] = After(j)]
    PROVE  /\ Others(j)
           /\ IF job[j].pc \in {"find", "make"} THEN Linked(j) /\ job'[j].pc = "find_inverse"
              ELSE Ended(j)
<1>1. CASE job[j].pc \in {"find", "make"}
  <2>1. job' = [job EXCEPT ![j] = [job[j] EXCEPT !.pc = "find_inverse"]]
    BY <1>1 DEF After
  <2> QED
    BY Zenon, <1>1, <2>1, GotoFields DEF Pcs
<1>2. CASE job[j].pc \notin {"find", "make"}
  <2>1. job' = [job EXCEPT ![j] = Stored(j)]
    BY <1>2 DEF After
  <2> QED
    BY Zenon, <1>2, <2>1, StoredType DEF Linking
<1> QED
  BY <1>1, <1>2

\* A job looks for a relation, or for its inverse.
LEMMA FindFields ==
    ASSUME TypeInv, NEW j \in Jobs, FindRelation(j)
    PROVE  /\ Others(j) /\ job[j].pc \in {"find", "find_inverse"}
           /\ IF Between(Pair(j)[1], Pair(j)[2], job[j].source) = {}
              THEN /\ Linked(j)
                   /\ job'[j].pc = IF job[j].pc = "find" THEN "make" ELSE "make_inverse"
              ELSE IF job[j].pc = "find" THEN Linked(j) /\ job'[j].pc = "find_inverse"
              ELSE Ended(j)
<1>1. job[j].pc \in {"find", "find_inverse"} /\ job[j].pc \in Linking
  BY DEF FindRelation, Linking
<1>2. CASE Between(Pair(j)[1], Pair(j)[2], job[j].source) = {}
  <2>1. Goto(j, IF job[j].pc = "find" THEN "make" ELSE "make_inverse")
    BY <1>2 DEF FindRelation, Between
  <2> QED
    BY <1>1, <1>2, <2>1, GotoFields DEF Pcs
<1>3. CASE Between(Pair(j)[1], Pair(j)[2], job[j].source) # {}
  <2>1. job' = [job EXCEPT ![j] = After(j)]
    BY <1>3 DEF FindRelation, Between
  <2> QED
    BY Zenon, <1>1, <1>3, <2>1, AfterFields
<1> QED
  BY <1>2, <1>3

\* A job makes a relation, or its inverse.
LEMMA MakeFields ==
    ASSUME TypeInv, NEW j \in Jobs, MakeRelation(j)
    PROVE  /\ Others(j) /\ job[j].pc \in {"make", "make_inverse"}
           /\ IF {job[j].work, job[j].related} \subseteq Live
              THEN /\ relations' = relations \cup {[pair |-> Pair(j), source |-> job[j].source,
                                                    run |-> job[j].run, by |-> item(j).ids]}
                   /\ IF job[j].pc = "make" THEN Linked(j) /\ job'[j].pc = "find_inverse"
                      ELSE Ended(j)
              ELSE job'[j] = NoJob /\ relations' = relations
<1>1. job[j].pc \in {"make", "make_inverse"} /\ job[j].pc \in Linking
  BY DEF MakeRelation, Linking
<1>2. CASE {job[j].work, job[j].related} \subseteq Live
  <2>1. job' = [job EXCEPT ![j] = After(j)]
    BY <1>2 DEF MakeRelation
  <2>2. relations' = relations \cup {[pair |-> Pair(j), source |-> job[j].source,
                                      run |-> job[j].run, by |-> item(j).ids]}
    BY <1>2 DEF MakeRelation
  <2> QED
    BY Zenon, <1>1, <1>2, <2>1, <2>2, AfterFields
<1>3. CASE ~({job[j].work, job[j].related} \subseteq Live)
  <2>1. Idle(j) /\ relations' = relations
    BY <1>3 DEF MakeRelation
  <2> QED
    BY <1>1, <1>3, <2>1, IdleFields
<1> QED
  BY <1>2, <1>3

-------------------------------------------------------------------------------
\* What a step does to the works.

\* A new work.
LEMMA InsertRows ==
    ASSUME TypeInv, NEW j \in Jobs, Insert(j), not_unique(item(j).ids, Live) = {}
    PROVE  LET n == Len(works) + 1 IN
           /\ works' \in Seq(WorkRec) /\ DOMAIN works' = DOMAIN works \cup {n}
           /\ n \notin DOMAIN works /\ n \in Nat /\ Live' = Live \cup {n}
           /\ \A v \in DOMAIN works : works'[v] = works[v]
           /\ works'[n].ids = item(j).ids /\ works'[n].collected = item(j).tracked
<1> DEFINE n == Len(works) + 1
           ids == item(j).ids
           tracked == item(j).tracked
           rec == [ids |-> ids, tracked |-> tracked, collected |-> tracked]
<1>1. works' = Append(works, rec) /\ job[j].pc = "insert"
  BY DEF Insert
<1>2. works \in Seq(WorkRec) /\ Len(works) \in Nat /\ DOMAIN works = 1..Len(works)
  BY WorkType DEF TypeInv
<1>3. ids \in SUBSET Ids /\ ids # {} /\ tracked \in BOOLEAN
  BY <1>1, ItemType DEF Item
<1> HIDE DEF ids, tracked
<1>4. rec \in WorkRec /\ rec.ids = ids /\ rec.collected = tracked
  BY <1>3 DEF WorkRec
<1> HIDE DEF rec
<1>5. /\ works' \in Seq(WorkRec) /\ DOMAIN works' = DOMAIN works \cup {n}
      /\ n \notin DOMAIN works /\ n \in Nat /\ works'[n] = rec
      /\ \A v \in DOMAIN works : works'[v] = works[v]
  BY <1>1, <1>2, <1>4
<1> HIDE DEF n
<1>6. Live' = Live \cup {n}
  BY <1>3, <1>4, <1>5 DEF Live
<1> QED
  BY <1>4, <1>5, <1>6 DEF n, ids, tracked

\* A work with the identifiers of the item.
LEMMA UpdateRows ==
    ASSUME TypeInv, NEW j \in Jobs, Update(j)
    PROVE  /\ works' \in Seq(WorkRec) /\ DOMAIN works' = DOMAIN works /\ Live' = Live
           /\ \A v \in DOMAIN works : works'[v].collected = works[v].collected
           /\ \A v \in DOMAIN works :
                \/ works'[v].ids = works[v].ids
                \/ /\ v = job[j].work /\ v \in Live /\ works'[v].ids = item(j).ids
                   /\ not_unique(item(j).ids, Live \ {v}) = {}
           /\ job'[j].pc = "related" /\ job[j].work \in Live => works'[job[j].work].ids = item(j).ids
<1> DEFINE w == job[j].work
           ids == job[j].new
<1>1. /\ job[j].pc = "update" /\ w \in DOMAIN works /\ ids = item(j).ids
      /\ ids \in SUBSET Ids /\ ids # {}
  BY ItemType DEF Update, TypeInv, Refers
<1>2. works \in Seq(WorkRec) /\ Live \subseteq DOMAIN works
  BY WorkType DEF TypeInv
<1>3. CASE not_unique(ids, Live \ {w}) # {} \/ w \notin Live
  <2>1. works' = works
    BY <1>3 DEF Update
  <2>2. job'[j].pc = "related" => w \notin Live
    <3>1. CASE not_unique(ids, Live \ {w}) # {}
      <4>1. Idle(j)
        BY <3>1 DEF Update
      <4> QED
        BY <4>1, IdleFields DEF NoJob
    <3> QED
      BY <1>3, <3>1
  <2> QED
    BY <1>2, <2>1, <2>2 DEF Live
<1>4. CASE not_unique(ids, Live \ {w}) = {} /\ w \in Live
  <2> DEFINE r == works[w]
             rec == [r EXCEPT !.ids = ids, !.tracked = TRUE]
  <2>1. works' = [works EXCEPT ![w] = rec]
    BY <1>4 DEF Update
  <2>2. r \in WorkRec
    BY <1>1, <1>2
  <2> HIDE DEF r
  <2>3. rec \in WorkRec /\ rec.ids = ids /\ rec.collected = r.collected
    BY Zenon, <1>1, <2>2 DEF WorkRec
  <2> HIDE DEF rec
  <2>4. /\ works' \in Seq(WorkRec) /\ DOMAIN works' = DOMAIN works /\ works'[w] = rec
        /\ \A v \in DOMAIN works \ {w} : works'[v] = works[v]
    BY <1>1, <1>2, <2>1, <2>3
  <2>5. Live' = Live
    BY <1>1, <1>4, <2>3, <2>4 DEF Live
  <2>6. ASSUME NEW v \in DOMAIN works PROVE works'[v].collected = works[v].collected
    BY <2>3, <2>4 DEF r
  <2>7. ASSUME NEW v \in DOMAIN works
        PROVE  \/ works'[v].ids = works[v].ids
               \/ /\ v = job[j].work /\ v \in Live /\ works'[v].ids = item(j).ids
                  /\ not_unique(item(j).ids, Live \ {v}) = {}
    BY Zenon, <1>1, <1>4, <2>3, <2>4
  <2> QED
    BY Zenon, <1>1, <2>3, <2>4, <2>5, <2>6, <2>7
<1> QED
  BY Zenon, <1>3, <1>4

\* A work is destroyed.
LEMMA DestroyRows ==
    ASSUME TypeInv, destroy
    PROVE  LET w == first(doomed) IN
           /\ w \in doomed /\ w \in DOMAIN works
           /\ works' \in Seq(WorkRec) /\ DOMAIN works' = DOMAIN works /\ Live' = Live \ {w}
           /\ works'[w].ids = {} /\ works'[w].collected = FALSE
           /\ \A v \in DOMAIN works \ {w} : works'[v] = works[v]
<1> DEFINE w == first(doomed)
           rec == [ids |-> {}, tracked |-> FALSE, collected |-> FALSE]
<1>1. works' = [works EXCEPT ![w] = rec] /\ doomed # {}
  BY DEF destroy
<1>2. works \in Seq(WorkRec) /\ doomed \in SUBSET DOMAIN works /\ DOMAIN works \in SUBSET Nat
  BY WorkType DEF TypeInv, TypeOK
<1>3. w \in doomed /\ w \in DOMAIN works
  BY <1>1, <1>2, LeastNumber
<1> HIDE DEF w
<1>4. rec \in WorkRec /\ rec.ids = {} /\ rec.collected = FALSE
  BY DEF WorkRec
<1> HIDE DEF rec
<1>5. /\ works' \in Seq(WorkRec) /\ DOMAIN works' = DOMAIN works /\ works'[w] = rec
      /\ \A v \in DOMAIN works \ {w} : works'[v] = works[v]
  BY <1>1, <1>2, <1>3, <1>4
<1>6. Live' = Live \ {w}
  BY <1>4, <1>5 DEF Live
<1> QED
  BY <1>3, <1>4, <1>5, <1>6 DEF w

\* Only these steps change works; a job destroys none.
LEMMA WorksStep ==
    ASSUME TypeInv, NEW j \in Jobs, JobStep(j)
    PROVE  /\ ~Insert(j) /\ ~Update(j) => works' = works /\ Live' = Live
           /\ Insert(j) /\ not_unique(item(j).ids, Live) # {} => works' = works /\ Live' = Live
           /\ works' \in Seq(WorkRec) /\ DOMAIN works \subseteq DOMAIN works' /\ Live \subseteq Live'
           /\ Live' \subseteq DOMAIN works'
<1>1. /\ ~Insert(j) /\ ~Update(j) => works' = works
      /\ Insert(j) /\ not_unique(item(j).ids, Live) # {} => works' = works
  BY Zenon DEF JobStep, Start, Validate, Insert, Rescue, Related, FindRelation, MakeRelation, Dies,
           tables
<1>2. works' = works =>
        works' \in Seq(WorkRec) /\ DOMAIN works \subseteq DOMAIN works' /\ Live' = Live
  BY WorkType DEF TypeInv, Live
<1>3. Live' \subseteq DOMAIN works'
  BY DEF Live
<1>4. CASE Insert(j) /\ not_unique(item(j).ids, Live) = {}
  BY <1>3, <1>4, InsertRows, InsertFields, UpdateFields
<1>5. CASE Update(j)
  BY <1>3, <1>5, UpdateRows, UpdateFields, InsertFields
<1>6. CASE works' = works
  BY <1>1, <1>2, <1>3, <1>6
<1> QED
  BY Zenon, <1>1, <1>4, <1>5, <1>6

\* The tables keep their types.
TableInv ==
    /\ works \in Seq(WorkRec) /\ relations \subseteq Relation
    /\ \A r \in relations : r.pair \in Live \X Live \X {"cites", "is_cited_by"}
    /\ statuses \subseteq Live \X installed
    /\ pending \subseteq installed /\ installed \subseteq Sources /\ obsolete \subseteq Sources
    /\ doomed \subseteq DOMAIN works

LEMMA TypeTables == TypeInv => TableInv
BY Zenon DEF TypeInv, TypeOK, TableInv, WorkRec

LEMMA JobTables ==
    ASSUME TypeInv, NEW j \in Jobs, JobStep(j)
    PROVE  TableInv'
<1>0. TableInv
  BY TypeTables
<1>1. obsolete' = obsolete /\ installed' = installed /\ pending' = pending /\ doomed' = doomed
  BY Zenon DEF JobStep, Start, Validate, Insert, Rescue, Update, Related, FindRelation,
           MakeRelation, Dies, rest
<1>2. /\ works' \in Seq(WorkRec) /\ DOMAIN works \subseteq DOMAIN works' /\ Live \subseteq Live'
      /\ Live' \subseteq DOMAIN works'
  BY WorksStep
<1>3. statuses' \subseteq Live' \X installed
  <2>1. CASE Insert(j) /\ not_unique(item(j).ids, Live) = {}
    <3>1. statuses' = statuses \cup create_retrievals(j)
      BY <2>1 DEF Insert
    <3>2. Len(works) + 1 \in Live'
      BY <2>1, InsertRows
    <3>3. job[j].sees \subseteq installed
      BY DEF TypeInv, Refers
    <3>4. create_retrievals(j) \subseteq Live' \X installed
      BY <3>2, <3>3 DEF create_retrievals
    <3> QED
      BY <1>0, <1>2, <3>1, <3>4 DEF TableInv
  <2>2. CASE ~(Insert(j) /\ not_unique(item(j).ids, Live) = {})
    <3>1. statuses' = statuses
      BY Zenon, <2>2 DEF JobStep, Start, Validate, Insert, Rescue, Update, Related, FindRelation,
               MakeRelation, Dies, tables
    <3> QED
      BY <1>0, <1>2, <3>1 DEF TableInv
  <2> QED
    BY <2>1, <2>2
<1>4. /\ relations' \subseteq Relation
      /\ \A r \in relations' : r.pair \in Live' \X Live' \X {"cites", "is_cited_by"}
  <2>1. CASE relations' = relations
    BY <1>0, <1>2, <2>1 DEF TableInv
  <2>2. CASE MakeRelation(j) /\ {job[j].work, job[j].related} \subseteq Live
    <3> DEFINE pair == Pair(j)
               source == job[j].source
               run == job[j].run
               ids == item(j).ids
               rec == [pair |-> pair, source |-> source, run |-> run, by |-> ids]
    <3>1. relations' = relations \cup {rec} /\ job[j].pc \in {"make", "make_inverse"}
      BY <2>2, MakeFields
    <3>2. /\ pair \in Live \X Live \X {"cites", "is_cited_by"}
          /\ pair \in Nat \X Nat \X {"cites", "is_cited_by"}
      BY <2>2, WorkType DEF Pair, TypeInv
    <3>3. job[j] \in JobRec /\ ids \in SUBSET Ids
      BY <3>1, ItemType
    <3>4. source \in Sources /\ run \in Nat
      BY <1>0, <3>1, <3>3 DEF TypeInv, Refers, TableInv, JobRec
    <3> HIDE DEF pair, source, run, ids
    <3>5. rec \in Relation /\ rec.pair = pair
      BY <3>2, <3>3, <3>4 DEF Relation
    <3> HIDE DEF rec
    <3> QED
      BY <1>0, <1>2, <3>1, <3>2, <3>5 DEF TableInv
  <2> QED
    <3>1. relations' = relations \/ (MakeRelation(j) /\ {job[j].work, job[j].related} \subseteq Live)
      BY Zenon DEF JobStep, Start, Validate, Insert, Rescue, Update, Related, FindRelation,
               MakeRelation, Dies, tables
    <3> QED
      BY <2>1, <2>2, <3>1
<1>5. doomed' \subseteq DOMAIN works'
  BY <1>0, <1>1, <1>2 DEF TableInv
<1> QED
  BY <1>0, <1>1, <1>2, <1>3, <1>4, <1>5 DEF TableInv

\* The steps that are not of a SourceJob.
Elsewhere == (\E s \in Sources : Install(s) \/ insert_retrievals(s) \/ DeleteEvents(s)) \/ destroy

LEMMA ElsewhereTables ==
    ASSUME TypeInv, Elsewhere
    PROVE  TableInv' /\ DOMAIN works' = DOMAIN works /\ job' = job /\ installed \subseteq installed'
           /\ (~destroy => works' = works /\ relations' = relations /\ Live' = Live)
           /\ disturbed' = disturbed /\ deaths' = deaths /\ runs' = runs
<1>0. TableInv
  BY TypeTables
<1>1. ASSUME NEW s \in Sources, Install(s) \/ insert_retrievals(s) \/ DeleteEvents(s)
      PROVE  /\ TableInv' /\ installed \subseteq installed'
             /\ job' = job /\ works' = works /\ relations' = relations /\ Live' = Live
             /\ disturbed' = disturbed /\ deaths' = deaths /\ runs' = runs
  <2>1. /\ job' = job /\ works' = works /\ relations' = relations
        /\ disturbed' = disturbed /\ deaths' = deaths /\ runs' = runs
    BY Zenon, <1>1 DEF Install, insert_retrievals, DeleteEvents, tables
  <2>2. Live' = Live
    BY <2>1 DEF Live
  <2>3. CASE Install(s)
    <3>1. /\ installed' = installed \cup {s} /\ pending' = pending \cup ({s} \ obsolete)
          /\ statuses' = statuses /\ doomed' = doomed /\ obsolete' = obsolete
      BY Zenon, <2>3 DEF Install, tables
    <3> QED
      BY <1>0, <2>1, <2>2, <3>1 DEF TableInv
  <2>4. CASE insert_retrievals(s)
    <3>1. /\ installed' = installed /\ pending' = pending \ {s} /\ s \in pending
          /\ statuses' = statuses \cup (Live \X {s}) /\ doomed' = doomed /\ obsolete' = obsolete
      BY Zenon, <2>4 DEF insert_retrievals
    <3> QED
      BY <1>0, <2>1, <2>2, <3>1 DEF TableInv
  <2>5. CASE DeleteEvents(s)
    <3>1. /\ installed' = installed /\ pending' = pending /\ obsolete' = obsolete
          /\ statuses' = statuses /\ doomed' = Selected(s)
      BY Zenon, <2>5 DEF DeleteEvents, tables
    <3>2. Selected(s) \subseteq DOMAIN works
      BY Zenon, <1>0, WorkType DEF Selected, TableInv, TypeInv
    <3> QED
      BY <1>0, <2>1, <2>2, <3>1, <3>2 DEF TableInv
  <2> QED
    BY <1>1, <2>1, <2>2, <2>3, <2>4, <2>5
<1>2. CASE destroy
  <2> DEFINE w == first(doomed)
  <2>1. /\ relations' = {r \in relations : w \notin {r.pair[1], r.pair[2]}}
        /\ statuses' = {p \in statuses : p[1] # w} /\ doomed' = doomed \ {w}
        /\ obsolete' = obsolete /\ installed' = installed /\ pending' = pending /\ job' = job
        /\ disturbed' = disturbed /\ deaths' = deaths /\ runs' = runs
    BY Zenon, <1>2 DEF destroy
  <2>2. works' \in Seq(WorkRec) /\ DOMAIN works' = DOMAIN works /\ Live' = Live \ {w}
    BY <1>2, DestroyRows
  <2> HIDE DEF w
  <2>3. \A r \in relations' : r.pair \in Live' \X Live' \X {"cites", "is_cited_by"}
    BY <1>0, <2>1, <2>2 DEF TableInv
  <2>4. statuses' \subseteq Live' \X installed
    BY <1>0, <2>1, <2>2 DEF TableInv
  <2> QED
    BY <1>0, <1>2, <2>1, <2>2, <2>3, <2>4 DEF TableInv
<1> QED
  BY <1>0, <1>1, <1>2 DEF Elsewhere

\* What the jobs refer to stays there.
LEMMA JobRefers ==
    ASSUME TypeInv, NEW j \in Jobs, JobStep(j)
    PROVE  Others(j) /\ (\A i \in Jobs : Refers(i)')
<1>1. installed' = installed /\ installed \subseteq Sources
  BY Zenon DEF JobStep, Start, Validate, Insert, Rescue, Update, Related, FindRelation,
           MakeRelation, Dies, rest, TypeInv, TypeOK
<1>2. DOMAIN works \subseteq DOMAIN works' /\ Live \subseteq DOMAIN works
  BY WorksStep, WorkType DEF TypeInv
<1>3. Others(j) => \A i \in Jobs \ {j} : Refers(i)'
  BY <1>1, <1>2 DEF Others, TypeInv, Refers, item
<1>4. Refers(j)
  BY DEF TypeInv
<1>5. ASSUME job'[j] = NoJob PROVE Refers(j)'
  BY <1>5 DEF Refers, NoJob, Linking
<1>6. ASSUME Ended(j) /\ job[j].pc # "idle" PROVE Refers(j)'
  BY <1>1, <1>4, <1>6 DEF Ended, Refers, Linking
<1>7. ASSUME Start(j) PROVE Others(j) /\ Refers(j)'
  BY <1>1, <1>7, StartFields DEF Refers, Linking
<1>8. ASSUME Validate(j) PROVE Others(j) /\ Refers(j)'
  BY <1>1, <1>4, <1>8, ValidateFields DEF Refers, Linking, Kept
<1>9. ASSUME Insert(j) PROVE Others(j) /\ Refers(j)'
  <2>1. not_unique(item(j).ids, Live) = {} => Len(works) + 1 \in DOMAIN works'
    BY <1>9, InsertRows
  <2> QED
    BY Zenon, <1>1, <1>4, <1>9, <2>1, InsertFields DEF Refers, Linking, Kept
<1>10. ASSUME Rescue(j) PROVE Others(j) /\ Refers(j)'
  <2>1. ASSUME NEW w \in Live, Looked(j, w), job[j].pc = "rescue" PROVE Refers(j)'
    BY <1>1, <1>2, <1>4, <2>1 DEF Refers, Linking, Kept, Looked, item
  <2> QED
    BY <1>6, <1>10, <2>1, RescueFields
<1>11. ASSUME Update(j) PROVE Others(j) /\ Refers(j)'
  BY <1>1, <1>2, <1>4, <1>5, <1>11, UpdateFields DEF Refers, Linking, Kept
<1>12. ASSUME Related(j) PROVE Others(j) /\ Refers(j)'
  BY Zenon, <1>1, <1>2, <1>4, <1>6, <1>12, RelatedFields DEF Refers, Linking, Kept
<1>13. ASSUME Linked(j), job[j].pc \in Linking, job'[j].pc \in Linking PROVE Refers(j)'
  BY <1>1, <1>2, <1>4, <1>13 DEF Refers, Linking, Linked, Kept
<1>14. ASSUME FindRelation(j) PROVE Others(j) /\ Refers(j)'
  BY <1>6, <1>13, <1>14, FindFields DEF Linking
<1>15. ASSUME MakeRelation(j) PROVE Others(j) /\ Refers(j)'
  BY <1>5, <1>6, <1>13, <1>15, MakeFields DEF Linking
<1>16. ASSUME Dies(j) PROVE Others(j) /\ Refers(j)'
  BY <1>5, <1>16, IdleFields DEF Dies
<1>17. Others(j) /\ Refers(j)'
  BY Zenon, <1>7, <1>8, <1>9, <1>10, <1>11, <1>12, <1>14, <1>15, <1>16 DEF JobStep
<1> QED
  BY <1>3, <1>17

\* The counters and the two flags.
CountInv ==
    /\ runs \in 0..MaxRuns /\ deaths \in 0..MaxDeaths /\ deletes \in 0..MaxDeletes
    /\ disturbed \in BOOLEAN /\ overlap \in BOOLEAN

LEMMA CountStep ==
    ASSUME CountInv, [Next]_vars
    PROVE  CountInv'
<1>1. /\ runs' = runs \/ (runs < MaxRuns /\ runs' = runs + 1)
      /\ deaths' = deaths \/ (deaths < MaxDeaths /\ deaths' = deaths + 1)
      /\ deletes' = deletes \/ (deletes < MaxDeletes /\ deletes' = deletes + 1)
  BY Zenon DEF Next, JobStep, Start, Validate, Insert, Rescue, Update, Related, FindRelation,
           MakeRelation, Dies, Install, insert_retrievals, DeleteEvents, destroy, rest, vars
<1>2. disturbed' \in BOOLEAN /\ overlap' \in BOOLEAN
  BY ZenonT(40) DEF CountInv, Next, JobStep, Start, Validate, Insert, Rescue, Update, Related,
           FindRelation, MakeRelation, Dies, Install, insert_retrievals, DeleteEvents, destroy,
           rest, vars
<1>3. MaxRuns \in Nat /\ MaxDeaths \in Nat /\ MaxDeletes \in Nat
  BY WorksAssumption DEF WorksAssumption
<1>4. runs' \in 0..MaxRuns /\ deaths' \in 0..MaxDeaths /\ deletes' \in 0..MaxDeletes
  BY <1>1, <1>3 DEF CountInv
<1> QED
  BY Zenon, <1>2, <1>4 DEF CountInv

\* TypeInv is preserved.
LEMMA TypeStep ==
    ASSUME TypeInv, [Next]_vars
    PROVE  TypeInv'
<1>1. TypeInv' <=> TableInv' /\ CountInv' /\ job' \in [Jobs -> JobRec] /\ \A j \in Jobs : Refers(j)'
  BY Zenon DEF TypeInv, TypeOK, TableInv, CountInv, WorkRec
<1>2. CountInv'
  <2>1. CountInv
    BY Zenon DEF TypeInv, TypeOK, CountInv
  <2> QED
    BY <2>1, CountStep
<1>3. ASSUME NEW j \in Jobs, JobStep(j)
      PROVE  TableInv' /\ job' \in [Jobs -> JobRec] /\ \A i \in Jobs : Refers(i)'
  BY Zenon, <1>3, JobTables, JobRefers DEF Others
<1>4. ASSUME Elsewhere
      PROVE  TableInv' /\ job' \in [Jobs -> JobRec] /\ \A i \in Jobs : Refers(i)'
  <2>1. /\ TableInv' /\ DOMAIN works' = DOMAIN works /\ job' = job
        /\ installed \subseteq installed'
    BY <1>4, ElsewhereTables
  <2>2. \A i \in Jobs : Refers(i)'
    BY <2>1 DEF TypeInv, Refers, item
  <2> QED
    BY <2>1, <2>2 DEF TypeInv
<1>5. CASE UNCHANGED vars
  BY <1>5 DEF vars, TypeInv, TypeOK, Refers, item, Live
<1> QED
  BY Zenon, <1>1, <1>2, <1>3, <1>4, <1>5 DEF Next, Elsewhere

-------------------------------------------------------------------------------
\* The invariants of jobs that run alone.

\* AloneInv is preserved.
LEMMA AloneStep ==
    ASSUME TypeInv, AloneInv, [Next]_vars
    PROVE  AloneInv' /\ (disturbed => disturbed')
<1>1. ASSUME NEW j \in Jobs, JobStep(j), ~Start(j)
      PROVE  disturbed' = disturbed /\ Others(j) /\ job[j].pc # "idle"
  <2>1. disturbed' = disturbed
    BY Zenon, <1>1 DEF JobStep, Validate, Insert, Rescue, Update, Related, FindRelation,
             MakeRelation, Dies, rest
  <2>2. job[j].pc # "idle"
    BY Zenon, <1>1 DEF JobStep, Validate, Insert, Rescue, Update, Related, FindRelation,
             MakeRelation, Dies
  <2> QED
    BY Zenon, <1>1, <2>1, <2>2, JobRefers
<1>2. ASSUME NEW j \in Jobs, Start(j) PROVE AloneInv' /\ (disturbed => disturbed')
  <2>1. disturbed' = (disturbed \/ \E i \in Jobs : job[i].pc # "idle")
    BY Zenon, <1>2 DEF Start
  <2>2. \A i \in Jobs \ {j} : job'[i] = job[i]
    BY <1>2, StartFields DEF Others
  <2> QED
    BY Zenon, <2>1, <2>2 DEF AloneInv
<1>3. CASE Elsewhere \/ UNCHANGED vars
  <2>1. job' = job /\ disturbed' = disturbed
    BY Zenon, <1>3, ElsewhereTables DEF vars
  <2> QED
    BY Zenon, <2>1 DEF AloneInv
<1>4. ASSUME NEW j \in Jobs, JobStep(j), ~Start(j) PROVE AloneInv' /\ (disturbed => disturbed')
  <2>1. \A i \in Jobs : job'[i].pc # "idle" => job[i].pc # "idle"
    BY Zenon, <1>1, <1>4 DEF Others
  <2> QED
    BY Zenon, <1>1, <1>4, <2>1 DEF AloneInv
<1> QED
  BY Zenon, <1>2, <1>3, <1>4 DEF Next, Elsewhere

\* A job that runs alone is the only one.
LEMMA OnlyOne ==
    ASSUME TypeInv, AloneInv, NEW j \in Jobs, JobStep(j), ~disturbed'
    PROVE  ~disturbed /\ Others(j) /\ \A i \in Jobs \ {j} : job[i].pc = "idle" /\ job'[i].pc = "idle"
<1>1. Others(j)
  BY JobRefers
<1>2. CASE Start(j)
  <2>1. disturbed' = (disturbed \/ \E i \in Jobs : job[i].pc # "idle")
    BY Zenon, <1>2 DEF Start
  <2> QED
    BY Zenon, <1>1, <2>1 DEF Others
<1>3. CASE ~Start(j)
  <2>1. disturbed' = disturbed
    BY Zenon, <1>3 DEF JobStep, Validate, Insert, Rescue, Update, Related, FindRelation,
             MakeRelation, Dies, rest
  <2>2. job[j].pc # "idle"
    BY Zenon, <1>3 DEF JobStep, Validate, Insert, Rescue, Update, Related, FindRelation,
             MakeRelation, Dies
  <2> QED
    BY Zenon, <1>1, <2>1, <2>2 DEF AloneInv, Others
<1> QED
  BY <1>2, <1>3

\* Which steps lead where.
LEMMA Arrives ==
    ASSUME TypeInv, NEW j \in Jobs, JobStep(j)
    PROVE  /\ job'[j].pc = "insert" => Validate(j)
           /\ job'[j].pc = "rescue" => Validate(j) \/ Insert(j)
           /\ job'[j].pc = "update" => Rescue(j)
           /\ job'[j].pc = "related" => Insert(j) \/ Rescue(j) \/ Update(j)
           /\ job'[j].pc = "find" => Related(j)
           /\ job'[j].pc \in {"make", "make_inverse"} => FindRelation(j)
           /\ job'[j].pc = "find_inverse" => FindRelation(j) \/ MakeRelation(j)
<1>1. Start(j) => job'[j].pc = "create"
  BY StartFields
<1>2. Validate(j) => job'[j].pc \in {"insert", "rescue"}
  BY ValidateFields
<1>3. Insert(j) => job'[j].pc \in {"related", "rescue"}
  BY InsertFields
<1>4. Rescue(j) => job'[j].pc \in {"idle", "create", "update", "related"}
  BY RescueFields DEF Ended, Looked
<1>5. Update(j) => job'[j].pc \in {"idle", "related"}
  BY UpdateFields DEF NoJob
<1>6. Related(j) => job'[j].pc \in {"idle", "create", "find"}
  BY RelatedFields DEF Ended
<1>7. FindRelation(j) => job'[j].pc \in {"idle", "create", "find_inverse", "make", "make_inverse"}
  BY FindFields DEF Ended
<1>8. MakeRelation(j) => job'[j].pc \in {"idle", "create", "find_inverse"}
  BY MakeFields DEF Ended, NoJob
<1>9. Dies(j) => job'[j].pc = "idle"
  BY IdleFields DEF Dies, NoJob
<1> QED
  BY <1>1, <1>2, <1>3, <1>4, <1>5, <1>6, <1>7, <1>8, <1>9 DEF JobStep

\* ValidInv is preserved.
LEMMA ValidStep ==
    ASSUME TypeInv, AloneInv, ValidInv, [Next]_vars
    PROVE  ValidInv'
<1>1. ASSUME NEW j \in Jobs, JobStep(j), ~disturbed' PROVE ValidInv'
  <2>1. ~disturbed /\ Others(j) /\ \A i \in Jobs \ {j} : job'[i].pc = "idle"
    BY <1>1, OnlyOne
  <2>2. ASSUME job'[j].pc = "insert" PROVE \A w \in Live' : works'[w].ids \cap item(j)'.ids = {}
    <3>1. Validate(j)
      BY <1>1, <2>2, Arrives
    <3>2. works' = works /\ Live' = Live
      BY <3>1 DEF Validate, tables, Live
    <3>3. item(j)' = item(j) /\ taken(item(j).ids, Live) = {}
      <4>1. Kept(j) /\ taken(item(j).ids, Live) = {}
        BY <2>2, <3>1, ValidateFields
      <4> QED
        BY <4>1 DEF Kept, item
    <3> QED
      BY <3>2, <3>3, NoneTaken
  <2>3. ASSUME job'[j].pc = "update"
        PROVE  \A w \in Live' \ {job'[j].work} : works'[w].ids \cap item(j)'.ids = {}
    <3>1. Rescue(j)
      BY <1>1, <2>3, Arrives
    <3>2. works' = works /\ Live' = Live
      BY <3>1 DEF Rescue, tables, Live
    <3>3. PICK w \in Live : Looked(j, w)
      BY <2>3, <3>1, RescueFields DEF Ended
    <3>4. item(j)' = item(j)
      BY <3>3 DEF Looked, Kept, item
    <3> QED
      BY <2>3, <3>2, <3>3, <3>4 DEF Looked
  <2> QED
    BY <2>1, <2>2, <2>3 DEF ValidInv
<1>2. ASSUME Elsewhere \/ UNCHANGED vars, ~disturbed' PROVE ValidInv'
  <2>1. job' = job /\ ~disturbed
    BY Zenon, <1>2, ElsewhereTables, AloneStep DEF vars
  <2>2. \A w \in Live' : w \in Live /\ works'[w] = works[w]
    <3>1. CASE destroy
      BY Zenon, <3>1, DestroyRows, WorkType DEF TypeInv
    <3>2. CASE ~destroy
      <4>1. works' = works
        BY <1>2, <3>2, ElsewhereTables DEF vars
      <4> QED
        BY <4>1 DEF Live
    <3> QED
      BY <3>1, <3>2
  <2> QED
    BY <2>1, <2>2 DEF ValidInv, item
<1> QED
  BY Zenon, <1>1, <1>2 DEF Next, Elsewhere, ValidInv

\* Identifiers stay unique.
LEMMA UniqueStep ==
    ASSUME TypeInv, AloneInv, ValidInv, UniqueIds, [Next]_vars
    PROVE  UniqueIds'
<1>0. disturbed => disturbed'
  BY Zenon, AloneStep
<1>1. ASSUME NEW j \in Jobs, Insert(j), not_unique(item(j).ids, Live) = {} PROVE UniqueIds'
  <2> DEFINE n == Len(works) + 1
  <2>1. /\ DOMAIN works' = DOMAIN works \cup {n} /\ n \notin DOMAIN works
        /\ \A v \in DOMAIN works : works'[v] = works[v]
        /\ works'[n].ids = item(j).ids
    BY Zenon, <1>1, InsertRows
  <2> HIDE DEF n
  <2>2. ASSUME NEW v \in DOMAIN works, NEW p \in works[v].ids \cap item(j).ids
        PROVE  disturbed' /\ p[1] = "canonical_url"
    <3>1. v \in Live
      BY DEF Live
    <3>2. p[1] = "canonical_url"
      BY <1>1, <3>1, NoDuplicate
    <3>3. disturbed
      BY Zenon, <1>1, <3>1, InsertFields DEF ValidInv
    <3> QED
      BY Zenon, <1>0, <3>2, <3>3
  <2> SUFFICES ASSUME NEW v \in DOMAIN works', NEW w \in DOMAIN works', v # w,
                      NEW p \in works'[v].ids \cap works'[w].ids
               PROVE  disturbed' /\ p[1] = "canonical_url"
    BY Zenon DEF UniqueIds
  <2>3. CASE v \in DOMAIN works /\ w \in DOMAIN works
    BY Zenon, <1>0, <2>1, <2>3 DEF UniqueIds
  <2>4. CASE v = n
    BY <2>1, <2>2, <2>4
  <2>5. CASE w = n
    BY <2>1, <2>2, <2>5
  <2> QED
    BY <2>1, <2>3, <2>4, <2>5
<1>2. ASSUME NEW j \in Jobs, Update(j) PROVE UniqueIds'
  <2> DEFINE w == job[j].work
  <2>1. DOMAIN works' = DOMAIN works
    BY <1>2, UpdateRows
  <2>2. \A v \in DOMAIN works :
          \/ works'[v].ids = works[v].ids
          \/ /\ v = w /\ works'[v].ids = item(j).ids
             /\ not_unique(item(j).ids, Live \ {v}) = {}
    BY Zenon, <1>2, UpdateRows
  <2>3. job[j].pc = "update"
    BY <1>2, UpdateFields
  <2> HIDE DEF w
  <2>4. ASSUME NEW v \in DOMAIN works \ {w}, NEW p \in works[v].ids \cap item(j).ids,
               not_unique(item(j).ids, Live \ {w}) = {}
        PROVE  disturbed' /\ p[1] = "canonical_url"
    <3>1. v \in Live \ {w}
      BY DEF Live
    <3>2. p[1] = "canonical_url"
      BY <2>4, <3>1, NoDuplicate
    <3>3. disturbed
      BY Zenon, <2>3, <3>1 DEF ValidInv, w
    <3> QED
      BY Zenon, <1>0, <3>2, <3>3
  <2> SUFFICES ASSUME NEW v \in DOMAIN works, NEW u \in DOMAIN works, v # u,
                      NEW p \in works'[v].ids \cap works'[u].ids
               PROVE  disturbed' /\ p[1] = "canonical_url"
    BY Zenon, <2>1 DEF UniqueIds
  <2>5. CASE works'[v].ids = works[v].ids /\ works'[u].ids = works[u].ids
    BY Zenon, <1>0, <2>5 DEF UniqueIds
  <2>6. CASE works'[v].ids # works[v].ids
    BY Zenon, <2>2, <2>4, <2>6
  <2>7. CASE works'[u].ids # works[u].ids
    BY Zenon, <2>2, <2>4, <2>7
  <2> QED
    BY <2>5, <2>6, <2>7
<1>3. ASSUME destroy PROVE UniqueIds'
  <2>1. DOMAIN works' = DOMAIN works /\ \A v \in DOMAIN works : works'[v].ids \subseteq works[v].ids
    BY <1>3, DestroyRows
  <2> QED
    BY Zenon, <1>0, <2>1 DEF UniqueIds
<1>4. ASSUME works' = works PROVE UniqueIds'
  <2> SUFFICES ASSUME NEW v \in DOMAIN works, NEW w \in DOMAIN works, v # w,
                      NEW p \in works[v].ids \cap works[w].ids
               PROVE  disturbed' /\ p[1] = "canonical_url"
    BY <1>4 DEF UniqueIds
  <2> QED
    BY Zenon, <1>0 DEF UniqueIds
<1>5. ASSUME Elsewhere PROVE UniqueIds'
  BY Zenon, <1>3, <1>4, <1>5, ElsewhereTables
<1>6. ASSUME NEW j \in Jobs, JobStep(j) PROVE UniqueIds'
  BY Zenon, <1>1, <1>2, <1>4, <1>6, WorksStep
<1> QED
  BY Zenon, <1>4, <1>5, <1>6 DEF Next, Elsewhere, vars

-------------------------------------------------------------------------------
\* Retrieval statuses.

\* Only Install changes these.
LEMMA OverlapStep ==
    ASSUME [Next]_vars
    PROVE  /\ overlap => overlap'
           /\ (\A s \in Sources : ~Install(s)) => overlap' = overlap /\ installed' = installed
<1>1. (\A s \in Sources : ~Install(s)) => overlap' = overlap /\ installed' = installed
  BY Zenon DEF Next, JobStep, Start, Validate, Insert, Rescue, Update, Related, FindRelation,
           MakeRelation, Dies, insert_retrievals, DeleteEvents, destroy, rest, vars
<1>2. overlap => overlap'
  BY Zenon DEF Next, JobStep, Start, Validate, Insert, Rescue, Update, Related, FindRelation,
           MakeRelation, Dies, Install, insert_retrievals, DeleteEvents, destroy, rest, vars
<1> QED
  BY Zenon, <1>1, <1>2

\* SeesInv is preserved.
LEMMA SeesStep ==
    ASSUME TypeInv, SeesInv, [Next]_vars
    PROVE  SeesInv'
<1>1. ASSUME ~overlap', NEW i \in Jobs, job'[i].pc = "insert" PROVE job'[i].sees = installed'
  <2>0. ~overlap
    BY Zenon, <1>1, OverlapStep
  <2>1. ASSUME NEW j \in Jobs, JobStep(j) PROVE job'[i].sees = installed'
    <3>1. installed' = installed
      BY Zenon, <2>1 DEF JobStep, Start, Validate, Insert, Rescue, Update, Related, FindRelation,
               MakeRelation, Dies, rest
    <3>2. CASE i # j
      <4>1. job'[i] = job[i]
        BY <2>1, <3>2, JobRefers DEF Others
      <4> QED
        BY Zenon, <1>1, <2>0, <3>1, <4>1 DEF SeesInv
    <3>3. CASE i = j
      BY <1>1, <2>1, <3>1, <3>3, Arrives, ValidateFields
    <3> QED
      BY <3>2, <3>3
  <2>2. ASSUME NEW s \in Sources, Install(s) PROVE FALSE
    <3>1. job' = job
      BY Zenon, <2>2 DEF Install
    <3> QED
      BY Zenon, <1>1, <2>2, <3>1 DEF Install
  <2>3. ASSUME job' = job, installed' = installed PROVE job'[i].sees = installed'
    BY Zenon, <1>1, <2>0, <2>3 DEF SeesInv
  <2>4. (Elsewhere \/ UNCHANGED vars) /\ (\A s \in Sources : ~Install(s)) =>
          job' = job /\ installed' = installed
    BY Zenon, ElsewhereTables, OverlapStep DEF vars
  <2> QED
    BY Zenon, <2>1, <2>2, <2>3, <2>4 DEF Next, Elsewhere
<1>2. ASSUME NEW w \in DOMAIN works', works'[w].collected PROVE works'[w].ids # {}
  <2>1. ASSUME works' = works PROVE works'[w].ids # {}
    BY Zenon, <1>2, <2>1 DEF SeesInv
  <2>2. ASSUME destroy PROVE works'[w].ids # {}
    BY Zenon, <1>2, <2>2, DestroyRows DEF SeesInv
  <2>3. ASSUME NEW j \in Jobs, Insert(j), not_unique(item(j).ids, Live) = {}
        PROVE  works'[w].ids # {}
    <3>1. item(j).ids # {}
      BY <2>3, InsertFields, ItemType
    <3>2. (w \in DOMAIN works /\ works'[w] = works[w]) \/ works'[w].ids = item(j).ids
      BY <2>3, InsertRows
    <3> QED
      BY Zenon, <1>2, <3>1, <3>2 DEF SeesInv
  <2>4. ASSUME NEW j \in Jobs, Update(j) PROVE works'[w].ids # {}
    <3>1. item(j).ids # {}
      BY <2>4, UpdateFields, ItemType
    <3>2. /\ w \in DOMAIN works /\ works'[w].collected = works[w].collected
          /\ works'[w].ids = works[w].ids \/ works'[w].ids = item(j).ids
      BY Zenon, <2>4, UpdateRows
    <3> QED
      BY Zenon, <1>2, <3>1, <3>2 DEF SeesInv
  <2>5. ASSUME NEW j \in Jobs, JobStep(j) PROVE works'[w].ids # {}
    BY Zenon, <2>1, <2>3, <2>4, <2>5, WorksStep
  <2>6. ASSUME Elsewhere \/ UNCHANGED vars PROVE works'[w].ids # {}
    BY Zenon, <2>1, <2>2, <2>6, ElsewhereTables DEF vars
  <2> QED
    BY Zenon, <2>5, <2>6 DEF Next, Elsewhere
<1> QED
  BY Zenon, <1>1, <1>2 DEF SeesInv

\* A work is collected by a source, or is one of those from before it was retired.
Has(w, s) == \/ <<w, s>> \in statuses
             \/ s \in obsolete /\ \A v \in 1..w : <<v, s>> \notin statuses

\* Works that are tracked keep a retrieval status for every source.
LEMMA CollectedStep ==
    ASSUME TypeInv, SeesInv, Collected, [Next]_vars
    PROVE  Collected'
<1> SUFFICES ASSUME ~overlap', NEW w \in DOMAIN works', NEW s \in installed' \ pending',
                    works'[w].collected
             PROVE  Has(w, s)'
  BY Zenon DEF Collected, Has
<1>0. ~overlap /\ obsolete' = obsolete
  <2>1. obsolete' = obsolete
    BY Zenon DEF Next, JobStep, Start, Validate, Insert, Rescue, Update, Related, FindRelation,
             MakeRelation, Dies, Install, insert_retrievals, DeleteEvents, destroy, rest, vars
  <2> QED
    BY Zenon, <2>1, OverlapStep
<1>1. \A v \in DOMAIN works, u \in installed \ pending : works[v].collected => Has(v, u)
  BY Zenon, <1>0 DEF Collected, Has
<1>2. ASSUME NEW j \in Jobs, JobStep(j) PROVE Has(w, s)'
  <2>1. s \in installed \ pending /\ installed' = installed
    BY Zenon, <1>2 DEF JobStep, Start, Validate, Insert, Rescue, Update, Related, FindRelation,
             MakeRelation, Dies, rest
  <2>2. CASE Insert(j) /\ not_unique(item(j).ids, Live) = {}
    <3> DEFINE n == Len(works) + 1
    <3>1. statuses' = statuses \cup create_retrievals(j)
      BY <2>2 DEF Insert
    <3>2. \/ w \in DOMAIN works /\ works'[w] = works[w]
          \/ w = n /\ works'[w].collected = item(j).tracked
      BY Zenon, <2>2, InsertRows
    <3>3. CASE w \in DOMAIN works /\ works'[w] = works[w]
      <4>1. Has(w, s)
        BY Zenon, <1>1, <2>1, <3>3
      <4>2. w < n /\ \A v \in 1..w : v # n
        BY <3>3, WorkType
      <4>3. create_retrievals(j) \subseteq {n} \X job[j].sees
        BY DEF create_retrievals
      <4> HIDE DEF n
      <4> QED
        BY <1>0, <3>1, <4>1, <4>2, <4>3 DEF Has
    <3>4. CASE w = n /\ works'[w].collected = item(j).tracked
      <4>1. item(j).tracked
        BY Zenon, <3>4
      <4>2. job[j].sees = installed
        BY Zenon, <1>0, <2>2, InsertFields DEF SeesInv
      <4>3. create_retrievals(j) = {n} \X installed
        BY Zenon, <4>1, <4>2 DEF create_retrievals
      <4> QED
        BY <2>1, <3>1, <3>4, <4>3 DEF Has
    <3> QED
      BY Zenon, <3>2, <3>3, <3>4
  <2>3. CASE ~(Insert(j) /\ not_unique(item(j).ids, Live) = {})
    <3>1. statuses' = statuses
      BY Zenon, <1>2, <2>3 DEF JobStep, Start, Validate, Insert, Rescue, Update, Related,
               FindRelation, MakeRelation, Dies, tables
    <3>2. w \in DOMAIN works /\ works'[w].collected = works[w].collected
      BY Zenon, <1>2, <2>3, WorksStep, UpdateRows
    <3>3. Has(w, s)
      BY Zenon, <1>1, <2>1, <3>2
    <3> QED
      BY Zenon, <1>0, <3>1, <3>3 DEF Has
  <2> QED
    BY <2>2, <2>3
<1>3. ASSUME works' = works, s \in installed \ pending, statuses' = statuses
      PROVE  Has(w, s)'
  <2>1. Has(w, s)
    BY Zenon, <1>1, <1>3
  <2> QED
    BY Zenon, <1>0, <1>3, <2>1 DEF Has
<1>4. ASSUME NEW u \in Sources, Install(u) PROVE Has(w, s)'
  <2>1. /\ works' = works /\ statuses' = statuses /\ u \notin installed
        /\ installed' = installed \cup {u} /\ pending' = pending \cup ({u} \ obsolete)
    BY Zenon, <1>4 DEF Install, tables
  <2>2. CASE s = u
    <3>1. s \in obsolete
      BY <2>1, <2>2
    <3>2. \A v : <<v, s>> \notin statuses
      BY <2>1, <2>2, TypeTables DEF TableInv
    <3> QED
      BY Zenon, <1>0, <2>1, <3>1, <3>2 DEF Has
  <2>3. CASE s # u
    <3>1. s \in installed \ pending
      BY <2>1, <2>3
    <3> QED
      BY <1>3, <2>1, <3>1
  <2> QED
    BY <2>2, <2>3
<1>5. ASSUME NEW u \in Sources, insert_retrievals(u) PROVE Has(w, s)'
  <2>1. /\ works' = works /\ statuses' = statuses \cup (Live \X {u})
        /\ installed' = installed /\ pending' = pending \ {u}
    BY Zenon, <1>5 DEF insert_retrievals
  <2>2. w \in Live
    BY Zenon, <2>1 DEF SeesInv, Live
  <2>3. CASE s = u
    BY <2>1, <2>2, <2>3 DEF Has
  <2>4. CASE s # u
    <3>1. Has(w, s)
      BY Zenon, <1>1, <2>1, <2>4
    <3> QED
      BY <1>0, <2>1, <2>4, <3>1 DEF Has
  <2> QED
    BY <2>3, <2>4
<1>6. ASSUME NEW u \in Sources, DeleteEvents(u) PROVE Has(w, s)'
  BY Zenon, <1>3, <1>6 DEF DeleteEvents, tables
<1>7. ASSUME destroy PROVE Has(w, s)'
  <2> DEFINE v == first(doomed)
  <2>1. statuses' = {p \in statuses : p[1] # v} /\ installed' = installed /\ pending' = pending
    BY Zenon, <1>7 DEF destroy
  <2>2. w \in DOMAIN works /\ w # v /\ works'[w] = works[w]
    BY Zenon, <1>7, DestroyRows
  <2> HIDE DEF v
  <2>3. Has(w, s)
    BY Zenon, <1>1, <2>1, <2>2
  <2> QED
    BY <1>0, <2>1, <2>2, <2>3 DEF Has
<1>8. ASSUME UNCHANGED vars PROVE Has(w, s)'
  BY Zenon, <1>3, <1>8 DEF vars
<1> QED
  BY Zenon, <1>2, <1>4, <1>5, <1>6, <1>7, <1>8 DEF Next

-------------------------------------------------------------------------------
\* The theorems.

Inv == TypeInv /\ AloneInv /\ ValidInv /\ UniqueIds /\ SeesInv /\ Collected

\* The conjunction is an inductive invariant.
LEMMA Inductive == Spec => []Inv
<1>1. Init => Inv
  <2> SUFFICES ASSUME Init PROVE Inv
    OBVIOUS
  <2>1. /\ Known \in SUBSET Ids /\ Known # {} /\ 0 \in 0..MaxRuns /\ 0 \in 0..MaxDeaths
        /\ 0 \in 0..MaxDeletes
    BY WorksAssumption DEF WorksAssumption
  <2>2. /\ works \in Seq(WorkRec) /\ DOMAIN works = {1} /\ Live = {1}
        /\ works[1].ids = Known
    <3> DEFINE rec == [ids |-> Known, tracked |-> TRUE, collected |-> TRUE]
    <3>1. works = <<rec>>
      BY DEF Init
    <3>2. rec \in WorkRec /\ rec.ids = Known
      BY <2>1 DEF WorkRec
    <3> HIDE DEF rec
    <3>3. works \in Seq(WorkRec) /\ DOMAIN works = {1} /\ works[1] = rec
      BY <3>1, <3>2
    <3> QED
      BY <2>1, <3>2, <3>3 DEF Live
  <2>3. /\ relations = {} /\ pending = {} /\ doomed = {} /\ installed \in SUBSET Sources
        /\ obsolete \in SUBSET Sources
        /\ \E S \in SUBSET installed : installed \ obsolete \subseteq S /\ statuses = {1} \X S
    BY Zenon DEF Init
  <2>4. (\A j \in Jobs : job[j].pc = "idle" /\ job[j].sees = {}) /\ job \in [Jobs -> JobRec]
    BY NoJobType DEF Init, NoJob
  <2>5. TypeInv
    <3>1. TableInv
      BY <2>2, <2>3 DEF TableInv
    <3>2. CountInv
      BY Zenon, <2>1 DEF Init, CountInv
    <3>3. \A j \in Jobs : Refers(j)
      BY <2>4 DEF Refers, Linking
    <3> QED
      BY Zenon, <2>4, <3>1, <3>2, <3>3 DEF TypeInv, TypeOK, TableInv, CountInv, WorkRec
  <2>6. AloneInv /\ ValidInv
    BY <2>4 DEF AloneInv, ValidInv
  <2>7. UniqueIds
    BY <2>2 DEF UniqueIds
  <2>8. SeesInv /\ Collected
    <3>1. \A j \in Jobs : job[j].pc # "insert"
      BY <2>4
    <3>2. ASSUME NEW s \in installed PROVE Has(1, s)
      <4>1. PICK S \in SUBSET installed : installed \ obsolete \subseteq S /\ statuses = {1} \X S
        BY <2>3
      <4>2. CASE s \in S
        BY <4>1, <4>2 DEF Has
      <4>3. CASE s \notin S
        BY <4>1, <4>3 DEF Has
      <4> QED
        BY <4>2, <4>3
    <3> QED
      BY Zenon, <2>1, <2>2, <3>1, <3>2 DEF SeesInv, Collected, Has
  <2> QED
    BY <2>5, <2>6, <2>7, <2>8 DEF Inv
<1>2. Inv /\ [Next]_vars => Inv'
  BY Zenon, TypeStep, AloneStep, ValidStep, UniqueStep, SeesStep, CollectedStep
     DEF Inv
<1> QED
  BY <1>1, <1>2, PTL DEF Spec

\* Works, relations and retrieval statuses stay in their types (work.rb 75-144, schema.rb's
\* foreign keys): no relation and no retrieval status of a work that is gone.
THEOREM WorksTypeCorrect == Spec => []TypeOK
<1>1. Inv => TypeOK
  BY DEF Inv, TypeInv
<1> QED
  BY <1>1, Inductive, PTL

\* No two works share an identifier, however many jobs store works and whatever is
\* destroyed meanwhile, except a URL that two jobs stored at the same time (work.rb 51-54,
\* 75-118).
THEOREM IdsUnique == Spec => []UniqueIds
<1>1. Inv => UniqueIds
  BY DEF Inv
<1> QED
  BY <1>1, Inductive, PTL

\* A tracked work has a retrieval status for every installed source (work.rb 434-439,
\* source.rb 397-401) unless one was installed while a work was being created; of a source that
\* was retired when it was installed (statable.rb 41, 66) the works from before have none.
THEOREM AllCollected == Spec => []Collected
<1>1. Inv => Collected
  BY DEF Inv
<1> QED
  BY <1>1, Inductive, PTL

===============================================================================

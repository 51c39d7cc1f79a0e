---------------------------- MODULE MetricsProofs ----------------------------
(***************************************************************************)
(* The invariants of Metrics, for any length of months and any number of     *)
(* retrievals.                                                             *)
(***************************************************************************)
EXTENDS Metrics, FiniteSetTheorems, TLAPS

-------------------------------------------------------------------------------
\* The inductive invariant.

\* One job has the row, and until it writes the total that is the one it has loaded.
OneInv ==
    ~disturbed =>
        /\ \A i, k \in Jobs : job[i].pc # "idle" /\ job[k].pc # "idle" => i = k
        /\ \A j \in Jobs : job[j].pc \in {"fetch", "data"} => total = job[j].loaded

\* The records of a period come from different jobs, none of which is about to make another.
Of(kind, at) == {s \in records[kind] : s.at = at}

MakerInv ==
    \A kind \in Kind : \A at \in 0..MaxDay :
        \E g \in Injection(Of(kind, at), Jobs) :
            \A j \in Jobs : job[j].pc = "create" /\ job[j].kind = kind /\ job[j].item.at = at
                            => \A s \in Of(kind, at) : g[s] # j

-------------------------------------------------------------------------------

\* A month is not later than its days.
LEMMA MonthsGrow ==
    ASSUME NEW d \in Nat
    PROVE  d \div DaysPerMonth \in Nat /\ d \div DaysPerMonth <= d
<1> DEFINE D == DaysPerMonth
<1>1. D \in Nat \ {0}
  BY MetricsAssumption DEF MetricsAssumption
<1> QED
  BY <1>1

\* The period of today.
LEMMA PeriodType ==
    ASSUME TypeOK, NEW kind \in Kind
    PROVE  period(kind) \in 0..MaxDay
<1>1. day \in Nat /\ day <= MaxDay /\ day \div DaysPerMonth \in Nat /\ day \div DaysPerMonth <= day
  BY MonthsGrow, MetricsAssumption DEF TypeOK, MetricsAssumption
<1> QED
  BY <1>1, MetricsAssumption DEF period, MetricsAssumption

\* A job that has not begun.
LEMMA NoJobType == NoItem \in Record /\ NoJob \in JobRec
<1>1. 0 \in 0..MaxDay /\ 0 \in 0..MaxTotal /\ 0 \in 0..MaxRuns
  BY MetricsAssumption DEF MetricsAssumption
<1>2. NoItem \in Record
  BY <1>1 DEF NoItem, Record
<1> QED
  BY <1>1, <1>2 DEF NoJob, JobRec, Kind

\* A step of one job changes the record of that job only.
Others(j) == \A i \in Jobs : i # j => job'[i] = job[i]

\* The records after Goto, Idle and Advance.
LEMMA Fields ==
    ASSUME TypeOK, NEW j \in Jobs
    PROVE  /\ Idle(j) => /\ job' \in [Jobs -> JobRec] /\ Others(j) /\ job'[j].pc = "idle"
           /\ \A pc \in {"find", "create"} : Goto(j, pc) =>
                /\ job' \in [Jobs -> JobRec] /\ Others(j) /\ job'[j].pc = pc
                /\ job'[j].kind = job[j].kind /\ job'[j].item = job[j].item
                /\ job'[j].total = job[j].total /\ job'[j].saved = job[j].saved
           /\ Advance(j) =>
                /\ job' \in [Jobs -> JobRec] /\ Others(j) /\ job'[j].pc \in {"idle", "previous"}
                /\ job'[j].pc = "previous" => job'[j].total = job[j].total /\ job'[j].saved = job[j].saved
<1>0. job \in [Jobs -> JobRec] /\ job[j] \in JobRec
  BY DEF TypeOK
<1>1. ASSUME Idle(j) PROVE job' \in [Jobs -> JobRec] /\ Others(j) /\ job'[j].pc = "idle"
  <2>1. job' = [job EXCEPT ![j] = NoJob] /\ NoJob.pc = "idle"
    BY <1>1 DEF Idle, NoJob
  <2> QED
    BY <1>0, <2>1, NoJobType DEF Others
<1>2. ASSUME NEW pc \in {"find", "create"}, Goto(j, pc)
      PROVE  /\ job' \in [Jobs -> JobRec] /\ Others(j) /\ job'[j].pc = pc
             /\ job'[j].kind = job[j].kind /\ job'[j].item = job[j].item
             /\ job'[j].total = job[j].total /\ job'[j].saved = job[j].saved
  <2> DEFINE n == [job[j] EXCEPT !.pc = pc]
  <2>1. /\ n \in JobRec /\ n.pc = pc /\ n.kind = job[j].kind /\ n.item = job[j].item
        /\ n.total = job[j].total /\ n.saved = job[j].saved
    BY <1>0 DEF JobRec
  <2>2. job' = [job EXCEPT ![j] = n]
    BY <1>2 DEF Goto
  <2> HIDE DEF n
  <2> QED
    BY <1>0, <2>1, <2>2 DEF Others
<1>3. ASSUME Advance(j)
      PROVE  /\ job' \in [Jobs -> JobRec] /\ Others(j) /\ job'[j].pc \in {"idle", "previous"}
             /\ job'[j].pc = "previous" => job'[j].total = job[j].total /\ job'[j].saved = job[j].saved
  <2> DEFINE n == [job[j] EXCEPT !.pc = "previous", !.kind = "day", !.item = NoItem]
  <2>1. n \in JobRec /\ n.pc = "previous" /\ n.total = job[j].total /\ n.saved = job[j].saved
    BY Zenon, <1>0, NoJobType DEF JobRec, Kind
  <2>2. NoJob \in JobRec /\ NoJob.pc = "idle"
    BY NoJobType DEF NoJob
  <2>3. job' = [job EXCEPT ![j] = IF job[j].kind = "month" THEN n ELSE NoJob]
    BY <1>3 DEF Advance
  <2> HIDE DEF n
  <2> QED
    BY <1>0, <2>1, <2>2, <2>3 DEF Others
<1> QED
  BY <1>1, <1>2, <1>3

\* What get_events_current makes of the last record: an item of today's period.
Computed(j) ==
    /\ Others(j) /\ job'[j].pc = "find" /\ job'[j].kind = job[j].kind
    /\ job'[j].total = job[j].total /\ job'[j].saved = job[j].saved
    /\ \E previous \in get_events_previous(job[j].kind, job[j].total) :
         job'[j].item = [at |-> period(job[j].kind), total |-> job[j].total - previous,
                         run |-> job[j].run]

\* The number of earlier events is an integer.
LEMMA PreviousType ==
    ASSUME TypeOK, NEW kind \in Kind, NEW t \in 0..MaxTotal
    PROVE  get_events_previous(kind, t) \subseteq Int
<1>1. \A r \in records[kind] : r.total \in Int
  BY DEF TypeOK, Record
<1> QED
  BY <1>1 DEF get_events_previous, Last

\* The job after get_events_current.
LEMMA CurrentFields ==
    ASSUME TypeOK, NEW j \in Jobs, get_events_current(j)
    PROVE  job' \in [Jobs -> JobRec] /\ (Idle(j) \/ Computed(j))
<1>0. job \in [Jobs -> JobRec] /\ job[j] \in JobRec
  BY DEF TypeOK
<1>1. CASE Idle(j)
  BY <1>1, Fields
<1>2. CASE ~Idle(j)
  <2> DEFINE k == job[j].kind
             t == job[j].total
  <2>1. k \in Kind /\ t \in 0..MaxTotal /\ job[j].run \in 0..MaxRuns
    BY <1>0 DEF JobRec
  <2>2. PICK previous \in get_events_previous(k, t) :
          job' = [job EXCEPT ![j] = [@ EXCEPT !.pc = "find",
                     !.item = [at |-> period(k), total |-> t - previous, run |-> job[j].run]]]
    BY Zenon, <1>2 DEF get_events_current
  <2>3. previous \in Int
    BY <2>1, PreviousType
  <2>4. period(k) \in 0..MaxDay /\ t - previous \in Int
    BY <2>1, <2>3, PeriodType
  <2> DEFINE item == [at |-> period(k), total |-> t - previous, run |-> job[j].run]
  <2>5. item \in Record
    BY <2>1, <2>4 DEF Record
  <2> DEFINE n == [job[j] EXCEPT !.pc = "find", !.item = item]
  <2>6. job' = [job EXCEPT ![j] = n]
    BY <2>2
  <2> HIDE DEF item
  <2>7. /\ n \in JobRec /\ n.pc = "find" /\ n.kind = job[j].kind /\ n.item = item
        /\ n.total = job[j].total /\ n.saved = job[j].saved
    BY Zenon, <1>0, <2>5 DEF JobRec
  <2> HIDE DEF n
  <2>8. job' \in [Jobs -> JobRec] /\ Others(j) /\ job'[j] = n
    BY <1>0, <2>6, <2>7 DEF Others
  <2> QED
    BY <2>7, <2>8 DEF Computed, item
<1> QED
  BY <1>1, <1>2

\* The other steps of a job.
LEMMA LoadFields ==
    ASSUME TypeOK, NEW j \in Jobs, Load(j)
    PROVE  /\ job' \in [Jobs -> JobRec] /\ Others(j)
           /\ job'[j].pc = "fetch" /\ job'[j].loaded = total
<1>0. job \in [Jobs -> JobRec] /\ NoJob \in JobRec /\ total \in 0..MaxTotal
  BY NoJobType DEF TypeOK
<1>1. runs + 1 \in 0..MaxRuns
  BY MetricsAssumption DEF Load, TypeOK, MetricsAssumption
<1> DEFINE n == [NoJob EXCEPT !.pc = "fetch", !.loaded = total, !.run = runs + 1]
<1>2. n \in JobRec /\ n.pc = "fetch" /\ n.loaded = total
  BY Zenon, <1>0, <1>1 DEF JobRec
<1>3. job' = [job EXCEPT ![j] = n]
  BY DEF Load
<1> HIDE DEF n
<1> QED
  BY <1>0, <1>2, <1>3 DEF Others

\* The total that was reported.
LEMMA FetchFields ==
    ASSUME TypeOK, NEW j \in Jobs, Fetch(j)
    PROVE  /\ job' \in [Jobs -> JobRec] /\ Others(j)
           /\ job'[j].pc = "data" /\ job'[j].loaded = job[j].loaded
<1>0. job \in [Jobs -> JobRec] /\ job[j] \in JobRec
  BY DEF TypeOK
<1>1. PICK t \in 0..MaxTotal : job' = [job EXCEPT ![j] = [@ EXCEPT !.pc = "data", !.total = t]]
  BY Zenon DEF Fetch
<1> DEFINE n == [job[j] EXCEPT !.pc = "data", !.total = t]
<1>2. n \in JobRec /\ n.pc = "data" /\ n.loaded = job[j].loaded
  BY Zenon, <1>0 DEF JobRec
<1>3. job' = [job EXCEPT ![j] = n]
  BY <1>1
<1> HIDE DEF n
<1> QED
  BY <1>0, <1>2, <1>3 DEF Others

\* After update_data: the total is written if the row is valid.
LEMMA DataFields ==
    ASSUME TypeOK, NEW j \in Jobs, update_data(j)
    PROVE  /\ job' \in [Jobs -> JobRec] /\ Others(j)
           /\ job'[j].pc = "previous" /\ job'[j].total = job[j].total
           /\ total' = total \/ total' = job[j].total
           /\ job'[j].saved /\ total = job[j].loaded => total' = job[j].total
<1>0. job \in [Jobs -> JobRec] /\ job[j] \in JobRec /\ 0 \in 0..MaxTotal
  BY MetricsAssumption DEF TypeOK, MetricsAssumption
<1>1. PICK saved \in BOOLEAN :
        /\ total' = IF saved /\ job[j].total # job[j].loaded THEN job[j].total ELSE total
        /\ job' = [job EXCEPT ![j] = [@ EXCEPT !.pc = "previous", !.loaded = 0, !.saved = saved]]
  BY Zenon DEF update_data
<1> DEFINE n == [job[j] EXCEPT !.pc = "previous", !.loaded = 0, !.saved = saved]
<1>2. n \in JobRec /\ n.pc = "previous" /\ n.total = job[j].total /\ n.saved = saved
  BY Zenon, <1>0 DEF JobRec
<1>3. job' = [job EXCEPT ![j] = n]
  BY <1>1
<1> HIDE DEF n
<1>4. job' \in [Jobs -> JobRec] /\ Others(j) /\ job'[j] = n
  BY <1>0, <1>2, <1>3 DEF Others
<1>5. total' = total \/ total' = job[j].total
  BY <1>1, Zenon
<1>6. saved /\ total = job[j].loaded => total' = job[j].total
  BY <1>1, Zenon
<1> QED
  BY Zenon, <1>2, <1>4, <1>5, <1>6

-------------------------------------------------------------------------------
\* The invariants step by step.

\* The types are preserved.
LEMMA TypeStep ==
    ASSUME TypeOK, [Next]_vars
    PROVE  TypeOK'
<1>1. ASSUME NEW j \in Jobs, JobStep(j) PROVE TypeOK'
  <2>1. CASE Load(j)
    <3>1. runs' \in 0..MaxRuns
      BY <2>1, MetricsAssumption DEF Load, TypeOK, MetricsAssumption
    <3> QED
      BY Zenon, <2>1, <3>1, LoadFields DEF Load, TypeOK
  <2>2. CASE Fetch(j)
    BY Zenon, <2>2, FetchFields DEF Fetch, TypeOK
  <2>3. CASE Skip(j) \/ Raise(j)
    BY <2>3, Fields DEF Skip, Raise, TypeOK
  <2>4. CASE update_data(j)
    <3>1. job[j].total \in 0..MaxTotal
      BY DEF TypeOK, JobRec
    <3> QED
      BY Zenon, <2>4, <3>1, DataFields DEF update_data, TypeOK
  <2>5. CASE get_events_current(j)
    BY Zenon, <2>5, CurrentFields DEF get_events_current, TypeOK
  <2>6. CASE first(j)
    BY <2>6, Fields DEF first, TypeOK
  <2>7. CASE or_create(j)
    <3>1. job[j].item \in Record /\ job[j].kind \in Kind
      BY DEF TypeOK, JobRec
    <3>2. records' \in [Kind -> SUBSET Record]
      BY <2>7, <3>1 DEF or_create, TypeOK
    <3> QED
      BY <2>7, <3>2, Fields DEF or_create, TypeOK
  <2> QED
    BY <1>1, <2>1, <2>2, <2>3, <2>4, <2>5, <2>6, <2>7 DEF JobStep
<1>2. CASE DayPasses
  BY <1>2, MetricsAssumption DEF DayPasses, TypeOK, MetricsAssumption
<1>3. CASE UNCHANGED vars
  BY <1>3 DEF vars, TypeOK
<1> QED
  BY <1>1, <1>2, <1>3 DEF Next

\* OneInv and TotalIsReported are preserved.
LEMMA OneStep ==
    ASSUME TypeOK, OneInv, TotalIsReported, [Next]_vars
    PROVE  OneInv' /\ TotalIsReported'
<1>1. ASSUME NEW j \in Jobs, JobStep(j), ~disturbed' PROVE OneInv' /\ TotalIsReported'
  <2>0. disturbed \in BOOLEAN
    BY DEF TypeOK
  <2>1. CASE Load(j)
    <3>1. ~disturbed /\ \A i \in Jobs : job[i].pc = "idle"
      BY Zenon, <1>1, <2>0, <2>1 DEF Load
    <3>2. Others(j) /\ job'[j].pc = "fetch" /\ job'[j].loaded = total /\ total' = total
      BY Zenon, <2>1, LoadFields DEF Load
    <3> QED
      BY <3>1, <3>2 DEF OneInv, TotalIsReported, Others
  <2>3. ASSUME Others(j), job[j].pc # "idle", ~disturbed,
               job'[j].pc \in {"fetch", "data"} => total' = job'[j].loaded,
               job'[j].pc \in {"previous", "find", "create"} /\ job'[j].saved => total' = job'[j].total
        PROVE  OneInv' /\ TotalIsReported'
    <3>1. \A i \in Jobs : i # j => job'[i].pc = "idle"
      BY <2>3 DEF OneInv, Others
    <3> QED
      BY <2>3, <3>1 DEF OneInv, TotalIsReported
  <2>4. CASE Fetch(j)
    <3>1. job[j].pc = "fetch" /\ total' = total /\ ~disturbed
      BY <1>1, <2>4 DEF Fetch
    <3>2. total = job[j].loaded
      BY <3>1 DEF OneInv
    <3>3. Others(j) /\ job'[j].pc = "data" /\ job'[j].loaded = job[j].loaded
      BY <2>4, FetchFields
    <3> QED
      BY <2>3, <3>1, <3>2, <3>3
  <2>5. ASSUME Idle(j), job[j].pc # "idle", ~disturbed PROVE OneInv' /\ TotalIsReported'
    BY <2>3, <2>5, Fields
  <2>6. CASE Skip(j) \/ Raise(j)
    BY <1>1, <2>5, <2>6 DEF Skip, Raise
  <2>7. CASE update_data(j)
    <3>1. job[j].pc = "data" /\ ~disturbed
      BY <1>1, <2>7 DEF update_data
    <3>2. total = job[j].loaded
      BY <3>1 DEF OneInv
    <3>3. job'[j].saved => total' = job[j].total
      BY <2>7, <3>2, DataFields
    <3>4. Others(j) /\ job'[j].pc = "previous" /\ job'[j].total = job[j].total
      BY <2>7, DataFields
    <3> QED
      BY <2>3, <3>1, <3>3, <3>4
  <2>8. CASE get_events_current(j)
    <3>1. job[j].pc = "previous" /\ total' = total /\ ~disturbed
      BY Zenon, <1>1, <2>8 DEF get_events_current
    <3>2. job[j].saved => total = job[j].total
      BY <3>1 DEF TotalIsReported
    <3>3. CASE Computed(j)
      <4>1. /\ Others(j) /\ job'[j].pc = "find"
            /\ job'[j].total = job[j].total /\ job'[j].saved = job[j].saved
        BY <3>3 DEF Computed
      <4> QED
        BY <2>3, <3>1, <3>2, <4>1
    <3> QED
      BY <2>5, <2>8, <3>1, <3>3, CurrentFields
  <2>9. CASE first(j) \/ or_create(j)
    <3>1. job[j].pc \in {"find", "create"} /\ total' = total /\ ~disturbed
      BY <1>1, <2>9 DEF first, or_create
    <3>2. job[j].saved => total = job[j].total
      BY <3>1 DEF TotalIsReported
    <3>3. /\ Others(j) /\ job'[j].pc \in {"idle", "previous", "create"}
          /\ job'[j].pc # "idle" => job'[j].total = job[j].total /\ job'[j].saved = job[j].saved
      <4>1. Advance(j) \/ Goto(j, "create")
        BY <2>9 DEF first, or_create
      <4> QED
        BY <4>1, Fields
    <3> QED
      BY <2>3, <3>1, <3>2, <3>3
  <2> QED
    BY <1>1, <2>1, <2>4, <2>6, <2>7, <2>8, <2>9 DEF JobStep
<1>2. disturbed' => OneInv' /\ TotalIsReported'
  BY DEF OneInv, TotalIsReported
<1>3. CASE DayPasses \/ UNCHANGED vars
  BY <1>3 DEF DayPasses, vars, OneInv, TotalIsReported
<1> QED
  BY <1>1, <1>2, <1>3 DEF Next

\* A job after a step is at find or create only with an item of today, or with the item
\* that it had.
LEMMA ItemKept ==
    ASSUME TypeOK, NEW j \in Jobs, JobStep(j)
    PROVE  /\ Others(j) /\ day' = day
           /\ ~or_create(j) => records' = records
           /\ \/ job'[j].pc \notin {"find", "create"}
              \/ get_events_current(j) /\ Computed(j)
              \/ /\ first(j) /\ job[j].pc = "find" /\ job'[j].pc = "create"
                 /\ job'[j].kind = job[j].kind /\ job'[j].item = job[j].item
                 /\ \A r \in records[job[j].kind] : r.at # job[j].item.at
<1>1. CASE Load(j)
  BY Zenon, <1>1, LoadFields DEF Load
<1>2. CASE Fetch(j)
  BY Zenon, <1>2, FetchFields DEF Fetch
<1>3. CASE Skip(j) \/ Raise(j)
  BY <1>3, Fields DEF Skip, Raise
<1>4. CASE update_data(j)
  BY Zenon, <1>4, DataFields DEF update_data
<1>5. CASE get_events_current(j)
  <2>1. CASE Idle(j)
    BY Zenon, <1>5, <2>1, Fields DEF get_events_current
  <2>2. CASE Computed(j)
    BY Zenon, <1>5, <2>2 DEF get_events_current, Computed
  <2> QED
    BY <1>5, <2>1, <2>2, CurrentFields
<1>6. CASE first(j)
  <2>1. CASE Advance(j)
    BY <1>6, <2>1, Fields DEF first
  <2>2. CASE ~Advance(j)
    <3>1. Goto(j, "create") /\ \A r \in records[job[j].kind] : r.at # job[j].item.at
      BY <1>6, <2>2 DEF first
    <3> QED
      BY <1>6, <3>1, Fields DEF first
  <2> QED
    BY <2>1, <2>2
<1>7. CASE or_create(j)
  BY <1>7, Fields DEF or_create
<1> QED
  BY <1>1, <1>2, <1>3, <1>4, <1>5, <1>6, <1>7 DEF JobStep

Extensible(S, T, g, x, y) ==
    \E h \in Injection(S \cup {x}, T) : \A s \in S \cup {x} : h[s] = y \/ (s \in S /\ h[s] = g[s])

\* An element more, for which there is a value that is not used yet.
LEMMA Extended ==
    ASSUME NEW S, NEW T, NEW g \in Injection(S, T), NEW x, NEW y \in T, \A s \in S : g[s] # y
    PROVE  Extensible(S, T, g, x, y)
<1>1. g \in [S -> T] /\ \A a, b \in S : g[a] = g[b] => a = b
  BY DEF Injection, IsInjective
<1>2. CASE x \in S
  <2>1. S \cup {x} = S
    BY <1>2
  <2> QED
    BY <2>1 DEF Extensible
<1>3. CASE x \notin S
  <2> DEFINE h == [s \in S \cup {x} |-> IF s = x THEN y ELSE g[s]]
  <2>1. h \in [S \cup {x} -> T]
    BY <1>1
  <2>2. ASSUME NEW a \in S \cup {x}, NEW b \in S \cup {x}, h[a] = h[b] PROVE a = b
    BY <1>1, <1>3, <2>2
  <2>3. h \in Injection(S \cup {x}, T)
    <3>1. DOMAIN h = S \cup {x}
      OBVIOUS
    <3> HIDE DEF h
    <3> QED
      BY <2>1, <2>2, <3>1 DEF Injection, IsInjective
  <2>4. \A s \in S \cup {x} : h[s] = y \/ (s \in S /\ h[s] = g[s])
    OBVIOUS
  <2> HIDE DEF h
  <2> QED
    BY <2>3, <2>4 DEF Extensible
<1> QED
  BY <1>2, <1>3

\* MakerInv is preserved.
LEMMA MakerStep ==
    ASSUME TypeOK, MakerInv, [Next]_vars
    PROVE  MakerInv'
<1>1. ASSUME NEW j \in Jobs, JobStep(j) PROVE MakerInv'
  <2> SUFFICES ASSUME NEW kind \in Kind, NEW at \in 0..MaxDay
               PROVE  \E g \in Injection(Of(kind, at)', Jobs) :
                        \A i \in Jobs : job'[i].pc = "create" /\ job'[i].kind = kind /\ job'[i].item.at = at
                                        => \A s \in Of(kind, at)' : g[s] # i
    BY Zenon DEF MakerInv
  <2>1. PICK g \in Injection(Of(kind, at), Jobs) :
          \A i \in Jobs : job[i].pc = "create" /\ job[i].kind = kind /\ job[i].item.at = at
                          => \A s \in Of(kind, at) : g[s] # i
    BY DEF MakerInv
  <2>2. Others(j) /\ (~or_create(j) => records' = records)
    BY <1>1, ItemKept
  <2>3. CASE or_create(j) /\ job[j].kind = kind /\ job[j].item.at = at
    <3> DEFINE item == job[j].item
    <3>1. job[j].pc = "create" /\ records' = [records EXCEPT ![kind] = @ \cup {item}]
      BY <2>3 DEF or_create
    <3>2. Of(kind, at)' = Of(kind, at) \cup {item}
      BY <2>3, <3>1 DEF Of, TypeOK
    <3>3. PICK h \in Injection(Of(kind, at) \cup {item}, Jobs) :
            \A s \in Of(kind, at) \cup {item} : h[s] = j \/ (s \in Of(kind, at) /\ h[s] = g[s])
      <4>1. \A s \in Of(kind, at) : g[s] # j
        BY <2>1, <2>3, <3>1
      <4>2. Extensible(Of(kind, at), Jobs, g, item, j)
        BY <2>1, <4>1, Extended
      <4> QED
        BY Zenon, <4>2 DEF Extensible
    <3>4. job'[j].pc \in {"idle", "previous"}
      BY <2>3, Fields DEF or_create
    <3>5. ASSUME NEW i \in Jobs, job'[i].pc = "create", job'[i].kind = kind, job'[i].item.at = at,
                 NEW s \in Of(kind, at) \cup {item}
          PROVE  h[s] # i
      <4>1. i # j /\ job'[i] = job[i]
        BY <2>2, <3>4, <3>5 DEF Others
      <4>2. \A u \in Of(kind, at) : g[u] # i
        BY <2>1, <3>5, <4>1
      <4> QED
        BY <3>3, <4>1, <4>2
    <3> QED
      BY <3>2, <3>5
  <2>4. CASE ~(or_create(j) /\ job[j].kind = kind /\ job[j].item.at = at)
    <3>1. Of(kind, at)' = Of(kind, at)
      <4>1. CASE or_create(j)
        <5>1. records' = [records EXCEPT ![job[j].kind] = @ \cup {job[j].item}]
          BY <4>1 DEF or_create
        <5> QED
          BY <2>4, <4>1, <5>1 DEF Of, TypeOK
      <4>2. CASE ~or_create(j)
        BY <2>2, <4>2 DEF Of
      <4> QED
        BY <4>1, <4>2
    <3>2. ASSUME NEW i \in Jobs, job'[i].pc = "create", job'[i].kind = kind, job'[i].item.at = at,
                 NEW s \in Of(kind, at)
          PROVE  g[s] # i
      <4>1. CASE i # j
        BY <2>1, <2>2, <3>2, <4>1 DEF Others
      <4>2. CASE i = j
        <5>1. /\ job'[j].kind = job[j].kind /\ job'[j].item = job[j].item
              /\ \A r \in records[job[j].kind] : r.at # job[j].item.at
          BY <1>1, <3>2, <4>2, ItemKept DEF Computed
        <5> QED
          BY <3>2, <4>2, <5>1 DEF Of
      <4> QED
        BY <4>1, <4>2
    <3> QED
      BY <3>1, <3>2
  <2> QED
    BY <2>3, <2>4
<1>2. CASE DayPasses \/ UNCHANGED vars
  <2>1. records' = records /\ job' = job
    BY <1>2 DEF DayPasses, vars
  <2> QED
    BY <2>1 DEF MakerInv, Of
<1> QED
  BY <1>1, <1>2 DEF Next

\* As many records as there are jobs.
LEMMA MakersCount ==
    ASSUME TypeOK, MakerInv
    PROVE  RecordsPerPeriod
<1> SUFFICES ASSUME NEW kind \in Kind, NEW r \in records[kind]
             PROVE  Cardinality({s \in records[kind] : s.at = r.at}) <= Cardinality(Jobs)
  BY DEF RecordsPerPeriod
<1>1. r.at \in 0..MaxDay
  BY DEF TypeOK, Record
<1>2. PICK g \in Injection(Of(kind, r.at), Jobs) : TRUE
  BY <1>1 DEF MakerInv
<1>3. Cardinality(Of(kind, r.at)) <= Cardinality(Jobs)
  BY <1>2, FS_Injection, MetricsAssumption DEF MetricsAssumption
<1> QED
  BY <1>3 DEF Of

-------------------------------------------------------------------------------
\* The theorems.

Inv == TypeOK /\ OneInv /\ MakerInv /\ TotalIsReported

\* The conjunction is an inductive invariant.
LEMMA Inductive == Spec => []Inv
<1>1. Init => Inv
  <2> SUFFICES ASSUME Init PROVE Inv
    OBVIOUS
  <2>1. TypeOK
    <3>1. 0 \in 0..MaxDay /\ 0 \in 0..MaxTotal /\ 0 \in 0..MaxRuns
      BY MetricsAssumption DEF MetricsAssumption
    <3>2. job \in [Jobs -> JobRec]
      BY NoJobType DEF Init
    <3>3. records \in [Kind -> SUBSET Record]
      BY DEF Init
    <3> QED
      BY Zenon, <3>1, <3>2, <3>3 DEF Init, TypeOK
  <2>2. (\A j \in Jobs : job[j].pc = "idle") /\ \A kind \in Kind : records[kind] = {}
    BY DEF Init, NoJob
  <2>3. MakerInv
    <3> SUFFICES ASSUME NEW kind \in Kind, NEW at \in 0..MaxDay
                 PROVE  \E g \in Injection({}, Jobs) : TRUE
      BY <2>2 DEF MakerInv, Of
    <3>1. [s \in {} |-> s] \in Injection({}, Jobs)
      BY DEF Injection, IsInjective
    <3> QED
      BY <3>1
  <2> QED
    BY <2>1, <2>2, <2>3 DEF Inv, OneInv, TotalIsReported
<1>2. Inv /\ [Next]_vars => Inv'
  BY TypeStep, OneStep, MakerStep DEF Inv
<1> QED
  BY <1>1, <1>2, PTL DEF Spec

\* Totals, records and jobs stay in their types (retrieval_status.rb 46-167).
THEOREM TypeCorrect == Spec => []TypeOK
<1>1. Inv => TypeOK
  BY DEF Inv
<1> QED
  BY <1>1, Inductive, PTL

\* While a job computes the records, the row has the total that it got
\* (retrieval_status.rb 84-96) if it was valid, and if no other job ever had the row at the
\* same time.
THEOREM TotalWritten == Spec => []TotalIsReported
<1>1. Inv => TotalIsReported
  BY DEF Inv
<1> QED
  BY <1>1, Inductive, PTL

\* However the jobs interleave, a period never has more records than there are workers
\* (retrieval_status.rb 223-303): a record is made by a job that found none of its period,
\* and by then each of the others may have found none as well.
THEOREM RecordsBounded == Spec => []RecordsPerPeriod
<1>1. Inv => RecordsPerPeriod
  BY MakersCount DEF Inv
<1> QED
  BY <1>1, Inductive, PTL

===============================================================================

---------------------------- MODULE FiltersProofs ----------------------------
(***************************************************************************)
(* The properties of Filters, for any number of tasks, filters and responses *)
(* and any number of days, failures and interventions.                      *)
(***************************************************************************)
EXTENDS Filters, FiniteSetTheorems, WellFoundedInduction, TLAPS

-------------------------------------------------------------------------------
\* The inductive invariant.

\* A task that raises alerts has something to raise them for.
TypeInv == TypeOK /\ \A p \in Tasks : run[p].pc \in {"find", "save"} => run[p].found # {}

\* The task p will still raise an alert of the filter f for the response i.
Pending(p, i, f) ==
    \/ run[p].pc = "filter" /\ \E k \in run[p].next..Len(Names) : Names[k] = f
    \/ /\ run[p].pc \in {"find", "save"}
       /\ \/ \E k \in (run[p].next + 1)..Len(Names) : Names[k] = f
          \/ f = current(p) /\ [source |-> responses[i].source, id |-> i] \in run[p].found

\* Every filter has raised its alert for a response that the task p resolves, or will.
Covered(p, i) ==
    run[p].pc \in Filtering /\ i \in filter(run[p].id) /\ ~responses[i].slipped =>
        \A f \in responses[i].hits \cap run[p].names : f \in responses[i].raised \/ Pending(p, i, f)

ExaminedInv ==
    /\ \A i \in Ids : NotUpdated \notin responses[i].hits
    /\ \A p \in Tasks : run[p].pc = "load" => run[p].names = {} /\ run[p].next = 1
    /\ \A p \in Tasks : \A i \in Ids : Covered(p, i)

\* What was there on the day before cron:daily began is resolved by it, or was before.
LostInv ==
    /\ \A i \in Ids : responses[i].state = "inserted" =>
         responses[i].at = day /\ responses[i].unresolved
    /\ \A i \in Ids : responses[i].state = "stored" /\ ~responses[i].unresolved
                        => responses[i].done # "no"
    /\ \A p \in Tasks : run[p].pc \in {"delete", "alerts"} => p \in Cron
    /\ \A p \in Cron : run[p].pc # "idle" => run[p].day <= day /\ day <= run[p].day + 1
    /\ \A p \in Cron : \A i \in Ids :
         run[p].pc # "idle" /\ responses[i].state = "stored" /\ responses[i].at < run[p].day
             /\ responses[i].done = "no"
           => run[p].pc \in Filtering /\ i <= run[p].id

\* A task has no alert yet where it is about to create one, and without overlap nobody has.
AlertInv ==
    /\ \A a, b \in alerts : a.name = b.name /\ a.source = b.source /\ (a.task = b.task \/ ~overlap)
                              => a = b
    /\ \A p \in Tasks : run[p].pc = "save" /\ ~run[p].alert =>
         \A a \in Open(current(p), NextSubject(p).source) : a.task # p /\ overlap
    /\ ~overlap => \A p, q \in Tasks : run[p].pc # "idle" /\ run[q].pc # "idle" => p = q

-------------------------------------------------------------------------------
\* Minima and maxima.

\* A set of numbers that is not empty has a least one.
LEMMA LeastNumber ==
    ASSUME NEW S \in SUBSET Nat, S # {}
    PROVE  \E m \in S : \A n \in S : m <= n
<1>1. PICK m \in S : \A n \in S : ~(<<n, m>> \in OpToRel(<, Nat))
  BY Zenon, NatLessThanWellFounded, WFMin
<1>2. \A n \in S : ~(n < m)
  BY Zenon, <1>1 DEF OpToRel
<1> QED
  BY <1>2

\* The maximum of the ids of unresolved responses is there if there is one.
LEMMA MaximumId ==
    ASSUME TypeOK, Unresolved # {}
    PROVE  LET m == CHOOSE i \in Unresolved : filter(i) = Unresolved
           IN  m \in Ids /\ filter(m) = Unresolved
<1> DEFINE bounds == {n \in Nat : \A i \in Unresolved : i <= n}
<1>1. Unresolved \subseteq Nat /\ Unresolved \subseteq Ids /\ Len(responses) \in bounds
  BY DEF TypeOK, Unresolved, Ids
<1>2. PICK m \in bounds : \A n \in bounds : m <= n
  BY Zenon, <1>1, LeastNumber
<1>3. m \in Unresolved
  <2> SUFFICES ASSUME m \notin Unresolved PROVE FALSE
    OBVIOUS
  <2>1. \A i \in Unresolved : i <= m /\ i # m /\ i \in Nat
    BY <1>1
  <2>2. m - 1 \in Nat
    BY <2>1
  <2>3. \A i \in Unresolved : i <= m - 1
    BY <2>1
  <2>4. m - 1 \in bounds
    BY <2>2, <2>3
  <2> QED
    BY <1>2, <2>2, <2>4
<1>4. filter(m) = Unresolved
  BY <1>2 DEF filter
<1> QED
  BY Zenon, <1>1, <1>3, <1>4

\* The next subject of a task is one of what its filter has found.
LEMMA NextSubjectFound ==
    ASSUME TypeOK, NEW p \in Tasks, run[p].found # {}
    PROVE  NextSubject(p) \in run[p].found /\ NextSubject(p) \in Subject
<1>1. run[p].found \in SUBSET Subject
  BY DEF TypeOK, RunRec
<1> DEFINE S == {x.id : x \in run[p].found}
<1>2. S \in SUBSET Nat /\ S # {}
  BY <1>1, FiltersAssumption DEF Subject, FiltersAssumption
<1>3. PICK m \in S : \A n \in S : m <= n
  BY Zenon, <1>2, LeastNumber
<1>4. \E x \in run[p].found : \A y \in run[p].found : x.id <= y.id
  BY <1>3
<1> QED
  BY <1>1, <1>4 DEF NextSubject

\* A table whose rows are changed one by one has the same rows.
LEMMA RowsChanged ==
    ASSUME TypeOK, NEW t, t \in [Ids -> Response]
    PROVE  t \in Seq(Response) /\ Len(t) = Len(responses) /\ DOMAIN t = Ids
<1>1. responses \in Seq(Response) /\ Ids = 1..Len(responses) /\ Len(responses) \in Nat
  BY DEF TypeOK, Ids
<1>2. t \in [1..Len(responses) -> Response]
  BY <1>1
<1> QED
  BY <1>1, <1>2

-------------------------------------------------------------------------------
\* Types.

\* A task that does nothing, or goes on with cron:daily, is well typed.
LEMMA RunTypes ==
    ASSUME TypeOK
    PROVE  /\ NoRun \in RunRec
           /\ \A d \in 0..MaxDay, pc \in {"idle", "load", "delete"}, id \in 0..MaxResponses :
                [NoRun EXCEPT !.pc = pc, !.id = id, !.day = d] \in RunRec
           /\ \A p \in Tasks : AfterRun(p) \in RunRec
<1>1. 1 \in 1..Len(Names) /\ 0 \in 0..MaxResponses /\ 0 \in 0..MaxDay
  BY FiltersAssumption DEF FiltersAssumption
<1>2. NoRun \in RunRec
  BY <1>1 DEF NoRun, RunRec, Filtering
<1>3. ASSUME NEW d \in 0..MaxDay, NEW pc \in {"idle", "load", "delete"}, NEW id \in 0..MaxResponses
      PROVE  [NoRun EXCEPT !.pc = pc, !.id = id, !.day = d] \in RunRec
  BY Zenon, <1>1 DEF NoRun, RunRec, Filtering
<1>4. ASSUME NEW p \in Tasks PROVE AfterRun(p) \in RunRec
  <2>1. run[p].day \in 0..MaxDay
    BY DEF TypeOK, RunRec
  <2> QED
    BY Zenon, <1>1, <2>1 DEF AfterRun, NoRun, RunRec, Filtering
<1> QED
  BY Zenon, <1>2, <1>3, <1>4

\* Nothing happens to other tasks, and the types are kept.
Moved(p) == run' \in [Tasks -> RunRec] /\ \A q \in Tasks : q # p => run'[q] = run[q]

\* What a step of a task has to do to keep the types.
LEMMA RunChanged ==
    ASSUME TypeInv, NEW p \in Tasks, Moved(p),
           responses' \in [Ids -> Response], alerts' \subseteq Alert,
           active' = active, day' = day, changes' = changes, fails' \in 0..MaxFails,
           overlap' \in BOOLEAN, run'[p].pc \in Filtering => run'[p].id \in Ids,
           run'[p].pc \in {"find", "save"} => run'[p].found # {}
    PROVE  TypeInv'
<1>1. TypeOK
  BY DEF TypeInv
<1>2. responses' \in Seq(Response) /\ Len(responses') = Len(responses) /\ Ids' = Ids
  BY <1>1, RowsChanged DEF Ids
<1>3. run' \in [Tasks -> RunRec]
  BY DEF Moved
<1>4. \A q \in Tasks : run'[q].pc \in Filtering => run'[q].id \in Ids'
  BY <1>1, <1>2 DEF TypeOK, Moved
<1>5. \A q \in Tasks : run'[q].pc \in {"find", "save"} => run'[q].found # {}
  BY DEF TypeInv, Moved
<1>6. /\ active' \subseteq Filter /\ day' \in 0..MaxDay /\ changes' \in 0..MaxChanges
      /\ Len(responses') <= MaxResponses
  BY <1>1, <1>2 DEF TypeOK
<1> QED
  BY <1>2, <1>3, <1>4, <1>5, <1>6 DEF TypeOK, TypeInv

\* A step that leaves the tasks alone keeps the types if it does so for the tables.
LEMMA TablesChanged ==
    ASSUME TypeInv, run' = run, responses' \in Seq(Response), Len(responses') <= MaxResponses,
           Ids \subseteq Ids', alerts' \subseteq Alert, active' \subseteq Filter,
           day' \in 0..MaxDay, changes' \in 0..MaxChanges, fails' = fails, overlap' = overlap
    PROVE  TypeInv'
BY DEF TypeInv, TypeOK

-------------------------------------------------------------------------------
\* What the steps of a task do to its record.

\* The task goes on with the same responses, on the same day.
Continues(p) == run'[p].id = run[p].id /\ run'[p].day = run[p].day

\* A record that replaces the one of a task.
LEMMA Replaced ==
    ASSUME TypeOK, NEW p \in Tasks, NEW rec \in RunRec, run' = [run EXCEPT ![p] = rec]
    PROVE  Moved(p) /\ run'[p] = rec
BY DEF TypeOK, Moved

\* Load takes the active filters and goes to the first.
LEMMA LoadFields ==
    ASSUME TypeOK, NEW p \in Tasks, Load(p)
    PROVE  /\ Moved(p) /\ Continues(p)
           /\ run'[p].pc = "filter" /\ run'[p].names = active /\ run'[p].next = run[p].next
<1> DEFINE r == run[p]
           rec == [r EXCEPT !.names = active, !.pc = "filter"]
<1>1. r \in RunRec /\ active \subseteq Filter
  BY DEF TypeOK
<1>2. run' = [run EXCEPT ![p] = rec]
  BY DEF Load
<1> HIDE DEF r
<1>3. /\ rec \in RunRec /\ rec.id = r.id /\ rec.day = r.day
      /\ rec.pc = "filter" /\ rec.names = active /\ rec.next = r.next
  BY Zenon, <1>1 DEF RunRec, Filtering
<1> HIDE DEF rec
<1>4. Moved(p) /\ run'[p] = rec
  BY Zenon, <1>2, <1>3, Replaced
<1> QED
  BY <1>3, <1>4 DEF r, Continues

\* Advance goes to the next filter, or resolves the responses after the last.
LEMMA AdvanceFields ==
    ASSUME TypeOK, NEW p \in Tasks, Advance(p)
    PROVE  /\ Moved(p) /\ Continues(p) /\ run'[p].names = run[p].names
           /\ \/ run[p].next = Len(Names) /\ run'[p].pc = "resolve"
              \/ /\ run[p].next < Len(Names) /\ run'[p].pc = "filter"
                 /\ run'[p].next = run[p].next + 1
<1> DEFINE r == run[p]
           n == IF r.next = Len(Names) THEN 1 ELSE r.next + 1
           pc == IF r.next = Len(Names) THEN "resolve" ELSE "filter"
           rec == [r EXCEPT !.found = {}, !.alert = FALSE,
                       !.next = IF run[p].next = Len(Names) THEN 1 ELSE run[p].next + 1,
                       !.pc = IF run[p].next = Len(Names) THEN "resolve" ELSE "filter"]
<1>1. r \in RunRec /\ r.next \in 1..Len(Names)
  BY DEF TypeOK, RunRec
<1>2. Len(Names) \in Nat /\ 1 \in 1..Len(Names)
  BY FiltersAssumption DEF FiltersAssumption
<1>3. run' = [run EXCEPT ![p] = rec]
  BY DEF Advance
<1>4. n \in 1..Len(Names) /\ pc \in {"filter", "resolve"}
  BY <1>1, <1>2
<1>5. rec = [r EXCEPT !.found = {}, !.alert = FALSE, !.next = n, !.pc = pc]
  BY <1>1 DEF RunRec
<1>6. \/ r.next = Len(Names) /\ pc = "resolve"
      \/ r.next < Len(Names) /\ pc = "filter" /\ n = r.next + 1
  BY <1>1, <1>2
<1> HIDE DEF rec, n, pc, r
<1>7. /\ rec \in RunRec /\ rec.id = r.id /\ rec.day = r.day /\ rec.names = r.names
      /\ rec.next = n /\ rec.pc = pc
  BY Zenon, <1>1, <1>4, <1>5 DEF RunRec, Filtering
<1>8. Moved(p) /\ run'[p] = rec
  BY Zenon, <1>3, <1>7, Replaced
<1> QED
  BY <1>6, <1>7, <1>8 DEF r, Continues

\* run_filter has nothing to raise an alert for and advances, or goes on with what it found.
LEMMA FilterFields ==
    ASSUME TypeOK, NEW p \in Tasks, run_filter(p)
    PROVE  \/ Found(p) = {} /\ Advance(p)
           \/ /\ Found(p) # {} /\ Moved(p) /\ Continues(p) /\ run'[p].pc = "find"
              /\ run'[p].names = run[p].names /\ run'[p].next = run[p].next
              /\ run'[p].found = Found(p)
<1> DEFINE r == run[p]
           s == Found(p)
           rec == [r EXCEPT !.found = s, !.pc = "find"]
<1>0. CASE s = {}
  BY <1>0 DEF run_filter
<1>1. CASE s # {}
  <2>1. r \in RunRec
    BY DEF TypeOK
  <2>2. s \subseteq Subject
    <3>1. \A i \in Ids : i \in 0..MaxResponses /\ responses[i].source \in Sources
      <4>1. Ids \subseteq 0..MaxResponses /\ \A i \in Ids : responses[i] \in Response
        BY FiltersAssumption DEF TypeOK, Ids, FiltersAssumption
      <4> QED
        BY <4>1 DEF Response
    <3>2. 0 \in 0..MaxResponses
      BY FiltersAssumption DEF FiltersAssumption
    <3>3. filter(r.id) \subseteq Ids
      BY DEF filter, Unresolved
    <3>4. ASSUME NEW x \in s PROVE x \in Subject
      <4>1. \/ \E z \in Sources : x = [source |-> z, id |-> 0]
            \/ \E i \in filter(r.id) : x = [source |-> responses[i].source, id |-> i]
        BY Zenon, <3>4 DEF Found
      <4> QED
        BY <3>1, <3>2, <3>3, <4>1 DEF Subject
    <3> QED
      BY <3>4
  <2>3. run' = [run EXCEPT ![p] = rec]
    BY <1>1 DEF run_filter
  <2> HIDE DEF r, s
  <2>4. /\ rec \in RunRec /\ rec.id = r.id /\ rec.day = r.day /\ rec.names = r.names
        /\ rec.next = r.next /\ rec.pc = "find" /\ rec.found = s
    BY Zenon, <2>1, <2>2 DEF RunRec, Filtering
  <2> HIDE DEF rec
  <2>5. Moved(p) /\ run'[p] = rec
    BY Zenon, <2>3, <2>4, Replaced
  <2> QED
    BY <1>1, <2>4, <2>5 DEF r, s, Continues
<1> QED
  BY <1>0, <1>1

\* first_or_initialize remembers whether there is an alert.
LEMMA FindFields ==
    ASSUME TypeOK, NEW p \in Tasks, first_or_initialize(p)
    PROVE  /\ Moved(p) /\ Continues(p) /\ run'[p].pc = "save"
           /\ run'[p].names = run[p].names /\ run'[p].next = run[p].next
           /\ run'[p].found = run[p].found
           /\ run'[p].alert = (Open(current(p), NextSubject(p).source) # {})
<1> DEFINE r == run[p]
           b == Open(current(p), NextSubject(p).source) # {}
           rec == [r EXCEPT !.pc = "save", !.alert = b]
<1>1. r \in RunRec /\ b \in BOOLEAN
  BY DEF TypeOK
<1>2. run' = [run EXCEPT ![p] = rec]
  BY DEF first_or_initialize
<1> HIDE DEF r, b
<1>3. /\ rec \in RunRec /\ rec.id = r.id /\ rec.day = r.day /\ rec.names = r.names
      /\ rec.next = r.next /\ rec.pc = "save" /\ rec.found = r.found /\ rec.alert = b
  BY Zenon, <1>1 DEF RunRec, Filtering
<1> HIDE DEF rec
<1>4. Moved(p) /\ run'[p] = rec
  BY Zenon, <1>2, <1>3, Replaced
<1> QED
  BY <1>3, <1>4 DEF r, b, Continues

\* update_attributes advances after the last subject, or goes on with the others.
LEMMA SaveFields ==
    ASSUME TypeInv, NEW p \in Tasks, update_attributes(p)
    PROVE  \/ run[p].found = {NextSubject(p)} /\ Advance(p)
           \/ /\ run[p].found \ {NextSubject(p)} # {} /\ Moved(p) /\ Continues(p)
              /\ run'[p].pc = "find" /\ run'[p].names = run[p].names
              /\ run'[p].next = run[p].next
              /\ run'[p].found = run[p].found \ {NextSubject(p)}
<1> DEFINE r == run[p]
           x == NextSubject(p)
           s == r.found \ {x}
           rec == [r EXCEPT !.pc = "find", !.alert = FALSE, !.found = s]
<1>0. CASE r.found = {x}
  BY <1>0 DEF update_attributes
<1>1. CASE r.found # {x}
  <2>1. r \in RunRec /\ s \in SUBSET Subject
    BY DEF TypeInv, TypeOK, RunRec
  <2>2. r.found # {}
    BY DEF TypeInv, update_attributes
  <2>3. s # {}
    BY <1>1, <2>2
  <2>4. run' = [run EXCEPT ![p] = rec]
    BY <1>1 DEF update_attributes
  <2> HIDE DEF r, s, x
  <2>5. /\ rec \in RunRec /\ rec.id = r.id /\ rec.day = r.day /\ rec.names = r.names
        /\ rec.next = r.next /\ rec.pc = "find" /\ rec.found = s
    BY Zenon, <2>1 DEF RunRec, Filtering
  <2> HIDE DEF rec
  <2>6. Moved(p) /\ run'[p] = rec
    BY Zenon, <2>1, <2>4, <2>5, Replaced DEF TypeInv
  <2> QED
    BY <1>1, <2>3, <2>5, <2>6 DEF r, s, x, Continues
<1> QED
  BY <1>0, <1>1

\* What a task does when it leaves the filters, and afterwards.
LEMMA LeaveFields ==
    ASSUME TypeOK, NEW p \in Tasks
    PROVE  /\ resolve(p) => /\ Moved(p) /\ run'[p].pc = (IF p \in Cron THEN "delete" ELSE "idle")
                            /\ run'[p].day = run[p].day
           /\ delete_responses(p) => Moved(p) /\ run'[p].pc = "alerts" /\ run'[p].day = run[p].day
           /\ resolve_alerts(p) \/ Fails(p) => Moved(p) /\ run'[p].pc = "idle"
<1>1. run[p] \in RunRec /\ NoRun \in RunRec /\ AfterRun(p) \in RunRec
  BY Zenon, RunTypes DEF TypeOK
<1>2. NoRun.pc = "idle"
  BY DEF NoRun
<1>3. /\ AfterRun(p).pc = (IF p \in Cron THEN "delete" ELSE "idle")
      /\ AfterRun(p).day = run[p].day
  BY DEF AfterRun, NoRun
<1>4. ASSUME resolve(p)
      PROVE  /\ Moved(p) /\ run'[p].pc = (IF p \in Cron THEN "delete" ELSE "idle")
             /\ run'[p].day = run[p].day
  <2>1. run' = [run EXCEPT ![p] = AfterRun(p)]
    BY <1>4 DEF resolve
  <2> QED
    BY Zenon, <1>1, <1>3, <2>1, Replaced
<1>5. ASSUME delete_responses(p)
      PROVE  Moved(p) /\ run'[p].pc = "alerts" /\ run'[p].day = run[p].day
  <2> DEFINE r == run[p]
             rec == [r EXCEPT !.pc = "alerts"]
  <2>1. run' = [run EXCEPT ![p] = rec]
    BY <1>5 DEF delete_responses, Goto
  <2>2. r \in RunRec
    BY <1>1
  <2> HIDE DEF r
  <2>3. rec \in RunRec /\ rec.pc = "alerts" /\ rec.day = r.day
    BY <2>2 DEF RunRec
  <2> HIDE DEF rec
  <2> QED
    BY Zenon, <2>1, <2>3, Replaced DEF r
<1>6. ASSUME resolve_alerts(p) \/ Fails(p) PROVE Moved(p) /\ run'[p].pc = "idle"
  <2>1. run' = [run EXCEPT ![p] = NoRun]
    BY <1>6 DEF resolve_alerts, Fails
  <2> QED
    BY Zenon, <1>1, <1>2, <2>1, Replaced
<1> QED
  BY <1>4, <1>5, <1>6

\* Start has no responses for the filters, or takes all that are unresolved.
LEMMA StartFields ==
    ASSUME TypeInv, NEW p \in Tasks, Start(p)
    PROVE  /\ Moved(p)
           /\ p \in Cron /\ run'[p].pc # "idle" => run'[p].day = day
           /\ \/ Unresolved = {} /\ run'[p].pc = IF p \in Cron THEN "delete" ELSE "idle"
              \/ /\ run'[p].pc = "load" /\ run'[p].names = {} /\ run'[p].next = 1
                 /\ run'[p].id \in Ids /\ filter(run'[p].id) = Unresolved
<1>0. TypeOK /\ Ids \subseteq 0..MaxResponses
  BY FiltersAssumption DEF TypeInv, TypeOK, Ids, FiltersAssumption
<1> DEFINE d == IF p \in Cron THEN day ELSE 0
           m == CHOOSE i \in Unresolved : filter(i) = Unresolved
<1>1. d \in 0..MaxDay /\ (p \in Cron => d = day)
  BY <1>0, FiltersAssumption DEF TypeOK, FiltersAssumption
<1>2. NoRun \in RunRec /\ NoRun.pc = "idle"
  BY Zenon, <1>0, RunTypes DEF NoRun
<1>3. CASE Unresolved = {} /\ p \in Cron
  <2> DEFINE began == [NoRun EXCEPT !.pc = "load", !.day = d]
             rec == [began EXCEPT !.pc = "delete"]
  <2>1. run' = [run EXCEPT ![p] = rec]
    BY <1>3 DEF Start
  <2> HIDE DEF d
  <2>2. began \in RunRec /\ began.day = d
    BY Zenon, <1>1, <1>2 DEF NoRun, RunRec, Filtering
  <2> HIDE DEF began
  <2>3. rec \in RunRec /\ rec.pc = "delete" /\ rec.day = d
    BY <2>2 DEF RunRec
  <2> HIDE DEF rec
  <2> QED
    BY Zenon, <1>0, <1>1, <1>3, <2>1, <2>3, Replaced
<1>4. CASE Unresolved = {} /\ p \notin Cron
  <2>1. run' = [run EXCEPT ![p] = NoRun]
    BY <1>4 DEF Start
  <2> QED
    BY Zenon, <1>0, <1>2, <1>4, <2>1, Replaced
<1>5. CASE Unresolved # {}
  <2> DEFINE began == [NoRun EXCEPT !.pc = "load", !.day = d]
             rec == [began EXCEPT !.id = m]
  <2>1. run' = [run EXCEPT ![p] = rec]
    BY <1>5 DEF Start
  <2>2. m \in Ids /\ filter(m) = Unresolved
    BY <1>0, <1>5, MaximumId
  <2> HIDE DEF m, d
  <2>3. /\ began \in RunRec /\ began.pc = "load" /\ began.day = d /\ began.names = {}
        /\ began.next = 1
    BY Zenon, <1>1, <1>2 DEF NoRun, RunRec, Filtering
  <2>4. m \in 0..MaxResponses
    BY Zenon, <1>0, <2>2
  <2> HIDE DEF began
  <2>5. /\ rec \in RunRec /\ rec.id = m /\ rec.pc = "load" /\ rec.day = d /\ rec.names = {}
        /\ rec.next = 1
    BY <2>3, <2>4 DEF RunRec
  <2> HIDE DEF rec
  <2> QED
    BY Zenon, <1>0, <1>1, <2>1, <2>2, <2>5, Replaced
<1> QED
  BY <1>3, <1>4, <1>5

-------------------------------------------------------------------------------
\* What the steps do to the responses.

\* A response keeps what it is about.
Kept(i) == /\ responses'[i].source = responses[i].source /\ responses'[i].hits = responses[i].hits
           /\ responses'[i].at = responses[i].at

\* The responses are rows, with ids from 1.
LEMMA Rows ==
    ASSUME TypeOK
    PROVE  /\ responses \in [Ids -> Response] /\ Ids \subseteq 0..MaxResponses
           /\ 0 \notin Ids /\ Ids \subseteq Nat
BY FiltersAssumption DEF TypeOK, Ids, FiltersAssumption

\* update_attributes marks the response that the alert is for.
LEMMA SaveRows ==
    ASSUME TypeInv, NEW p \in Tasks, update_attributes(p)
    PROVE  /\ responses' \in [Ids -> Response]
           /\ \A i \in Ids :
                /\ Kept(i) /\ responses'[i].state = responses[i].state
                /\ responses'[i].unresolved = responses[i].unresolved
                /\ responses'[i].slipped = responses[i].slipped
                /\ responses'[i].done = responses[i].done
                /\ responses[i].raised \subseteq responses'[i].raised
                /\ i = NextSubject(p).id => current(p) \in responses'[i].raised
<1> DEFINE x == NextSubject(p)
           f == current(p)
<1>1. responses \in [Ids -> Response] /\ f \in Filter
  BY Rows DEF TypeInv, TypeOK, RunRec, current, Filter
<1>2. CASE x.id = 0
  BY <1>1, <1>2, Rows DEF update_attributes, Kept, TypeInv
<1>3. CASE x.id # 0
  <2>1. responses' = [responses EXCEPT ![x.id].raised = @ \cup {f}]
    BY <1>3 DEF update_attributes
  <2> HIDE DEF x, f
  <2> DEFINE N(i) == [responses[i] EXCEPT !.raised = responses[i].raised \cup {f}]
  <2>2. ASSUME NEW i \in Ids
        PROVE  /\ N(i) \in Response /\ N(i).raised = responses[i].raised \cup {f}
               /\ N(i).source = responses[i].source /\ N(i).hits = responses[i].hits
               /\ N(i).at = responses[i].at /\ N(i).state = responses[i].state
               /\ N(i).done = responses[i].done /\ N(i).slipped = responses[i].slipped
               /\ N(i).unresolved = responses[i].unresolved
    <3>1. responses[i] \in Response
      BY <1>1
    <3> QED
      BY <1>1, <3>1 DEF Response
  <2>3. ASSUME NEW i \in Ids, i = x.id PROVE responses'[i] = N(i)
    BY <1>1, <2>1, <2>3
  <2> HIDE DEF N
  <2>4. ASSUME NEW i \in Ids, i # x.id PROVE responses'[i] = responses[i]
    BY <1>1, <2>1, <2>4
  <2>5. DOMAIN responses' = Ids /\ \A i \in Ids : responses'[i] \in Response
    BY Zenon, <1>1, <2>1, <2>2, <2>3, <2>4
  <2>6. responses' \in [Ids -> Response]
    BY Zenon, <2>1, <2>5
  <2>7. \A i \in Ids :
          /\ Kept(i) /\ responses'[i].state = responses[i].state
          /\ responses'[i].unresolved = responses[i].unresolved
          /\ responses'[i].slipped = responses[i].slipped
          /\ responses'[i].done = responses[i].done
          /\ responses[i].raised \subseteq responses'[i].raised
          /\ i = x.id => f \in responses'[i].raised
    <3> TAKE i \in Ids
    <3>1. CASE i = x.id
      BY <1>1, <2>2, <2>3, <3>1 DEF Kept
    <3>2. CASE i # x.id
      BY <2>4, <3>2 DEF Kept
    <3> QED
      BY <3>1, <3>2
  <2> QED
    BY <2>6, <2>7 DEF x, f
<1> QED
  BY <1>2, <1>3

\* resolve resolves what its task has looked at, once and for all unless it is undone.
LEMMA ResolveRows ==
    ASSUME TypeOK, NEW p \in Tasks, resolve(p)
    PROVE  /\ responses' \in [Ids -> Response]
           /\ \A i \in Ids :
                /\ i \in filter(run[p].id) =>
                     /\ ~responses'[i].unresolved /\ responses'[i].done # "no"
                     /\ Kept(i) /\ responses'[i].state = responses[i].state
                /\ i \notin filter(run[p].id) => responses'[i] = responses[i]
<1> DEFINE s == filter(run[p].id)
           R(i) == [responses[i] EXCEPT !.unresolved = FALSE, !.done = Outcome(i)]
<1>1. responses \in [Ids -> Response]
  BY Rows
<1>2. responses' = [i \in Ids |-> IF i \in s THEN R(i) ELSE responses[i]]
  BY Zenon DEF resolve, Resolved
<1>3. ASSUME NEW i \in Ids
      PROVE  /\ R(i) \in Response /\ ~R(i).unresolved /\ R(i).done # "no"
             /\ R(i).source = responses[i].source /\ R(i).hits = responses[i].hits
             /\ R(i).at = responses[i].at /\ R(i).state = responses[i].state
  <2>1. responses[i] \in Response
    BY <1>1
  <2>2. Outcome(i) \in {"missed", "seen"}
    BY Zenon DEF Outcome
  <2>3. Outcome(i) \in {"no", "missed", "seen"} /\ Outcome(i) # "no"
    BY <2>2
  <2> HIDE DEF Outcome
  <2> QED
    BY Zenon, <2>1, <2>3 DEF Response
<1> HIDE DEF R, s
<1>4. responses' \in [Ids -> Response]
  BY <1>1, <1>2, <1>3
<1>5. \A i \in Ids : (i \in s => responses'[i] = R(i)) /\ (i \notin s => responses'[i] = responses[i])
  BY <1>2
<1> QED
  BY <1>3, <1>4, <1>5 DEF s, Kept

\* api_responses_delete removes what is stored and older than a day.
LEMMA DeleteRows ==
    ASSUME TypeOK, api_responses_delete
    PROVE  /\ responses' \in [Ids -> Response]
           /\ \A i \in Ids :
                \/ responses'[i] = responses[i]
                \/ /\ responses[i].state = "stored" /\ responses[i].at < day - 1
                   /\ responses'[i].state = "deleted" /\ responses'[i].hits = {}
<1> DEFINE old(i) == responses[i].state = "stored" /\ responses[i].at < day - 1
<1>1. responses \in [Ids -> Response] /\ 0 \in 0..MaxDay
  BY Rows, FiltersAssumption DEF FiltersAssumption
<1>2. responses' = [i \in Ids |-> IF old(i) THEN Deleted(i) ELSE responses[i]]
  BY DEF api_responses_delete
<1>3. ASSUME NEW i \in Ids
      PROVE  /\ Deleted(i) \in Response /\ Deleted(i).state = "deleted"
             /\ Deleted(i).hits = {}
  <2>1. responses[i] \in Response
    BY <1>1
  <2> QED
    BY Zenon, <1>1, <2>1 DEF Response, Deleted
<1>4. responses' \in [Ids -> Response]
  BY <1>1, <1>2, <1>3
<1>5. \A i \in Ids : (old(i) => responses'[i] = Deleted(i)) /\ (~old(i) => responses'[i] = responses[i])
  BY <1>2
<1> QED
  BY <1>3, <1>4, <1>5

\* Insert adds a row with the next id.
LEMMA InsertRows ==
    ASSUME TypeOK, Insert
    PROVE  LET n == Len(responses) + 1
           IN  /\ responses' \in Seq(Response) /\ Len(responses') <= MaxResponses
               /\ Ids' = Ids \cup {n} /\ n \notin Ids
               /\ \A i \in Ids : responses'[i] = responses[i]
               /\ responses'[n].state = "inserted" /\ responses'[n].at = day
               /\ responses'[n].unresolved /\ NotUpdated \notin responses'[n].hits
<1> DEFINE n == Len(responses) + 1
           R(s, h) == [source |-> s, hits |-> h, at |-> day, state |-> "inserted", unresolved |-> TRUE,
                       slipped |-> FALSE, raised |-> {}, done |-> "no"]
<1>1. PICK s \in Sources, h \in SUBSET (Filter \ {NotUpdated}) : responses' = Append(responses, R(s, h))
  BY Zenon DEF Insert
<1>2. /\ R(s, h) \in Response /\ R(s, h).state = "inserted" /\ R(s, h).at = day
      /\ R(s, h).unresolved /\ NotUpdated \notin R(s, h).hits
  BY DEF Response, TypeOK
<1> DEFINE r == R(s, h)
<1> HIDE DEF R, r
<1>3. responses \in Seq(Response) /\ Len(responses) < MaxResponses /\ MaxResponses \in Nat
  BY FiltersAssumption DEF TypeOK, Insert, FiltersAssumption
<1>4. r \in Response /\ responses' = Append(responses, r)
  BY <1>1, <1>2 DEF r
<1>5. /\ responses' \in Seq(Response) /\ Len(responses') = n
      /\ \A i \in 1..Len(responses) : responses'[i] = responses[i]
      /\ responses'[n] = r
  BY <1>3, <1>4
<1>6. Ids' = Ids \cup {n} /\ n \notin Ids /\ Ids = 1..Len(responses)
  BY <1>3, <1>5 DEF Ids
<1> QED
  BY <1>2, <1>3, <1>5, <1>6 DEF r

\* What Commit and unresolve put back before the filters has slipped under those that run.
LEMMA SlipRows ==
    ASSUME TypeOK, unresolve \/ \E c \in Ids : Commit(c)
    PROVE  /\ responses' \in [Ids -> Response]
           /\ \A i \in Ids :
                \/ responses'[i] = responses[i]
                \/ /\ Kept(i) /\ responses'[i].done = responses[i].done
                   /\ responses[i].state = "stored" \/ responses[i].state = "inserted"
                   /\ responses'[i].state = "stored" /\ responses'[i].slipped = UnderRun(i)
                   /\ responses[i].state = "stored" => responses'[i].unresolved
                   /\ responses[i].state = "inserted" =>
                        responses'[i].unresolved = responses[i].unresolved
<1>1. responses \in [Ids -> Response] /\ \A i \in Ids : UnderRun(i) \in BOOLEAN
  BY Rows DEF UnderRun
<1>2. CASE unresolve
  <2> DEFINE R(i) == [responses[i] EXCEPT !.unresolved = TRUE, !.raised = {}, !.slipped = UnderRun(i)]
  <2>1. responses' = [i \in Ids |-> IF responses[i].state = "stored" THEN R(i) ELSE responses[i]]
    BY Zenon, <1>2 DEF unresolve
  <2>2. ASSUME NEW i \in Ids
        PROVE  /\ R(i) \in Response /\ R(i).unresolved /\ R(i).slipped = UnderRun(i)
               /\ R(i).source = responses[i].source /\ R(i).hits = responses[i].hits
               /\ R(i).at = responses[i].at /\ R(i).state = responses[i].state
               /\ R(i).done = responses[i].done
    <3> DEFINE b == UnderRun(i)
               r == responses[i]
    <3>1. r \in Response /\ b \in BOOLEAN
      BY <1>1
    <3> HIDE DEF b, r
    <3>2. LET n == [r EXCEPT !.unresolved = TRUE, !.raised = {}, !.slipped = b]
          IN  /\ n \in Response /\ n.unresolved /\ n.slipped = b
              /\ n.source = r.source /\ n.hits = r.hits
              /\ n.at = r.at /\ n.state = r.state /\ n.done = r.done
      BY Zenon, <3>1 DEF Response
    <3> QED
      BY <3>2 DEF b, r
  <2> HIDE DEF R
  <2>3. responses' \in [Ids -> Response]
    BY <1>1, <2>1, <2>2
  <2>4. \A i \in Ids : responses'[i] = IF responses[i].state = "stored" THEN R(i) ELSE responses[i]
    BY <2>1
  <2> QED
    BY <2>2, <2>3, <2>4 DEF Kept
<1>3. ASSUME NEW c \in Ids, Commit(c)
      PROVE  /\ responses' \in [Ids -> Response]
             /\ \A i \in Ids : i # c => responses'[i] = responses[i]
             /\ Kept(c) /\ responses'[c].done = responses[c].done
             /\ responses[c].state = "inserted"
             /\ responses'[c].state = "stored" /\ responses'[c].slipped = UnderRun(c)
             /\ responses'[c].unresolved = responses[c].unresolved
  <2> DEFINE b == UnderRun(c)
             r == responses[c]
             n == [r EXCEPT !.state = "stored", !.slipped = b]
  <2>1. responses' = [responses EXCEPT ![c] = n] /\ r.state = "inserted"
    BY Zenon, <1>3 DEF Commit
  <2>2. r \in Response /\ b \in BOOLEAN
    BY <1>1
  <2> HIDE DEF b, r
  <2>3. /\ n \in Response /\ n.state = "stored" /\ n.slipped = b
        /\ n.source = r.source /\ n.hits = r.hits
        /\ n.at = r.at /\ n.unresolved = r.unresolved /\ n.done = r.done
    BY Zenon, <2>2 DEF Response
  <2> HIDE DEF n
  <2>4. /\ responses' \in [Ids -> Response] /\ responses'[c] = n
        /\ \A i \in Ids : i # c => responses'[i] = responses[i]
    BY <1>1, <2>1, <2>3
  <2> QED
    BY <2>1, <2>3, <2>4 DEF b, r, Kept
<1> QED
  BY <1>2, <1>3

-------------------------------------------------------------------------------
\* The types are kept.

\* Every step keeps the types.
LEMMA TypeStep ==
    ASSUME TypeInv, [Next]_vars
    PROVE  TypeInv'
<1>0. TypeOK
  BY DEF TypeInv
<1>1. /\ responses \in [Ids -> Response] /\ alerts \subseteq Alert /\ active \subseteq Filter
      /\ fails \in 0..MaxFails /\ changes \in 0..MaxChanges /\ day \in 0..MaxDay
      /\ overlap \in BOOLEAN
  BY <1>0, Rows DEF TypeOK
<1>2. \A p \in Tasks : run[p].pc \in Filtering => run[p].id \in Ids
  BY <1>0 DEF TypeOK
<1>3. ASSUME NEW p \in Tasks, Start(p) PROVE TypeInv'
  <2>1. overlap' \in BOOLEAN
    BY <1>1, <1>3 DEF Start
  <2> QED
    BY Zenon, <1>1, <1>3, <2>1, StartFields, RunChanged DEF Start, Filtering
<1>4. ASSUME NEW p \in Tasks, Load(p) PROVE TypeInv'
  BY Zenon, <1>0, <1>1, <1>2, <1>4, LoadFields, RunChanged DEF Load, Filtering, Continues
<1>5. ASSUME NEW p \in Tasks, Advance(p), run[p].pc \in Filtering, responses' \in [Ids -> Response],
             alerts' \subseteq Alert, UNCHANGED <<active, day, fails, changes, overlap>>
      PROVE  TypeInv'
  BY <1>0, <1>1, <1>2, <1>5, AdvanceFields, RunChanged DEF Filtering, Continues
<1>6. ASSUME NEW p \in Tasks, run_filter(p) PROVE TypeInv'
  <2>1. CASE Advance(p)
    BY <1>1, <1>5, <1>6, <2>1 DEF run_filter, Filtering
  <2>2. CASE ~Advance(p)
    BY Zenon, <1>0, <1>1, <1>2, <1>6, <2>2, FilterFields, RunChanged DEF run_filter, Filtering, Continues
  <2> QED
    BY <2>1, <2>2
<1>7. ASSUME NEW p \in Tasks, first_or_initialize(p) PROVE TypeInv'
  <2>1. run[p].found # {} /\ run[p].pc \in Filtering
    BY <1>7 DEF TypeInv, first_or_initialize, Filtering
  <2> QED
    BY Zenon, <1>0, <1>1, <1>2, <1>7, <2>1, FindFields, RunChanged DEF first_or_initialize, Continues
<1>8. ASSUME NEW p \in Tasks, update_attributes(p) PROVE TypeInv'
  <2>1. run[p].pc \in Filtering /\ run[p].found # {}
    BY <1>8 DEF TypeInv, update_attributes, Filtering
  <2>2. responses' \in [Ids -> Response]
    BY <1>8, SaveRows
  <2>3. alerts' \subseteq Alert
    <3>1. NextSubject(p) \in Subject
      BY <1>0, <2>1, NextSubjectFound
    <3>2. current(p) \in Filter
      BY <1>0 DEF TypeOK, RunRec, current, Filter
    <3> QED
      BY <1>1, <1>8, <3>1, <3>2 DEF update_attributes, Subject, Alert
  <2>4. CASE Advance(p)
    BY <1>5, <1>8, <2>1, <2>2, <2>3, <2>4 DEF update_attributes
  <2>5. CASE ~Advance(p)
    BY Zenon, <1>1, <1>2, <1>8, <2>1, <2>2, <2>3, <2>5, SaveFields, RunChanged
       DEF update_attributes, Continues
  <2> QED
    BY <2>4, <2>5
<1>9. ASSUME NEW p \in Tasks, resolve(p) PROVE TypeInv'
  <2>1. Moved(p) /\ run'[p].pc \in {"delete", "idle"} /\ responses' \in [Ids -> Response]
    BY <1>0, <1>9, LeaveFields, ResolveRows
  <2> QED
    BY <1>1, <1>9, <2>1, RunChanged DEF resolve, Filtering
<1>10. ASSUME NEW p \in Tasks, delete_responses(p) PROVE TypeInv'
  <2>1. Moved(p) /\ run'[p].pc = "alerts" /\ responses' \in [Ids -> Response]
    BY <1>0, <1>10, LeaveFields, DeleteRows DEF delete_responses
  <2> QED
    BY <1>1, <1>10, <2>1, RunChanged DEF delete_responses, Filtering
<1>11. ASSUME NEW p \in Tasks, resolve_alerts(p) \/ Fails(p) PROVE TypeInv'
  <2>1. Moved(p) /\ run'[p].pc = "idle"
    BY <1>0, <1>11, LeaveFields
  <2>2. fails' \in 0..MaxFails
    BY <1>1, <1>11, FiltersAssumption DEF resolve_alerts, Fails, FiltersAssumption
  <2> QED
    BY <1>1, <1>11, <2>1, <2>2, RunChanged DEF resolve_alerts, Fails, Filtering
<1>12. ASSUME Insert PROVE TypeInv'
  BY Zenon, <1>0, <1>1, <1>12, InsertRows, TablesChanged DEF Insert
<1>13. ASSUME unresolve \/ \E c \in Ids : Commit(c) PROVE TypeInv'
  <2>1. responses' \in Seq(Response) /\ Len(responses') = Len(responses) /\ Ids' = Ids
    BY <1>0, <1>13, SlipRows, RowsChanged DEF Ids
  <2>2. Len(responses) <= MaxResponses
    BY <1>0 DEF TypeOK
  <2>3. changes' \in 0..MaxChanges
    <3>1. changes' = changes \/ (changes < MaxChanges /\ changes' = changes + 1)
      BY Zenon, <1>13 DEF unresolve, Commit
    <3> QED
      BY <1>1, <3>1, FiltersAssumption DEF FiltersAssumption
  <2>4. UNCHANGED <<alerts, active, run, day, fails, overlap>>
    BY Zenon, <1>13 DEF unresolve, Commit
  <2> QED
    BY <1>1, <2>1, <2>2, <2>3, <2>4, TablesChanged
<1>14. ASSUME (\E f \in Filter : update(f)) \/ destroy PROVE TypeInv'
  <2>1. changes' \in 0..MaxChanges
    BY <1>1, <1>14, FiltersAssumption DEF update, destroy, FiltersAssumption
  <2>2. alerts' \subseteq Alert /\ active' \subseteq Filter
    <3>1. CASE \E f \in Filter : update(f)
      BY <1>1, <3>1 DEF update
    <3>2. CASE destroy
      <4>1. alerts' \subseteq alerts /\ active' = active
        BY Zenon, <3>2 DEF destroy
      <4> QED
        BY <1>1, <4>1
    <3> QED
      BY <1>14, <3>1, <3>2
  <2>3. UNCHANGED <<responses, run, day, fails, overlap>>
    BY <1>14 DEF update, destroy
  <2> QED
    BY <1>0, <1>1, <2>1, <2>2, <2>3, TablesChanged DEF TypeOK, Ids
<1>15. ASSUME DayPasses \/ UNCHANGED vars PROVE TypeInv'
  <2>1. day' \in 0..MaxDay
    BY <1>1, <1>15, FiltersAssumption DEF DayPasses, FiltersAssumption, vars
  <2>2. UNCHANGED <<responses, alerts, active, run, fails, changes, overlap>>
    BY <1>15 DEF DayPasses, vars
  <2> QED
    BY <1>0, <1>1, <2>1, <2>2, TablesChanged DEF TypeOK, Ids
<1>16. ASSUME delete_by_hand PROVE TypeInv'
  <2>1. responses' \in Seq(Response) /\ Len(responses') = Len(responses) /\ Ids' = Ids
    BY <1>0, <1>16, DeleteRows, RowsChanged DEF Ids, delete_by_hand
  <2>2. Len(responses) <= MaxResponses
    BY <1>0 DEF TypeOK
  <2>3. changes' \in 0..MaxChanges
    BY <1>1, <1>16, FiltersAssumption DEF delete_by_hand, FiltersAssumption
  <2>4. UNCHANGED <<alerts, active, run, day, fails, overlap>>
    BY Zenon, <1>16 DEF delete_by_hand
  <2> QED
    BY <1>1, <2>1, <2>2, <2>3, <2>4, TablesChanged
<1> QED
  BY <1>3, <1>4, <1>6, <1>7, <1>8, <1>9, <1>10, <1>11, <1>12, <1>13, <1>14, <1>15, <1>16
     DEF Next, TaskStep

-------------------------------------------------------------------------------
\* Nothing is lost.

\* A step that leaves what matters of the responses, and keeps a task in the filters.
LEMMA LostFrame ==
    ASSUME TypeInv, LostInv, Ids' = Ids, day' = day,
           \A i \in Ids : /\ responses'[i].state = responses[i].state
                          /\ responses'[i].at = responses[i].at
                          /\ responses'[i].unresolved = responses[i].unresolved
                          /\ responses'[i].done = responses[i].done,
           \A p \in Tasks : \/ run'[p] = run[p]
                            \/ run'[p].pc = "idle"
                            \/ /\ run[p].pc \in Filtering /\ run'[p].pc \in Filtering
                               /\ Continues(p)
    PROVE  LostInv'
<1>1. Cron \subseteq Tasks
  BY FiltersAssumption DEF FiltersAssumption
<1>2. \A p \in Tasks : run'[p].pc \in {"delete", "alerts"} => p \in Cron
  BY DEF LostInv, Filtering
<1>3. \A p \in Cron : run'[p].pc # "idle" =>
         /\ run[p].pc # "idle" /\ run'[p].day = run[p].day
         /\ run[p].pc \in Filtering => run'[p].pc \in Filtering /\ run'[p].id = run[p].id
  BY <1>1 DEF Filtering, Continues
<1>4. \A p \in Cron : run'[p].pc # "idle" => run'[p].day <= day /\ day <= run'[p].day + 1
  BY <1>3 DEF LostInv
<1>5. \A p \in Cron : \A i \in Ids :
         run'[p].pc # "idle" /\ responses[i].state = "stored" /\ responses[i].at < run'[p].day
             /\ responses[i].done = "no"
           => run'[p].pc \in Filtering /\ i <= run'[p].id
  BY <1>3 DEF LostInv
<1>6. \A i \in Ids :
         /\ responses'[i].state = "inserted" => responses'[i].at = day /\ responses'[i].unresolved
         /\ responses'[i].state = "stored" /\ ~responses'[i].unresolved => responses'[i].done # "no"
  BY DEF LostInv
<1> QED
  BY <1>2, <1>4, <1>5, <1>6 DEF LostInv

\* Start does not leave out a response.
LEMMA LostStart ==
    ASSUME TypeInv, LostInv, NEW p \in Tasks, Start(p)
    PROVE  LostInv'
<1>1. UNCHANGED <<responses, day>> /\ Ids' = Ids
  BY DEF Start, Ids
<1>2. /\ Moved(p)
      /\ p \in Cron /\ run'[p].pc # "idle" => run'[p].day = day
      /\ \/ Unresolved = {} /\ run'[p].pc = IF p \in Cron THEN "delete" ELSE "idle"
         \/ /\ run'[p].pc = "load" /\ filter(run'[p].id) = Unresolved
  BY StartFields
<1>3. day \in Nat /\ Cron \subseteq Tasks
  BY FiltersAssumption DEF TypeInv, TypeOK, FiltersAssumption
<1>4. \A q \in Tasks : run'[q].pc \in {"delete", "alerts"} => q \in Cron
  BY <1>2 DEF LostInv, Moved
<1>5. \A q \in Cron : run'[q].pc # "idle" => run'[q].day <= day /\ day <= run'[q].day + 1
  BY <1>2, <1>3 DEF LostInv, Moved
<1>6. ASSUME NEW q \in Cron, NEW i \in Ids, run'[q].pc # "idle", responses[i].state = "stored",
             responses[i].at < run'[q].day, responses[i].done = "no"
      PROVE  run'[q].pc \in Filtering /\ i <= run'[q].id
  <2>1. i \in Unresolved
    BY <1>6 DEF LostInv, Unresolved
  <2>2. CASE q = p
    BY <1>2, <1>6, <2>1, <2>2 DEF filter, Filtering
  <2>3. CASE q # p
    BY <1>2, <1>3, <1>6, <2>3 DEF LostInv, Moved
  <2> QED
    BY <2>2, <2>3
<1> QED
  BY <1>1, <1>4, <1>5, <1>6 DEF LostInv

\* resolve leaves nothing that was there on the days before.
LEMMA LostResolve ==
    ASSUME TypeInv, LostInv, NEW p \in Tasks, resolve(p)
    PROVE  LostInv'
<1>1. TypeOK /\ day' = day /\ run[p].pc = "resolve" /\ Cron \subseteq Tasks
  BY FiltersAssumption DEF TypeInv, resolve, FiltersAssumption
<1>2. /\ Moved(p) /\ run'[p].pc = (IF p \in Cron THEN "delete" ELSE "idle")
      /\ run'[p].day = run[p].day
  BY <1>1, LeaveFields
<1>3. responses' \in [Ids -> Response] /\ Ids' = Ids
  BY <1>1, ResolveRows, RowsChanged DEF Ids
<1>4. \A i \in Ids : /\ responses'[i].state = responses[i].state /\ responses'[i].at = responses[i].at
                     /\ responses'[i].done = responses[i].done \/ responses'[i].done # "no"
                     /\ responses'[i].unresolved = responses[i].unresolved
                          \/ (responses'[i].done # "no" /\ responses'[i].state = "stored")
                     /\ i \in filter(run[p].id) => responses'[i].done # "no"
  BY <1>1, ResolveRows DEF Kept, filter, Unresolved
<1>5. \A q \in Tasks : run'[q].pc \in {"delete", "alerts"} => q \in Cron
  BY <1>2 DEF LostInv, Moved
<1>6. \A q \in Cron : run'[q].pc # "idle" => run'[q].day <= day /\ day <= run'[q].day + 1
  BY <1>1, <1>2 DEF LostInv, Moved
<1>7. ASSUME NEW q \in Cron, NEW i \in Ids, run'[q].pc # "idle", responses'[i].state = "stored",
             responses'[i].at < run'[q].day, responses'[i].done = "no"
      PROVE  run'[q].pc \in Filtering /\ i <= run'[q].id
  <2>1. /\ responses[i].state = "stored" /\ responses[i].at = responses'[i].at /\ responses[i].done = "no"
        /\ i \notin filter(run[p].id)
    BY <1>4, <1>7
  <2>2. i \in Unresolved
    BY <2>1 DEF LostInv, Unresolved
  <2>3. CASE q = p
    <3>1. i <= run[p].id
      BY <1>1, <1>2, <1>7, <2>1, <2>3 DEF LostInv
    <3> QED
      BY <2>1, <2>2, <3>1 DEF filter
  <2>4. CASE q # p
    BY <1>1, <1>2, <1>7, <2>1, <2>4 DEF LostInv, Moved
  <2> QED
    BY <2>3, <2>4
<1>8. \A i \in Ids :
         /\ responses'[i].state = "inserted" => responses'[i].at = day /\ responses'[i].unresolved
         /\ responses'[i].state = "stored" /\ ~responses'[i].unresolved => responses'[i].done # "no"
  BY <1>4 DEF LostInv
<1> QED
  BY <1>1, <1>3, <1>5, <1>6, <1>7, <1>8 DEF LostInv

\* What is deleted, by cron:daily or by hand, needs not be resolved any more.
LEMMA LostDelete ==
    ASSUME TypeInv, LostInv, delete_by_hand \/ \E p \in Tasks : delete_responses(p)
    PROVE  LostInv'
<1>1. TypeOK /\ day' = day /\ Cron \subseteq Tasks /\ api_responses_delete
  BY FiltersAssumption DEF TypeInv, delete_responses, delete_by_hand, FiltersAssumption
<1>2. responses' \in [Ids -> Response] /\ Ids' = Ids
  BY <1>1, DeleteRows, RowsChanged DEF Ids
<1>3. \A i \in Ids : responses'[i] = responses[i] \/ responses'[i].state = "deleted"
  BY <1>1, DeleteRows
<1>4. \A q \in Tasks :
         \/ run'[q] = run[q]
         \/ run[q].pc = "delete" /\ run'[q].pc = "alerts" /\ run'[q].day = run[q].day
  <2>1. CASE delete_by_hand
    BY <2>1 DEF delete_by_hand
  <2>2. ASSUME NEW p \in Tasks, delete_responses(p)
        PROVE  /\ Moved(p) /\ run'[p].pc = "alerts" /\ run'[p].day = run[p].day
               /\ run[p].pc = "delete"
    BY <1>1, <2>2, LeaveFields DEF delete_responses
  <2> QED
    BY Zenon, <2>1, <2>2 DEF Moved
<1>5. \A q \in Tasks : run'[q].pc \in {"delete", "alerts"} => q \in Cron
  BY <1>4 DEF LostInv
<1>6. \A q \in Cron : run'[q].pc # "idle" =>
         /\ run[q].pc # "idle" /\ run'[q].day = run[q].day
         /\ run[q].pc \in Filtering => run'[q] = run[q]
  BY <1>1, <1>4 DEF Filtering
<1>7. \A q \in Cron : run'[q].pc # "idle" => run'[q].day <= day /\ day <= run'[q].day + 1
  BY <1>6 DEF LostInv
<1>8. \A q \in Cron : \A i \in Ids :
         run'[q].pc # "idle" /\ responses'[i].state = "stored" /\ responses'[i].at < run'[q].day
             /\ responses'[i].done = "no"
           => run'[q].pc \in Filtering /\ i <= run'[q].id
  BY <1>3, <1>6 DEF LostInv
<1>9. \A i \in Ids :
         /\ responses'[i].state = "inserted" => responses'[i].at = day /\ responses'[i].unresolved
         /\ responses'[i].state = "stored" /\ ~responses'[i].unresolved => responses'[i].done # "no"
  BY <1>3 DEF LostInv
<1> QED
  BY <1>1, <1>2, <1>5, <1>7, <1>8, <1>9 DEF LostInv

\* New responses, and those that are unresolved again, are younger or were done.
LEMMA LostTables ==
    ASSUME TypeInv, LostInv, Insert \/ unresolve \/ \E c \in Ids : Commit(c)
    PROVE  LostInv'
<1>1. TypeOK /\ day' = day /\ run' = run /\ day \in Int /\ Cron \subseteq Tasks
  <2>1. day' = day /\ run' = run
    BY Zenon DEF Insert, unresolve, Commit
  <2>2. TypeOK /\ day \in 0..MaxDay
    BY DEF TypeInv, TypeOK
  <2> QED
    BY <2>1, <2>2, FiltersAssumption DEF FiltersAssumption
<1>2. \A p \in Cron : run[p].day \in Int
  BY <1>1 DEF TypeOK, RunRec
<1>3. ASSUME NEW i \in Ids'
      PROVE  \/ i \in Ids /\ responses'[i] = responses[i]
             \/ responses'[i].state = "inserted" /\ responses'[i].at = day /\ responses'[i].unresolved
             \/ /\ responses'[i].state = "stored" /\ responses'[i].unresolved
                /\ \/ responses'[i].at = day
                   \/ /\ i \in Ids /\ responses[i].state = "stored"
                      /\ responses'[i].at = responses[i].at /\ responses'[i].done = responses[i].done
  <2>1. CASE Insert
    BY <1>1, <2>1, InsertRows
  <2>2. CASE unresolve \/ \E c \in Ids : Commit(c)
    <3>1. Ids' = Ids
      BY <1>1, <2>2, SlipRows, RowsChanged DEF Ids
    <3> QED
      BY <1>1, <2>2, <3>1, SlipRows DEF Kept, LostInv
  <2> QED
    BY <2>1, <2>2
<1>4. \A i \in Ids' :
         /\ responses'[i].state = "inserted" => responses'[i].at = day /\ responses'[i].unresolved
         /\ responses'[i].state = "stored" /\ ~responses'[i].unresolved => responses'[i].done # "no"
  BY <1>3 DEF LostInv
<1>5. \A p \in Cron : run[p].pc # "idle" => ~(day < run[p].day)
  BY <1>1, <1>2 DEF LostInv
<1>6. \A p \in Cron : \A i \in Ids' :
         run[p].pc # "idle" /\ responses'[i].state = "stored" /\ responses'[i].at < run[p].day
             /\ responses'[i].done = "no"
           => run[p].pc \in Filtering /\ i <= run[p].id
  BY <1>3, <1>5 DEF LostInv
<1> QED
  BY <1>1, <1>4, <1>6 DEF LostInv

\* Every step keeps what is known of responses that are not done.
LEMMA LostStep ==
    ASSUME TypeInv, LostInv, [Next]_vars
    PROVE  LostInv'
<1>0. TypeOK
  BY DEF TypeInv
<1>1. ASSUME NEW p \in Tasks, Moved(p), Ids' = Ids, day' = day,
             \A i \in Ids : /\ responses'[i].state = responses[i].state
                            /\ responses'[i].at = responses[i].at
                            /\ responses'[i].unresolved = responses[i].unresolved
                            /\ responses'[i].done = responses[i].done,
             \/ run'[p].pc = "idle"
             \/ run[p].pc \in Filtering /\ run'[p].pc \in Filtering /\ Continues(p)
      PROVE  LostInv'
  BY Zenon, <1>1, LostFrame DEF Moved
<1>2. ASSUME NEW p \in Tasks, Load(p) \/ run_filter(p) \/ first_or_initialize(p) PROVE LostInv'
  <2>1. Moved(p) /\ run'[p].pc \in Filtering /\ Continues(p)
    BY <1>0, <1>2, LoadFields, FilterFields, AdvanceFields, FindFields DEF Filtering
  <2>2. UNCHANGED <<responses, day>> /\ run[p].pc \in Filtering /\ Ids' = Ids
    BY <1>2 DEF Load, run_filter, first_or_initialize, Filtering, Ids
  <2> QED
    BY <1>1, <2>1, <2>2
<1>3. ASSUME NEW p \in Tasks, update_attributes(p) PROVE LostInv'
  <2>1. Moved(p) /\ run'[p].pc \in Filtering /\ Continues(p)
    BY <1>0, <1>3, SaveFields, AdvanceFields DEF Filtering
  <2>2. day' = day /\ run[p].pc \in Filtering
    BY <1>3 DEF update_attributes, Filtering
  <2>3. Ids' = Ids
    BY <1>0, <1>3, SaveRows, RowsChanged DEF Ids
  <2> QED
    BY <1>1, <1>3, <2>1, <2>2, <2>3, SaveRows DEF Kept
<1>4. ASSUME NEW p \in Tasks, resolve_alerts(p) \/ Fails(p) PROVE LostInv'
  <2>1. Moved(p) /\ run'[p].pc = "idle"
    BY <1>0, <1>4, LeaveFields
  <2>2. UNCHANGED <<responses, day>> /\ Ids' = Ids
    BY <1>4 DEF resolve_alerts, Fails, Ids
  <2> QED
    BY <1>1, <2>1, <2>2
<1>5. ASSUME UNCHANGED <<responses, run, day>> PROVE LostInv'
  BY <1>5 DEF LostInv, Ids
<1>6. ASSUME DayPasses PROVE LostInv'
  <2>1. UNCHANGED <<responses, run>> /\ Ids' = Ids /\ day' = day + 1 /\ day \in Int
    BY <1>0, <1>6 DEF DayPasses, Ids, TypeOK
  <2>2. /\ \A i \in Ids : responses[i].state # "inserted"
        /\ \A p \in Cron : run[p].pc = "idle" \/ run[p].day = day
    BY <1>6 DEF DayPasses
  <2>3. \A p \in Cron : run[p].pc # "idle" => run[p].day <= day + 1 /\ day + 1 <= run[p].day + 1
    BY <2>1, <2>2
  <2> QED
    BY <2>1, <2>2, <2>3 DEF LostInv
<1>7. ASSUME (\E f \in Filter : update(f)) \/ destroy \/ UNCHANGED vars PROVE LostInv'
  BY <1>5, <1>7 DEF update, destroy, vars
<1> QED
  BY <1>2, <1>3, <1>4, <1>6, <1>7, LostStart, LostResolve, LostDelete, LostTables DEF Next, TaskStep

-------------------------------------------------------------------------------
\* Every response is examined.

\* A step of somebody else that does not put the response before the filters.
LEMMA CoveredFrame ==
    ASSUME NEW p \in Tasks, NEW i \in Ids, Covered(p, i), run'[p] = run[p],
           responses'[i].state = "stored" /\ responses'[i].unresolved /\ ~responses'[i].slipped
             => /\ responses[i].state = "stored" /\ responses[i].unresolved /\ ~responses[i].slipped
                /\ responses'[i].hits = responses[i].hits
                /\ responses'[i].source = responses[i].source
                /\ responses[i].raised \subseteq responses'[i].raised
    PROVE  Covered(p, i)'
<1> SUFFICES ASSUME run'[p].pc \in Filtering, i \in filter(run[p].id)', ~responses'[i].slipped,
                    NEW f \in responses'[i].hits \cap run'[p].names
             PROVE  f \in responses'[i].raised \/ Pending(p, i, f)'
  BY Zenon DEF Covered
<1>1. responses'[i].state = "stored" /\ responses'[i].unresolved /\ i <= run[p].id
  BY DEF filter, Unresolved
<1>2. i \in filter(run[p].id) /\ ~responses[i].slipped /\ f \in responses[i].hits \cap run[p].names
  BY <1>1 DEF filter, Unresolved
<1>3. f \in responses[i].raised \/ Pending(p, i, f)
  BY <1>2 DEF Covered
<1>4. Pending(p, i, f) => Pending(p, i, f)'
  BY Zenon, <1>1 DEF Pending, current
<1> QED
  BY <1>1, <1>3, <1>4

\* A task that advances has nothing left to do for the filter that it was at.
LEMMA CoveredAdvance ==
    ASSUME TypeOK, NEW p \in Tasks, NEW i \in Ids, Advance(p),
           i \in filter(run[p].id)' /\ ~responses'[i].slipped =>
             \A f \in responses'[i].hits \cap run[p].names :
               f \in responses'[i].raised \/ \E k \in (run[p].next + 1)..Len(Names) : Names[k] = f
    PROVE  Covered(p, i)'
<1>1. /\ Continues(p) /\ run'[p].names = run[p].names
      /\ \/ run[p].next = Len(Names) /\ run'[p].pc = "resolve"
         \/ run[p].next < Len(Names) /\ run'[p].pc = "filter" /\ run'[p].next = run[p].next + 1
  BY AdvanceFields
<1> SUFFICES ASSUME i \in filter(run[p].id)', ~responses'[i].slipped,
                    NEW f \in responses'[i].hits \cap run[p].names, f \notin responses'[i].raised
             PROVE  Pending(p, i, f)'
  BY <1>1 DEF Covered
<1>2. PICK k \in (run[p].next + 1)..Len(Names) : Names[k] = f
  OBVIOUS
<1>3. run[p].next < Len(Names)
  BY <1>2, FiltersAssumption DEF TypeOK, RunRec, FiltersAssumption
<1>4. run'[p].pc = "filter" /\ run'[p].next = run[p].next + 1
  BY <1>1, <1>3, FiltersAssumption DEF TypeOK, RunRec, FiltersAssumption
<1> QED
  BY <1>2, <1>4 DEF Pending

\* run_filter finds the responses that the filter hits.
LEMMA CoveredFilter ==
    ASSUME TypeInv, ExaminedInv, NEW p \in Tasks, NEW i \in Ids, run_filter(p)
    PROVE  Covered(p, i)'
<1>1. TypeOK /\ responses' = responses /\ run[p].pc = "filter" /\ Ids' = Ids
  BY DEF TypeInv, run_filter, Ids
<1>2. Continues(p) /\ run'[p].names = run[p].names
  BY <1>1, FilterFields, AdvanceFields
<1> DEFINE x == [source |-> responses[i].source, id |-> i]
<1>3. ASSUME i \in filter(run[p].id)', ~responses[i].slipped,
             NEW f \in responses[i].hits \cap run[p].names
      PROVE  \/ f \in responses[i].raised
             \/ \E k \in (run[p].next + 1)..Len(Names) : Names[k] = f
             \/ f = current(p) /\ x \in Found(p)
  <2>1. i \in filter(run[p].id)
    BY <1>1, <1>2, <1>3 DEF filter, Unresolved, Continues
  <2>2. CASE f \in responses[i].raised
    BY <2>2
  <2>3. CASE f \notin responses[i].raised
    <3>1. PICK k \in run[p].next..Len(Names) : Names[k] = f
      BY Zenon, <1>1, <1>3, <2>1, <2>3 DEF ExaminedInv, Covered, Pending, Filtering
    <3>2. run[p].next \in Int /\ Len(Names) \in Int
      BY <1>1, FiltersAssumption DEF TypeOK, RunRec, FiltersAssumption
    <3>3. CASE k = run[p].next
      <4>1. f = current(p) /\ f # NotUpdated
        BY <1>3, <3>1, <3>3 DEF current, ExaminedInv
      <4> QED
        BY Zenon, <1>3, <2>1, <4>1 DEF Found
    <3>4. CASE k # run[p].next
      BY <3>1, <3>2, <3>4
    <3> QED
      BY <3>3, <3>4
  <2> QED
    BY <2>2, <2>3
<1>4. CASE Advance(p) /\ Found(p) = {}
  BY <1>1, <1>3, <1>4, CoveredAdvance
<1>5. CASE ~(Advance(p) /\ Found(p) = {})
  <2>1. /\ run'[p].pc = "find" /\ run'[p].next = run[p].next /\ run'[p].found = Found(p)
    BY <1>1, <1>5, FilterFields
  <2> SUFFICES ASSUME i \in filter(run[p].id)', ~responses[i].slipped,
                      NEW f \in responses[i].hits \cap run[p].names, f \notin responses[i].raised
               PROVE  Pending(p, i, f)'
    BY <1>1, <1>2 DEF Covered
  <2>2. \/ \E k \in (run[p].next + 1)..Len(Names) : Names[k] = f
        \/ f = current(p) /\ x \in Found(p)
    BY <1>3
  <2> QED
    BY Zenon, <1>1, <2>1, <2>2 DEF Pending, current
<1> QED
  BY <1>4, <1>5

\* update_attributes raises the alert for the response that it is at.
LEMMA CoveredSave ==
    ASSUME TypeInv, ExaminedInv, NEW p \in Tasks, NEW i \in Ids, update_attributes(p)
    PROVE  Covered(p, i)'
<1>1. TypeOK /\ run[p].pc = "save"
  BY DEF TypeInv, update_attributes
<1>2. Continues(p) /\ run'[p].names = run[p].names
  BY <1>1, SaveFields, AdvanceFields
<1>3. /\ Kept(i) /\ responses'[i].state = responses[i].state
      /\ responses'[i].unresolved = responses[i].unresolved
      /\ responses'[i].slipped = responses[i].slipped
      /\ responses[i].raised \subseteq responses'[i].raised
      /\ i = NextSubject(p).id => current(p) \in responses'[i].raised
  BY SaveRows
<1> DEFINE x == [source |-> responses[i].source, id |-> i]
<1>4. ASSUME i \in filter(run[p].id)', ~responses'[i].slipped,
             NEW f \in responses'[i].hits \cap run[p].names
      PROVE  \/ f \in responses'[i].raised
             \/ \E k \in (run[p].next + 1)..Len(Names) : Names[k] = f
             \/ f = current(p) /\ x \in run[p].found \ {NextSubject(p)}
  <2>1. i \in filter(run[p].id) /\ ~responses[i].slipped /\ f \in responses[i].hits \cap run[p].names
    BY <1>2, <1>3, <1>4 DEF filter, Unresolved, Continues, Kept
  <2>2. \/ f \in responses[i].raised
        \/ \E k \in (run[p].next + 1)..Len(Names) : Names[k] = f
        \/ f = current(p) /\ x \in run[p].found
    BY Zenon, <1>1, <2>1 DEF ExaminedInv, Covered, Pending, Filtering
  <2>3. x = NextSubject(p) => i = NextSubject(p).id
    OBVIOUS
  <2> QED
    BY <1>3, <2>2, <2>3
<1>5. CASE Advance(p) /\ run[p].found = {NextSubject(p)}
  BY <1>1, <1>4, <1>5, CoveredAdvance
<1>6. CASE ~(Advance(p) /\ run[p].found = {NextSubject(p)})
  <2>1. /\ run'[p].pc = "find" /\ run'[p].next = run[p].next
        /\ run'[p].found = run[p].found \ {NextSubject(p)}
    BY <1>6, SaveFields
  <2> SUFFICES ASSUME i \in filter(run[p].id)', ~responses'[i].slipped,
                      NEW f \in responses'[i].hits \cap run[p].names, f \notin responses'[i].raised
               PROVE  Pending(p, i, f)'
    BY <1>2 DEF Covered
  <2>2. \/ \E k \in (run[p].next + 1)..Len(Names) : Names[k] = f
        \/ f = current(p) /\ x \in run[p].found \ {NextSubject(p)}
    BY <1>4
  <2> QED
    BY Zenon, <1>3, <2>1, <2>2 DEF Pending, current, Kept
<1> QED
  BY <1>5, <1>6

\* Load begins with the first filter, first_or_initialize stays at its filter.
LEMMA CoveredGoOn ==
    ASSUME TypeInv, ExaminedInv, NEW p \in Tasks, NEW i \in Ids, Load(p) \/ first_or_initialize(p)
    PROVE  Covered(p, i)'
<1>1. TypeOK /\ responses' = responses /\ Ids' = Ids
  BY DEF TypeInv, Load, first_or_initialize, Ids
<1>2. CASE Load(p)
  <2>1. /\ run'[p].pc = "filter" /\ run'[p].names = active /\ run'[p].next = run[p].next
        /\ run[p].pc = "load"
    BY Zenon, <1>1, <1>2, LoadFields DEF Load
  <2>2. run'[p].next = 1
    BY <2>1 DEF ExaminedInv
  <2>3. \A f \in active : \E k \in 1..Len(Names) : Names[k] = f
    BY <1>1, FiltersAssumption DEF TypeOK, Filter, FiltersAssumption
  <2> QED
    BY <2>1, <2>2, <2>3 DEF Covered, Pending
<1>3. CASE first_or_initialize(p)
  <2>1. /\ run[p].pc = "find" /\ run'[p].pc = "save" /\ run'[p].id = run[p].id
        /\ run'[p].names = run[p].names /\ run'[p].next = run[p].next /\ run'[p].found = run[p].found
    BY Zenon, <1>1, <1>3, FindFields DEF first_or_initialize, Continues
  <2> SUFFICES ASSUME i \in filter(run[p].id)', ~responses[i].slipped,
                      NEW f \in responses[i].hits \cap run[p].names, f \notin responses[i].raised
               PROVE  Pending(p, i, f)'
    BY <1>1, <2>1 DEF Covered
  <2>2. i \in filter(run[p].id)
    BY <1>1, <2>1 DEF filter, Unresolved
  <2>3. Pending(p, i, f)
    BY <2>1, <2>2 DEF ExaminedInv, Covered, Filtering
  <2> QED
    BY Zenon, <1>1, <2>1, <2>3 DEF Pending, current
<1> QED
  BY <1>2, <1>3

\* Every step keeps the responses covered.
LEMMA ExaminedStep ==
    ASSUME TypeInv, ExaminedInv, [Next]_vars
    PROVE  ExaminedInv'
<1>0. TypeOK
  BY DEF TypeInv
<1>1. ASSUME NEW p \in Tasks, Moved(p), Ids' = Ids, responses' = responses, run'[p].pc # "load",
             \A i \in Ids : Covered(p, i)'
      PROVE  ExaminedInv'
  <2>1. \A q \in Tasks : \A i \in Ids : q # p => Covered(q, i)'
    BY <1>1, CoveredFrame DEF ExaminedInv, Moved
  <2>2. \A q \in Tasks : run'[q].pc = "load" => run'[q].names = {} /\ run'[q].next = 1
    BY <1>1 DEF ExaminedInv, Moved
  <2> QED
    BY <1>1, <2>1, <2>2 DEF ExaminedInv
<1>2. ASSUME NEW p \in Tasks, run'[p].pc \notin Filtering, NEW i \in Ids PROVE Covered(p, i)'
  BY <1>2 DEF Covered
<1>3. ASSUME NEW p \in Tasks, Start(p) PROVE ExaminedInv'
  <2>1. /\ Moved(p)
        /\ \/ run'[p].pc \notin Filtering
           \/ run'[p].pc = "load" /\ run'[p].names = {} /\ run'[p].next = 1
    BY <1>3, StartFields DEF Filtering
  <2>2. responses' = responses /\ Ids' = Ids
    BY <1>3 DEF Start, Ids
  <2>3. \A i \in Ids : Covered(p, i)'
    BY <2>1 DEF Covered
  <2>4. \A q \in Tasks : \A i \in Ids : q # p => Covered(q, i)'
    BY <2>1, <2>2, CoveredFrame DEF ExaminedInv, Moved
  <2>5. \A q \in Tasks : run'[q].pc = "load" => run'[q].names = {} /\ run'[q].next = 1
    BY <2>1 DEF ExaminedInv, Moved, Filtering
  <2> QED
    BY <2>2, <2>3, <2>4, <2>5 DEF ExaminedInv
<1>4. ASSUME NEW p \in Tasks, Load(p) \/ run_filter(p) \/ first_or_initialize(p) PROVE ExaminedInv'
  <2>1. responses' = responses /\ Ids' = Ids
    BY <1>4 DEF Load, run_filter, first_or_initialize, Ids
  <2>2. Moved(p) /\ run'[p].pc # "load"
    BY Zenon, <1>0, <1>4, LoadFields, FilterFields, AdvanceFields, FindFields
  <2>3. \A i \in Ids : Covered(p, i)'
    BY <1>4, CoveredGoOn, CoveredFilter
  <2> QED
    BY <1>1, <2>1, <2>2, <2>3
<1>5. ASSUME NEW p \in Tasks, update_attributes(p) PROVE ExaminedInv'
  <2>1. Ids' = Ids
    BY <1>0, <1>5, SaveRows, RowsChanged DEF Ids
  <2>2. Moved(p) /\ run'[p].pc # "load"
    BY <1>0, <1>5, SaveFields, AdvanceFields
  <2>3. \A i \in Ids : Covered(p, i)'
    BY <1>5, CoveredSave
  <2>4. ASSUME NEW q \in Tasks, NEW i \in Ids, q # p PROVE Covered(q, i)'
    <3>1. run'[q] = run[q] /\ Covered(q, i)
      BY <2>2, <2>4 DEF Moved, ExaminedInv
    <3> QED
      BY <1>5, <3>1, SaveRows, CoveredFrame DEF Kept
  <2>5. \A q \in Tasks : run'[q].pc = "load" => run'[q].names = {} /\ run'[q].next = 1
    BY <2>2 DEF ExaminedInv, Moved
  <2>6. \A i \in Ids : NotUpdated \notin responses'[i].hits
    BY <1>5, SaveRows DEF ExaminedInv, Kept
  <2> QED
    BY <2>1, <2>3, <2>4, <2>5, <2>6 DEF ExaminedInv
<1>6. ASSUME NEW p \in Tasks, resolve(p) \/ delete_responses(p) PROVE ExaminedInv'
  <2>1. Ids' = Ids
    BY <1>0, <1>6, ResolveRows, DeleteRows, RowsChanged DEF Ids, delete_responses
  <2>2. Moved(p) /\ run'[p].pc \in {"idle", "delete", "alerts"}
    BY <1>0, <1>6, LeaveFields
  <2>3. ASSUME NEW i \in Ids
        PROVE  \/ responses'[i] = responses[i]
               \/ ~responses'[i].unresolved /\ responses'[i].hits = responses[i].hits
               \/ responses'[i].state = "deleted" /\ responses'[i].hits = {}
    BY <1>0, <1>6, ResolveRows, DeleteRows DEF Kept, delete_responses
  <2>4. ASSUME NEW q \in Tasks, NEW i \in Ids, q # p PROVE Covered(q, i)'
    <3>1. run'[q] = run[q] /\ Covered(q, i)
      BY <2>2, <2>4 DEF Moved, ExaminedInv
    <3> QED
      BY <2>3, <3>1, CoveredFrame
  <2>5. \A q \in Tasks : run'[q].pc = "load" => run'[q].names = {} /\ run'[q].next = 1
    BY <2>2 DEF ExaminedInv, Moved
  <2>6. \A i \in Ids : NotUpdated \notin responses'[i].hits
    BY <2>3 DEF ExaminedInv
  <2>7. \A i \in Ids : Covered(p, i)'
    BY <1>2, <2>2 DEF Filtering
  <2> QED
    BY <2>1, <2>4, <2>5, <2>6, <2>7 DEF ExaminedInv
<1>7. ASSUME NEW p \in Tasks, resolve_alerts(p) \/ Fails(p) PROVE ExaminedInv'
  <2>1. Moved(p) /\ run'[p].pc = "idle"
    BY <1>0, <1>7, LeaveFields
  <2>2. responses' = responses /\ Ids' = Ids
    BY <1>7 DEF resolve_alerts, Fails, Ids
  <2> QED
    BY <1>1, <1>2, <2>1, <2>2 DEF Filtering
<1>8. ASSUME Insert PROVE ExaminedInv'
  <2>1. run' = run
    BY <1>8 DEF Insert
  <2>2. ASSUME NEW i \in Ids'
        PROVE  \/ i \in Ids /\ responses'[i] = responses[i]
               \/ responses'[i].state = "inserted" /\ NotUpdated \notin responses'[i].hits
    BY <1>0, <1>8, InsertRows
  <2>3. ASSUME NEW q \in Tasks, NEW i \in Ids' PROVE Covered(q, i)'
    <3>1. CASE responses'[i].state = "inserted"
      BY <3>1 DEF Covered, filter, Unresolved
    <3>2. CASE i \in Ids /\ responses'[i] = responses[i]
      BY <2>1, <3>2, CoveredFrame DEF ExaminedInv
    <3> QED
      BY <2>2, <3>1, <3>2
  <2> QED
    BY <2>1, <2>2, <2>3 DEF ExaminedInv
<1>9. ASSUME unresolve \/ \E c \in Ids : Commit(c) PROVE ExaminedInv'
  <2>1. run' = run
    BY Zenon, <1>9 DEF unresolve, Commit
  <2>2. Ids' = Ids
    BY <1>0, <1>9, SlipRows, RowsChanged DEF Ids
  <2>3. ASSUME NEW i \in Ids
        PROVE  \/ responses'[i] = responses[i]
               \/ responses'[i].hits = responses[i].hits /\ responses'[i].slipped = UnderRun(i)
    BY <1>0, <1>9, SlipRows DEF Kept
  <2>4. ASSUME NEW q \in Tasks, NEW i \in Ids PROVE Covered(q, i)'
    <3>1. CASE responses'[i] = responses[i]
      BY <2>1, <3>1, CoveredFrame DEF ExaminedInv
    <3>2. CASE responses'[i].slipped = UnderRun(i)
      BY <2>1, <3>2 DEF Covered, filter, UnderRun
    <3> QED
      BY <2>3, <3>1, <3>2
  <2> QED
    BY <2>1, <2>2, <2>3, <2>4 DEF ExaminedInv
<1>10. ASSUME UNCHANGED <<responses, run>> PROVE ExaminedInv'
  <2>1. \A q \in Tasks : \A i \in Ids : Covered(q, i)'
    BY <1>10, CoveredFrame DEF ExaminedInv
  <2> QED
    BY <1>10, <2>1 DEF ExaminedInv, Ids
<1>11. ASSUME (\E f \in Filter : update(f)) \/ destroy \/ DayPasses \/ UNCHANGED vars
       PROVE  ExaminedInv'
  BY <1>10, <1>11 DEF update, destroy, DayPasses, vars
<1>12. ASSUME delete_by_hand PROVE ExaminedInv'
  <2>1. run' = run /\ Ids' = Ids
    BY <1>0, <1>12, DeleteRows, RowsChanged DEF Ids, delete_by_hand
  <2>2. \A i \in Ids : \/ responses'[i] = responses[i]
                       \/ responses'[i].state = "deleted" /\ responses'[i].hits = {}
    BY <1>0, <1>12, DeleteRows DEF delete_by_hand
  <2>3. ASSUME NEW q \in Tasks, NEW i \in Ids PROVE Covered(q, i)'
    <3>1. CASE responses'[i] = responses[i]
      BY <2>1, <3>1, CoveredFrame DEF ExaminedInv
    <3>2. CASE responses'[i].hits = {}
      BY <3>2 DEF Covered
    <3> QED
      BY <2>2, <3>1, <3>2
  <2> QED
    BY <2>1, <2>2, <2>3 DEF ExaminedInv
<1> QED
  BY <1>3, <1>4, <1>5, <1>6, <1>7, <1>8, <1>9, <1>11, <1>12 DEF Next, TaskStep

-------------------------------------------------------------------------------
\* One alert per task.

\* A step that adds no alert, and after which nobody is about to add one who was not.
LEMMA AlertFrame ==
    ASSUME AlertInv, alerts' \subseteq alerts, overlap => overlap',
           \A p \in Tasks : run'[p].pc = "save" /\ ~run'[p].alert => run'[p] = run[p],
           ~overlap' => \A p, q \in Tasks : run'[p].pc # "idle" /\ run'[q].pc # "idle" => p = q
    PROVE  AlertInv'
<1>1. \A a, b \in alerts' : a.name = b.name /\ a.source = b.source /\ (a.task = b.task \/ ~overlap')
                              => a = b
  BY DEF AlertInv
<1>2. ASSUME NEW p \in Tasks, run'[p].pc = "save", ~run'[p].alert,
             NEW a \in Open(current(p), NextSubject(p).source)'
      PROVE  a.task # p /\ overlap'
  <2>1. run'[p] = run[p]
    BY <1>2
  <2>2. current(p)' = current(p) /\ NextSubject(p)' = NextSubject(p)
    BY <2>1 DEF current, NextSubject
  <2>3. a \in Open(current(p), NextSubject(p).source)
    BY <1>2, <2>2 DEF Open
  <2> QED
    BY <1>2, <2>1, <2>3 DEF AlertInv
<1> QED
  BY <1>1, <1>2 DEF AlertInv

\* update_attributes creates an alert when the task has none, and nobody without overlap.
LEMMA AlertSave ==
    ASSUME TypeInv, AlertInv, NEW p \in Tasks, update_attributes(p)
    PROVE  AlertInv'
<1> DEFINE x == NextSubject(p)
           c == [name |-> current(p), source |-> x.source, id |-> x.id, task |-> p]
<1>1. TypeOK /\ run[p].pc = "save" /\ overlap' = overlap
  BY DEF TypeInv, update_attributes
<1>2. Moved(p) /\ run'[p].pc # "save" /\ run'[p].pc # "idle"
  BY <1>1, SaveFields, AdvanceFields
<1>3. \A q \in Tasks : run'[q].pc = "save" /\ ~run'[q].alert => run'[q] = run[q]
  BY <1>2 DEF Moved
<1>4. ~overlap => \A q, r \in Tasks : run'[q].pc # "idle" /\ run'[r].pc # "idle" => q = r
  BY <1>1, <1>2 DEF AlertInv, Moved
<1>5. CASE run[p].alert
  <2>1. alerts' = alerts
    BY <1>5 DEF update_attributes
  <2> QED
    BY <1>1, <1>3, <1>4, <2>1, AlertFrame
<1>6. CASE ~run[p].alert
  <2>1. alerts' = alerts \cup {c}
    BY <1>6 DEF update_attributes
  <2>2. c.name = current(p) /\ c.source = x.source /\ c.task = p
    OBVIOUS
  <2> HIDE DEF c
  <2>3. \A a \in Open(current(p), x.source) : a.task # p /\ overlap
    BY <1>1, <1>6 DEF AlertInv
  <2>4. ASSUME NEW a \in alerts, a.name = c.name, a.source = c.source PROVE a.task # p /\ overlap
    BY <2>2, <2>3, <2>4 DEF Open
  <2>5. \A a, b \in alerts' : a.name = b.name /\ a.source = b.source /\ (a.task = b.task \/ ~overlap)
                                => a = b
    BY <2>1, <2>2, <2>4 DEF AlertInv
  <2>6. ASSUME NEW q \in Tasks, run'[q].pc = "save", ~run'[q].alert,
               NEW a \in Open(current(q), NextSubject(q).source)'
        PROVE  a.task # q /\ overlap
    <3>1. run'[q] = run[q] /\ q # p
      BY <1>2, <1>3, <2>6
    <3>2. current(q)' = current(q) /\ NextSubject(q)' = NextSubject(q)
      BY <3>1 DEF current, NextSubject
    <3>3. overlap
      BY <1>1, <2>6, <3>1 DEF AlertInv
    <3>4. CASE a = c
      BY <2>2, <3>1, <3>3, <3>4
    <3>5. CASE a # c
      <4>1. a \in Open(current(q), NextSubject(q).source)
        BY <2>1, <2>6, <3>2, <3>5 DEF Open
      <4> QED
        BY <2>6, <3>1, <4>1 DEF AlertInv
    <3> QED
      BY <3>4, <3>5
  <2> QED
    BY <1>1, <1>4, <2>5, <2>6 DEF AlertInv
<1> QED
  BY <1>5, <1>6

\* Every step keeps what is known of the alerts.
LEMMA AlertStep ==
    ASSUME TypeInv, AlertInv, [Next]_vars
    PROVE  AlertInv'
<1>0. TypeOK
  BY DEF TypeInv
<1>1. ASSUME NEW p \in Tasks, Moved(p), run[p].pc # "idle", run'[p].pc # "save",
             alerts' \subseteq alerts, overlap' = overlap
      PROVE  AlertInv'
  <2>1. \A q \in Tasks : run'[q].pc = "save" /\ ~run'[q].alert => run'[q] = run[q]
    BY <1>1 DEF Moved
  <2>2. ~overlap => \A q, r \in Tasks : run'[q].pc # "idle" /\ run'[r].pc # "idle" => q = r
    BY <1>1 DEF AlertInv, Moved
  <2> QED
    BY <1>1, <2>1, <2>2, AlertFrame
<1>2. ASSUME NEW p \in Tasks, Start(p) PROVE AlertInv'
  <2>1. Moved(p) /\ run'[p].pc # "save"
    BY <1>2, StartFields
  <2>2. alerts' = alerts /\ overlap' = (overlap \/ \E q \in Tasks : run[q].pc # "idle")
    BY <1>2 DEF Start
  <2>3. \A q \in Tasks : run'[q].pc = "save" /\ ~run'[q].alert => run'[q] = run[q]
    BY <2>1 DEF Moved
  <2>4. ~overlap' => \A q, r \in Tasks : run'[q].pc # "idle" /\ run'[r].pc # "idle" => q = r
    BY Zenon, <2>1, <2>2 DEF Moved
  <2> QED
    BY Zenon, <2>2, <2>3, <2>4, AlertFrame
<1>3. ASSUME NEW p \in Tasks, Load(p) \/ run_filter(p) PROVE AlertInv'
  <2>1. Moved(p) /\ run'[p].pc # "save"
    BY <1>0, <1>3, LoadFields, FilterFields, AdvanceFields
  <2> QED
    BY <1>1, <1>3, <2>1 DEF Load, run_filter
<1>4. ASSUME NEW p \in Tasks, first_or_initialize(p) PROVE AlertInv'
  <2>1. /\ Moved(p) /\ run'[p].next = run[p].next /\ run'[p].found = run[p].found
        /\ run'[p].alert = (Open(current(p), NextSubject(p).source) # {})
    BY <1>0, <1>4, FindFields
  <2>2. UNCHANGED <<alerts, overlap>> /\ run[p].pc = "find"
    BY <1>4 DEF first_or_initialize
  <2>3. ~overlap => \A q, r \in Tasks : run'[q].pc # "idle" /\ run'[r].pc # "idle" => q = r
    BY <2>1, <2>2 DEF AlertInv, Moved
  <2>4. ASSUME NEW q \in Tasks, run'[q].pc = "save", ~run'[q].alert,
               NEW a \in Open(current(q), NextSubject(q).source)'
        PROVE  a.task # q /\ overlap
    <3>1. current(q)' = current(q) /\ NextSubject(q)' = NextSubject(q)
      BY <2>1 DEF current, NextSubject, Moved
    <3>2. a \in Open(current(q), NextSubject(q).source)
      BY <2>2, <2>4, <3>1 DEF Open
    <3>3. CASE q = p
      BY Zenon, <2>1, <2>4, <3>2, <3>3
    <3>4. CASE q # p
      <4>1. run'[q] = run[q]
        BY <2>1, <3>4 DEF Moved
      <4> QED
        BY <2>4, <3>2, <4>1 DEF AlertInv
    <3> QED
      BY <3>3, <3>4
  <2> QED
    BY <2>2, <2>3, <2>4 DEF AlertInv
<1>5. ASSUME NEW p \in Tasks, resolve(p) \/ delete_responses(p) \/ resolve_alerts(p) \/ Fails(p)
      PROVE  AlertInv'
  <2>1. Moved(p) /\ run'[p].pc # "save"
    BY <1>0, <1>5, LeaveFields
  <2>2. run[p].pc # "idle" /\ alerts' \subseteq alerts /\ overlap' = overlap
    BY <1>5 DEF resolve, delete_responses, resolve_alerts, Fails
  <2> QED
    BY <1>1, <2>1, <2>2
<1>6. ASSUME UNCHANGED <<run, overlap>>, alerts' \subseteq alerts PROVE AlertInv'
  BY Zenon, <1>6, AlertFrame DEF AlertInv
<1>7. ASSUME \/ Insert \/ unresolve \/ (\E c \in Ids : Commit(c)) \/ (\E f \in Filter : update(f))
             \/ delete_by_hand \/ DayPasses \/ UNCHANGED vars
      PROVE  AlertInv'
  <2>1. UNCHANGED <<run, overlap, alerts>>
    BY Zenon, <1>7 DEF Insert, unresolve, Commit, update, delete_by_hand, DayPasses, vars
  <2> QED
    BY <1>6, <2>1
<1>8. ASSUME destroy PROVE AlertInv'
  <2>1. UNCHANGED <<run, overlap>> /\ alerts' \subseteq alerts
    BY Zenon, <1>8 DEF destroy
  <2> QED
    BY <1>6, <2>1
<1> QED
  BY <1>2, <1>3, <1>4, <1>5, <1>7, <1>8, AlertSave DEF Next, TaskStep

-------------------------------------------------------------------------------
\* The theorems.

\* It all holds when nothing has happened.
LEMMA Start0 ==
    ASSUME Init
    PROVE  TypeInv /\ ExaminedInv /\ LostInv /\ AlertInv
<1>1. NoRun \in RunRec
  BY FiltersAssumption DEF NoRun, RunRec, Filtering, FiltersAssumption
<1>2. NoRun.pc = "idle" /\ Ids = {} /\ Cron \subseteq Tasks
  BY FiltersAssumption DEF NoRun, Init, Ids, FiltersAssumption
<1>3. \A p \in Tasks : run[p] = NoRun
  BY DEF Init
<1>4. TypeOK
  <2>1. responses \in Seq(Response) /\ Len(responses) <= MaxResponses
    BY FiltersAssumption DEF Init, FiltersAssumption
  <2>2. run \in [Tasks -> RunRec]
    BY <1>1 DEF Init
  <2>3. \A p \in Tasks : run[p].pc \notin Filtering
    BY <1>2, <1>3 DEF Filtering
  <2>4. alerts \subseteq Alert /\ active \subseteq Filter /\ overlap \in BOOLEAN
    BY Zenon DEF Init
  <2>5. day \in 0..MaxDay /\ fails \in 0..MaxFails /\ changes \in 0..MaxChanges
    BY FiltersAssumption DEF Init, FiltersAssumption
  <2> QED
    BY <2>1, <2>2, <2>3, <2>4, <2>5 DEF TypeOK
<1>5. TypeInv
  BY <1>2, <1>3, <1>4 DEF TypeInv
<1>6. ExaminedInv
  BY <1>2, <1>3 DEF ExaminedInv
<1>7. LostInv
  BY <1>2, <1>3 DEF LostInv
<1>8. AlertInv
  BY <1>2, <1>3 DEF Init, AlertInv
<1> QED
  BY <1>5, <1>6, <1>7, <1>8

\* The state of tasks, responses and alerts is well formed: a task that filters has
\* an id to filter by (filter.rb 29-39).
THEOREM FiltersTypeCorrect == Spec => []TypeOK
<1>1. TypeInv => TypeOK
  BY DEF TypeInv
<1> QED
  BY <1>1, Start0, TypeStep, PTL DEF Spec

\* cron:daily deletes what was there on the day before it began, at most.
LEMMA DeletedDone ==
    ASSUME TypeInv, LostInv, [Next]_vars, NEW p \in Cron, NEW i \in Ids,
           run[p].pc = "delete", run'[p].pc = "alerts",
           responses[i].state = "stored", responses'[i].state = "deleted"
    PROVE  responses[i].done \in {"seen", "missed"}
<1>0. TypeOK /\ p \in Tasks
  BY FiltersAssumption DEF TypeInv, FiltersAssumption
<1>1. run' # run /\ run'[p] # run[p] /\ responses' # responses
  OBVIOUS
<1>2. ASSUME NEW q \in Tasks, q # p PROVE ~Moved(q)
  BY <1>0, <1>1, <1>2 DEF Moved
<1>3. ~(\E q \in Tasks : Start(q) \/ Fails(q))
  BY <1>1 DEF Start, Fails
<1>4. \A q \in Tasks : TaskStep(q) => q = p
  BY Zenon, <1>0, <1>2, LoadFields, FilterFields, AdvanceFields, FindFields, SaveFields, LeaveFields
     DEF TaskStep
<1>5. TaskStep(p) => delete_responses(p)
  BY DEF TaskStep, Load, run_filter, first_or_initialize, update_attributes, resolve, resolve_alerts
<1>6. ~Insert /\ ~unresolve /\ ~(\E c \in Ids : Commit(c)) /\ ~(\E f \in Filter : update(f))
      /\ ~delete_by_hand /\ ~destroy /\ ~DayPasses /\ ~UNCHANGED vars
  BY Zenon, <1>1 DEF Insert, unresolve, Commit, update, delete_by_hand, destroy, DayPasses, vars
<1>7. delete_responses(p)
  BY <1>3, <1>4, <1>5, <1>6 DEF Next
<1>8. responses[i].at < day - 1
  BY <1>0, <1>7, DeleteRows DEF delete_responses
<1>9. responses[i] \in Response /\ run[p] \in RunRec /\ day \in Int
  BY <1>0, Rows DEF TypeOK
<1>10. /\ responses[i].at \in Int /\ run[p].day \in Int
       /\ responses[i].done \in {"no", "missed", "seen"}
  BY <1>9 DEF Response, RunRec
<1>11. responses[i].at < run[p].day
  BY <1>8, <1>9, <1>10 DEF LostInv
<1>12. responses[i].done # "no"
  BY <1>11 DEF LostInv, Filtering
<1> QED
  BY <1>10, <1>12

\* However often cron:daily fails, whoever runs the filters besides it and whatever is
\* unresolved again, cron:daily deletes no response that has not been through a run of the
\* filters (cron.rake 15-30), which have seen it unless it slipped under that run.
THEOREM NoneLost == Spec => NothingLost
<1> DEFINE Step == \A p \in Cron, i \in Ids :
         (/\ run[p].pc = "delete" /\ run'[p].pc = "alerts"
          /\ responses[i].state = "stored" /\ responses'[i].state = "deleted")
           => responses[i].done \in {"seen", "missed"}
<1>1. TypeInv /\ LostInv /\ [Next]_vars => Step
  BY DeletedDone
<1>2. (Spec => [][Step]_vars) => (Spec => NothingLost)
  BY DEF NothingLost
<1> HIDE DEF Step
<1>3. Spec => [][Step]_vars
  BY <1>1, Start0, TypeStep, LostStep, PTL DEF Spec
<1> QED
  BY <1>2, <1>3

\* What is known of the alerts leaves each task one for a filter and a source.
LEMMA AtMostOne ==
    ASSUME TypeInv, AlertInv
    PROVE  OneAlert
<1>1. TypeOK /\ IsFiniteSet(Tasks)
  BY FiltersAssumption DEF TypeInv, FiltersAssumption
<1> SUFFICES ASSUME NEW a \in alerts
             PROVE  Cardinality(Open(a.name, a.source)) <= IF overlap THEN Cardinality(Tasks) ELSE 1
  BY DEF OneAlert
<1> DEFINE S == Open(a.name, a.source)
           g == [b \in S |-> b.task]
<1>2. CASE overlap
  <2>1. g \in [S -> Tasks]
    BY <1>1 DEF Open, TypeOK, Alert
  <2>2. \A b, c \in S : g[b] = g[c] => b = c
    BY DEF Open, AlertInv
  <2>3. g \in Injection(S, Tasks)
    BY <2>1, <2>2 DEF Injection, IsInjective
  <2> HIDE DEF g, S
  <2>4. Cardinality(S) <= Cardinality(Tasks)
    BY <1>1, <2>3, FS_Injection
  <2> QED
    BY <1>2, <2>4 DEF S
<1>3. CASE ~overlap
  <2>1. S = {a}
    BY <1>3 DEF Open, AlertInv
  <2> HIDE DEF S
  <2>2. Cardinality(S) = 1
    BY <2>1, FS_Singleton
  <2> QED
    BY <1>3, <2>2 DEF S
<1> QED
  BY <1>2, <1>3

\* first_or_initialize (filter.rb 126-134) leaves one unresolved alert for a filter, a
\* source and a work if tasks do not overlap, and at most one for each task if they do.
THEOREM AlertsUnique == Spec => []OneAlert
BY Start0, TypeStep, AlertStep, AtMostOne, PTL DEF Spec

\* A step that resolves a response comes after the alerts for it.
LEMMA ResolvedExamined ==
    ASSUME TypeInv, ExaminedInv, [Next]_vars, NEW p \in Tasks, NEW i \in Ids,
           run[p].pc = "resolve", run'[p] # run[p], ~responses[i].slipped, responses[i].unresolved,
           responses'[i].state = "stored", ~responses'[i].unresolved
    PROVE  responses[i].hits \cap run[p].names \subseteq responses[i].raised
<1>0. TypeOK
  BY DEF TypeInv
<1>1. run' # run /\ responses'[i] # responses[i]
  OBVIOUS
<1>2. ASSUME NEW q \in Tasks, q # p PROVE ~Moved(q)
  BY <1>2 DEF Moved
<1>3. ~(\E q \in Tasks : Start(q))
  <2>1. ~Start(p)
    BY DEF Start
  <2> QED
    BY <1>2, <2>1, StartFields
<1>4. \A q \in Tasks : TaskStep(q) => q = p
  BY Zenon, <1>0, <1>2, LoadFields, FilterFields, AdvanceFields, FindFields, SaveFields, LeaveFields
     DEF TaskStep
<1>5. TaskStep(p) => resolve(p)
  BY DEF TaskStep, Load, run_filter, first_or_initialize, update_attributes, delete_responses,
         resolve_alerts
<1>6. ~(\E q \in Tasks : Fails(q))
  BY <1>1 DEF Fails
<1>7. ~Insert /\ ~unresolve /\ ~(\E c \in Ids : Commit(c)) /\ ~(\E f \in Filter : update(f))
      /\ ~delete_by_hand /\ ~destroy /\ ~DayPasses /\ ~UNCHANGED vars
  BY Zenon, <1>1 DEF Insert, unresolve, Commit, update, delete_by_hand, destroy, DayPasses, vars
<1>8. resolve(p)
  BY <1>3, <1>4, <1>5, <1>6, <1>7 DEF Next
<1>9. i \in filter(run[p].id)
  BY <1>0, <1>1, <1>8, ResolveRows
<1> QED
  BY Zenon, <1>9 DEF ExaminedInv, Covered, Pending, Filtering

\* No response is resolved before each active filter has raised its alert for it
\* (filter.rb 29-51), unless it slipped under the filters while they ran.
THEOREM AllExamined == Spec => Examined
<1> DEFINE Step == \A p \in Tasks, i \in Ids :
         (/\ run[p].pc = "resolve" /\ run'[p] # run[p] /\ ~responses[i].slipped
          /\ responses[i].unresolved /\ responses'[i].state = "stored" /\ ~responses'[i].unresolved)
           => responses[i].hits \cap run[p].names \subseteq responses[i].raised
<1>1. TypeInv /\ ExaminedInv /\ [Next]_vars => Step
  BY ResolvedExamined
<1>2. (Spec => [][Step]_vars) => (Spec => Examined)
  BY DEF Examined
<1> HIDE DEF Step
<1>3. Spec => [][Step]_vars
  BY <1>1, Start0, TypeStep, ExaminedStep, PTL DEF Spec
<1> QED
  BY <1>2, <1>3

===============================================================================

--------------------------- MODULE RetrievalProofs ---------------------------
(***************************************************************************)
(* Theorems about Retrieval, for all works, processes, jobs and bounds.     *)
(***************************************************************************)
EXTENDS Retrieval, TLAPS

\* The events of the source's state machine save a state.
LEMMA EventsType ==
    ASSUME NEW st \in State, NEW a, NEW b
    PROVE  /\ install(st, a) \in State
           /\ uninstall(st, a) \in State
           /\ activate(st, a, b) \in State
           /\ inactivate(st) \in State
           /\ work_after_check(st, a, b) \in State
           /\ wait_after_check(st) \in State
           /\ wait(st) \in State
  BY DEF State, ActiveState, active, install, uninstall, activate, inactivate,
         work_after_check, wait_after_check, wait

\* What is left of a job, in the form a job has.
LEMMA RecordTypes ==
    /\ Idle \in RakeRec
    /\ NoJob \in JobRec
    /\ \A S \in SUBSET Row : [NoJob EXCEPT !.pc = "pending", !.ids = S] \in JobRec
    /\ \A S \in SUBSET Row : [NoJob EXCEPT !.pc = "failed", !.ids = S] \in JobRec
  BY Zenon DEF Idle, NoJob, RakeRec, JobRec, Task, Running, State

LEMMA AtRestPc == Idle.pc = "idle" /\ NoJob.pc = "free"
  BY DEF Idle, NoJob

LEMMA FirstOrCreateType ==
    ASSUME alerts \in 0..MaxAlerts, first_or_create_alert
    PROVE  alerts' \in 0..MaxAlerts
  BY RetrievalAssumption DEF RetrievalAssumption, first_or_create_alert

LEMMA AdvanceType ==
    ASSUME TypeOK, NEW j \in Jobs, Advance(j)
    PROVE  job' \in [Jobs -> JobRec]
<1> DEFINE left == job[j].todo \ job[j].cur
           pc == IF left = {} THEN "after" ELSE "check"
<1>1. job' = [job EXCEPT ![j] = [job[j] EXCEPT !.todo = left, !.cur = {}, !.mark = FALSE,
                                               !.pc = pc]]
  BY DEF Advance, TypeOK
<1>2. [job[j] EXCEPT !.todo = left, !.cur = {}, !.mark = FALSE, !.pc = pc] \in JobRec
  BY ZenonT(40) DEF TypeOK, JobRec, Running
<1> QED
  BY <1>1, <1>2 DEF TypeOK

LEMMA TransitionType ==
    ASSUME TypeOK, NEW to \in State, Transition(to)
    PROVE  TypeOK'
<1>1. inserts' \in 0..MaxInserts
  BY RetrievalAssumption DEF RetrievalAssumption, TypeOK, Transition, create_retrievals
<1>2. queued' \subseteq rows'
  BY DEF TypeOK, Transition, remove_queues, rowVars
<1> QED
  BY <1>1, <1>2 DEF TypeOK, Transition, rowVars, faultVars

LEMMA AdminType == ASSUME TypeOK, AdminNext PROVE TypeOK'
<1>1. CASE AdminInstall
  BY Zenon, <1>1, TransitionType, EventsType DEF AdminInstall, TypeOK
<1>2. CASE AdminActivate
  BY <1>2, TransitionType, EventsType DEF AdminActivate, TypeOK
<1>3. CASE AdminInactivate
  BY <1>3, TransitionType, EventsType DEF AdminInactivate, TypeOK
<1>4. CASE AdminUninstall
  BY <1>4 DEF AdminUninstall, remove_all_retrievals, TypeOK, faultVars
<1>5. CASE AdminUninstalled
  <2>1. admin \in State
    BY <1>5 DEF AdminUninstalled, TypeOK
  <2>2. uninstall(admin, rows = {}) \in State
    BY <2>1, EventsType
  <2>3. state' \in State
    BY <1>5, <2>2 DEF AdminUninstalled, TypeOK
  <2> QED
    BY <1>5, <2>3 DEF AdminUninstalled, TypeOK, rowVars, faultVars
<1> QED
  BY <1>1, <1>2, <1>3, <1>4, <1>5 DEF AdminNext

LEMMA InsertType == ASSUME TypeOK, insert_retrievals PROVE TypeOK'
<1> DEFINE missing == {w \in Works : ~\E r \in rows : r[1] = w}
           new == {<<w, gen[w] + 1>> : w \in missing}
<1>1. \A w \in missing : gen[w] + 1 \in 1..MaxGen
  BY RetrievalAssumption DEF RetrievalAssumption, insert_retrievals, TypeOK
<1>2. new \subseteq Row
  BY <1>1 DEF Row
<1>3. gen' \in [Works -> 0..MaxGen]
  BY <1>1, RetrievalAssumption DEF RetrievalAssumption, insert_retrievals, TypeOK
<1>4. rows' = rows \cup new /\ stale' = stale \cup new
  BY DEF insert_retrievals
<1>5. inserts' \in 0..MaxInserts
  BY RetrievalAssumption DEF RetrievalAssumption, insert_retrievals, TypeOK
<1> QED
  BY <1>2, <1>3, <1>4, <1>5 DEF insert_retrievals, TypeOK, faultVars

LEMMA RakeType ==
    ASSUME TypeOK, NEW k \in Rakes,
           RakeStep(k) \/ RakeCrash(k) \/ \E t \in Task : RakeStart(k, t)
    PROVE  TypeOK'
<1>1. ASSUME NEW t \in Task, RakeStart(k, t) PROVE TypeOK'
  BY Zenon, <1>1, RecordTypes DEF RakeStart, Idle, RakeRec, TypeOK, rowVars, faultVars
<1>2. CASE queue_all_works(k)
  <2>1. \A S \in Selection(rake[k].task) : S \subseteq Row
    BY DEF Selection, stale_scope, TypeOK
  <2>2. PICK todo \in Selection(rake[k].task) :
          rake' = [rake EXCEPT ![k] = [rake[k] EXCEPT !.todo = todo,
                                         !.pc = IF todo = {} THEN "wait" ELSE "mark"]]
    BY Zenon, <1>2 DEF queue_all_works, TypeOK
  <2> DEFINE pc == IF todo = {} THEN "wait" ELSE "mark"
  <2>3. todo \in SUBSET Row /\ rake[k] \in RakeRec /\ pc \in {"wait", "mark"}
    BY <2>1 DEF TypeOK
  <2>4. [rake[k] EXCEPT !.todo = todo, !.pc = pc] \in RakeRec
    <3> HIDE DEF pc
    <3> QED
      BY Zenon, <2>3 DEF RakeRec
  <2>5. rake' \in [Rakes -> RakeRec]
    BY <2>2, <2>4 DEF TypeOK
  <2> QED
    BY <1>2, <2>5 DEF queue_all_works, TypeOK, rowVars, faultVars
<1>3. CASE RakeNoRow(k)
  BY Zenon, <1>3, RecordTypes DEF RakeNoRow, TypeOK, rowVars, faultVars
<1>4. CASE RakeReset(k)
  BY Zenon, <1>4, RecordTypes DEF RakeReset, TypeOK, rowVars, faultVars
<1>5. CASE RakeWait(k)
  BY Zenon, <1>5, RecordTypes, EventsType DEF RakeWait, TypeOK, rowVars, faultVars
<1>6. CASE RakeMark(k)
  <2>1. PICK batch \in SUBSET rake[k].todo :
          /\ queued' = queued \cup (batch \cap rows)
          /\ rake' = [rake EXCEPT ![k] = [rake[k] EXCEPT !.pc = "enqueue", !.batch = batch,
                                                        !.todo = rake[k].todo \ batch]]
    BY Zenon, <1>6 DEF RakeMark, TypeOK
  <2>2. rake' \in [Rakes -> RakeRec]
    BY ZenonT(40), <2>1 DEF RakeRec, TypeOK
  <2> QED
    BY <1>6, <2>1, <2>2 DEF RakeMark, TypeOK, rowVars, faultVars
<1>7. CASE perform_later(k)
  <2>1. rake' \in [Rakes -> RakeRec]
    BY ZenonT(40), <1>7, RecordTypes DEF perform_later, RakeRec, TypeOK
  <2>2. rake[k].batch \in SUBSET Row
    BY DEF RakeRec, TypeOK
  <2>3. [NoJob EXCEPT !.pc = "pending", !.ids = rake[k].batch] \in JobRec
    BY Zenon, <2>2, RecordTypes
  <2>4. job' \in [Jobs -> JobRec]
    BY <1>7, <2>3 DEF perform_later, TypeOK
  <2> QED
    BY <1>7, <2>1, <2>4 DEF perform_later, TypeOK, rowVars, faultVars
<1>8. CASE RakeCrash(k)
  <2>1. crashes' \in 0..MaxCrashes
    BY <1>8, RetrievalAssumption DEF RetrievalAssumption, RakeCrash, TypeOK
  <2> QED
    BY Zenon, <1>8, <2>1, RecordTypes DEF RakeCrash, TypeOK, rowVars
<1> QED
  BY <1>1, <1>2, <1>3, <1>4, <1>5, <1>6, <1>7, <1>8 DEF RakeStep

LEMMA JobType ==
    ASSUME TypeOK, NEW j \in Jobs, JobStep(j) \/ JobRequeue(j) \/ JobCrash(j)
    PROVE  TypeOK'
<1>0. Raised(j) \in JobRec
  BY Zenon, RecordTypes DEF Raised, TypeOK, JobRec
<1>1. CASE JobStart(j)
  <2>1. [job[j] EXCEPT !.pc = "check", !.todo = job[j].ids, !.src = state] \in JobRec
    BY Zenon DEF JobRec, Running, TypeOK
  <2> QED
    BY <1>1, <2>1 DEF JobStart, TypeOK, rowVars, faultVars
<1>2. CASE JobCheck(j)
  <2> DEFINE to == work_after_check(job[j].src, check_for_failures, check_for_rate_limits)
  <2>1. to \in State
    BY Zenon, EventsType DEF TypeOK, JobRec
  <2>2. alerts' \in 0..MaxAlerts
    BY <1>2, FirstOrCreateType DEF JobCheck, TypeOK
  <2>3. job' \in [Jobs -> JobRec]
    <3>1. [job[j] EXCEPT !.pc = "load", !.src = to] \in JobRec
      BY Zenon, <2>1 DEF JobRec, Running, TypeOK
    <3> HIDE DEF to
    <3>2. job' = [job EXCEPT ![j] = IF to = "working" THEN [job[j] EXCEPT !.pc = "load", !.src = to]
                                    ELSE Raised(j)]
      BY <1>2 DEF JobCheck, to
    <3> QED
      BY <1>0, <3>1, <3>2 DEF TypeOK
  <2>4. queued' \subseteq rows'
    BY <1>2 DEF JobCheck, remove_queues, TypeOK, rowVars
  <2> QED
    BY <1>2, <2>1, <2>2, <2>3, <2>4 DEF JobCheck, TypeOK, rowVars, faultVars
<1>3. CASE JobLoad(j)
  <2>0. PICK r \in job[j].todo :
          job' = [job EXCEPT ![j] = IF r \in rows
                                    THEN [job[j] EXCEPT !.pc = "request", !.cur = {r},
                                                        !.mark = (r \in queued)]
                                    ELSE Raised(j)]
    BY Zenon, <1>3 DEF JobLoad
  <2> DEFINE mark == r \in queued
  <2>1. r \in Row /\ job[j] \in JobRec /\ mark \in BOOLEAN
    BY DEF TypeOK, JobRec
  <2>2. [job[j] EXCEPT !.pc = "request", !.cur = {r}, !.mark = mark] \in JobRec
    <3> HIDE DEF mark
    <3> QED
      BY Zenon, <2>1 DEF JobRec, Running
  <2>3. job' \in [Jobs -> JobRec]
    BY <2>0, <2>2, <1>0 DEF TypeOK
  <2> QED
    BY <1>3, <2>3 DEF JobLoad, TypeOK, rowVars, faultVars
<1>4. CASE JobSkipped(j)
  BY <1>4, AdvanceType, FirstOrCreateType DEF JobSkipped, TypeOK, rowVars, faultVars
<1>5. CASE perform_get_data(j)
  BY <1>5, AdvanceType DEF perform_get_data, TypeOK, faultVars
<1>6. CASE JobRaise(j)
  BY <1>6, <1>0 DEF JobRaise, TypeOK, rowVars, faultVars
<1>7. CASE JobFailed(j)
  BY Zenon, <1>7, FirstOrCreateType, RecordTypes DEF JobFailed, TypeOK, rowVars, faultVars
<1>8. CASE after_perform(j)
  BY <1>8 DEF after_perform, JobRec, Running, TypeOK, rowVars, faultVars
<1>9. CASE JobWait(j)
  BY Zenon, <1>9, EventsType, RecordTypes DEF JobWait, JobRec, TypeOK, rowVars, faultVars
<1>10. CASE JobRequeue(j)
  <2>1. job' \in [Jobs -> JobRec]
    BY Zenon, <1>10, RecordTypes DEF JobRequeue, JobRec, TypeOK
  <2> QED
    BY <1>10, <2>1, RetrievalAssumption DEF RetrievalAssumption, JobRequeue, TypeOK, rowVars
<1>11. CASE JobCrash(j)
  <2>1. crashes' \in 0..MaxCrashes
    BY <1>11, RetrievalAssumption DEF RetrievalAssumption, JobCrash, TypeOK
  <2> QED
    BY Zenon, <1>11, <2>1, RecordTypes DEF JobCrash, TypeOK, rowVars
<1> QED
  BY <1>1, <1>2, <1>3, <1>4, <1>5, <1>6, <1>7, <1>8, <1>9, <1>10, <1>11 DEF JobStep

LEMMA EnvironmentType ==
    ASSUME TypeOK, TimePasses \/ AlertsAge \/ CacheEvicted
    PROVE  TypeOK'
<1>1. CASE TimePasses
  BY <1>1 DEF TimePasses, TypeOK, faultVars
<1>2. CASE AlertsAge
  BY <1>2, RetrievalAssumption DEF RetrievalAssumption, AlertsAge, TypeOK, rowVars, faultVars
<1>3. CASE CacheEvicted
  BY Zenon, <1>3 DEF CacheEvicted, TypeOK, rowVars, faultVars
<1> QED
  BY <1>1, <1>2, <1>3

\* Every reachable state is well typed; in particular only rows that exist are
\* marked or stale, whatever jobs do with rows deleted under them.
THEOREM TypeCorrect == Spec => []TypeOK
<1>1. Init => TypeOK
  <2> SUFFICES ASSUME Init PROVE TypeOK
    OBVIOUS
  <2>1. gen \in [Works -> 0..MaxGen] /\ alerts \in 0..MaxAlerts /\ inserts \in 0..MaxInserts
        /\ requeues \in 0..MaxRequeues /\ crashes \in 0..MaxCrashes
    BY RetrievalAssumption DEF RetrievalAssumption, Init
  <2>2. rake \in [Rakes -> RakeRec] /\ job \in [Jobs -> JobRec]
    BY Zenon, RecordTypes DEF Init
  <2> QED
    BY Zenon, <2>1, <2>2 DEF Init, TypeOK, State
<1>2. TypeOK /\ [Next]_vars => TypeOK'
  <2> SUFFICES ASSUME TypeOK, [Next]_vars PROVE TypeOK'
    OBVIOUS
  <2>1. CASE UNCHANGED vars
    BY <2>1 DEF vars, TypeOK
  <2> QED
    BY <2>1, AdminType, InsertType, RakeType, JobType, EnvironmentType DEF Next
<1> QED
  BY <1>1, <1>2, PTL DEF Spec

-------------------------------------------------------------------------------
\* Refinement.

\* What a step that changes one job, or one rake process, does to held.
LEMMA JobHeld ==
    ASSUME TypeOK, NEW j \in Jobs, NEW rec, job' = [job EXCEPT ![j] = rec], rake' = rake
    PROVE  held' = [held EXCEPT ![j] = IF rec.pc \notin {"free", "wait"} THEN rec.ids ELSE {}]
  BY Zenon DEF TypeOK, held, Owner, Holds

LEMMA RakeHeld ==
    ASSUME TypeOK, NEW k \in Rakes, NEW rec, rake' = [rake EXCEPT ![k] = rec], job' = job
    PROVE  held' = [held EXCEPT ![k] = IF rec.pc = "enqueue" THEN rec.batch ELSE {}]
  BY Zenon, RetrievalAssumption DEF RetrievalAssumption, TypeOK, held, Owner, Holds

LEMMA HeldValue ==
    ASSUME TypeOK
    PROVE  /\ held \in [Owner -> SUBSET Row]
           /\ \A j \in Jobs : held[j] = IF Holds(j) THEN job[j].ids ELSE {}
           /\ \A k \in Rakes : held[k] = IF rake[k].pc = "enqueue" THEN rake[k].batch ELSE {}
<1>1. \A j \in Jobs : job[j].ids \in SUBSET Row
  BY DEF TypeOK, JobRec
<1>2. \A k \in Rakes : rake[k].batch \in SUBSET Row
  BY DEF TypeOK, RakeRec
<1> QED
  BY <1>1, <1>2, RetrievalAssumption DEF RetrievalAssumption, held, Owner

LEMMA Unmarks ==
    ASSUME queued' \subseteq queued, held' = held, crashes' = crashes
    PROVE  Queue!Next
  BY DEF Queue!Next, Queue!Unmark

LEMMA HeldSame == ASSUME job' = job, rake' = rake PROVE held' = held
  BY DEF held, Holds

\* A job that keeps its arguments and does not pass the last statement on its
\* marks holds what it held.
LEMMA JobKeeps ==
    ASSUME TypeOK, NEW j \in Jobs, Holds(j), NEW rec, job' = [job EXCEPT ![j] = rec],
           rake' = rake, rec.pc \notin {"free", "wait"}, rec.ids = job[j].ids
    PROVE  held' = held
<1>1. held' = [held EXCEPT ![j] = rec.ids]
  BY Zenon, JobHeld
<1>2. held[j] = rec.ids
  BY HeldValue
<1> QED
  BY <1>1, <1>2, HeldValue

LEMMA RakeKeeps ==
    ASSUME TypeOK, NEW k \in Rakes, rake[k].pc # "enqueue", NEW rec,
           rake' = [rake EXCEPT ![k] = rec], job' = job, rec.pc # "enqueue"
    PROVE  held' = held
<1>1. held' = [held EXCEPT ![k] = {}]
  BY Zenon, RakeHeld
<1>2. held[k] = {}
  BY HeldValue
<1> QED
  BY <1>1, <1>2, HeldValue

LEMMA AdminSimulates == ASSUME TypeOK, AdminNext PROVE Queue!Next
<1>1. ASSUME NEW to, Transition(to) PROVE Queue!Next
  BY <1>1, Unmarks, HeldSame DEF Transition, remove_queues, faultVars
<1>2. CASE AdminUninstall
  BY <1>2, Unmarks, HeldSame DEF AdminUninstall, faultVars
<1>3. CASE AdminUninstalled
  BY <1>3, Unmarks, HeldSame DEF AdminUninstalled, faultVars
<1> QED
  BY <1>1, <1>2, <1>3 DEF AdminNext, AdminInstall, AdminActivate, AdminInactivate

\* Rake steps that leave held as it is: all but marking, enqueueing and crashing.
LEMMA RakeHolds ==
    ASSUME TypeOK, NEW k \in Rakes,
           \/ \E t \in Task : RakeStart(k, t)
           \/ queue_all_works(k) \/ RakeNoRow(k) \/ RakeReset(k) \/ RakeWait(k)
    PROVE  held' = held
<1>1. ASSUME NEW t \in Task, RakeStart(k, t) PROVE held' = held
  <2> DEFINE rec == [Idle EXCEPT !.pc = "select", !.task = t]
  <2>1. rec.pc = "select" /\ rake' = [rake EXCEPT ![k] = rec]
    BY Zenon, <1>1 DEF RakeStart, Idle
  <2> HIDE DEF rec
  <2> QED
    BY Zenon, <1>1, <2>1, RakeKeeps DEF RakeStart
<1>2. CASE queue_all_works(k)
  <2>1. PICK todo \in Selection(rake[k].task) :
          rake' = [rake EXCEPT ![k] = [rake[k] EXCEPT !.todo = todo,
                                         !.pc = IF todo = {} THEN "wait" ELSE "mark"]]
    BY Zenon, <1>2 DEF queue_all_works, TypeOK
  <2> DEFINE rec == [rake[k] EXCEPT !.todo = todo, !.pc = IF todo = {} THEN "wait" ELSE "mark"]
  <2>2. rec.pc # "enqueue" /\ rake' = [rake EXCEPT ![k] = rec]
    BY <2>1 DEF TypeOK, RakeRec
  <2> HIDE DEF rec
  <2> QED
    BY Zenon, <1>2, <2>2, RakeKeeps DEF queue_all_works
<1>3. CASE RakeNoRow(k) \/ RakeReset(k) \/ RakeWait(k)
  <2>1. Idle.pc # "enqueue"
    BY DEF Idle
  <2> QED
    BY <1>3, <2>1, RakeKeeps DEF RakeNoRow, RakeReset, RakeWait
<1> QED
  BY <1>1, <1>2, <1>3

\* Marking takes a slice ...
LEMMA MarkHolds ==
    ASSUME TypeOK, NEW k \in Rakes, RakeMark(k)
    PROVE  \E batch \in SUBSET rake[k].todo :
             /\ queued' = queued \cup (batch \cap rows)
             /\ rake' = [rake EXCEPT ![k] = [rake[k] EXCEPT !.pc = "enqueue", !.batch = batch,
                                                           !.todo = rake[k].todo \ batch]]
             /\ batch \in SUBSET Row
             /\ held[k] = {}
             /\ held' = [held EXCEPT ![k] = batch]
<1>1. PICK batch \in SUBSET rake[k].todo :
        /\ queued' = queued \cup (batch \cap rows)
        /\ rake' = [rake EXCEPT ![k] = [rake[k] EXCEPT !.pc = "enqueue", !.batch = batch,
                                                      !.todo = rake[k].todo \ batch]]
  BY Zenon DEF RakeMark, TypeOK
<1> DEFINE rec == [rake[k] EXCEPT !.pc = "enqueue", !.batch = batch,
                                  !.todo = rake[k].todo \ batch]
<1>2. /\ rec.pc = "enqueue" /\ rec.batch = batch /\ batch \in SUBSET Row
      /\ rake' = [rake EXCEPT ![k] = rec]
  BY <1>1 DEF TypeOK, RakeRec
<1>3. held' = [held EXCEPT ![k] = batch]
  <2> HIDE DEF rec
  <2> QED
    BY Zenon, <1>2, RakeHeld DEF RakeMark
<1>4. held[k] = {}
  BY HeldValue DEF RakeMark
<1> QED
  BY Zenon, <1>1, <1>2, <1>3, <1>4

\* ... and enqueueing gives it to a job.
LEMMA LaterHolds ==
    ASSUME TypeOK, NEW k \in Rakes, perform_later(k)
    PROVE  \E j \in Jobs :
             /\ job[j].pc = "free"
             /\ job' = [job EXCEPT ![j] = [NoJob EXCEPT !.pc = "pending", !.ids = rake[k].batch]]
             /\ held[k] = rake[k].batch /\ held[j] = {} /\ k # j
             /\ held' = [held EXCEPT ![j] = held[k], ![k] = {}]
<1>1. PICK j \in Jobs :
        /\ job[j].pc = "free"
        /\ job' = [job EXCEPT ![j] = [NoJob EXCEPT !.pc = "pending", !.ids = rake[k].batch]]
  BY Zenon DEF perform_later
<1>2. held[k] = rake[k].batch /\ held[j] = {} /\ k # j
  BY <1>1, HeldValue, RetrievalAssumption DEF perform_later, Holds, RetrievalAssumption
<1> DEFINE rec == IF rake[k].todo = {} THEN Idle ELSE [rake[k] EXCEPT !.pc = "mark", !.batch = {}]
<1>3. rec.pc # "enqueue" /\ rake' = [rake EXCEPT ![k] = rec]
  BY DEF perform_later, TypeOK, RakeRec, Idle
<1> HIDE DEF rec
<1> DEFINE new == [NoJob EXCEPT !.pc = "pending", !.ids = rake[k].batch]
<1>4. new.pc = "pending" /\ new.ids = rake[k].batch /\ job' = [job EXCEPT ![j] = new]
  BY <1>1 DEF NoJob
<1> HIDE DEF new
<1>5. held' = [held EXCEPT ![j] = held[k], ![k] = {}]
  BY ZenonT(40), <1>2, <1>3, <1>4, RetrievalAssumption
     DEF RetrievalAssumption, TypeOK, held, Owner, Holds
<1> QED
  BY Zenon, <1>1, <1>2, <1>5

LEMMA RakeSimulates ==
    ASSUME TypeOK, NEW k \in Rakes,
           RakeStep(k) \/ RakeCrash(k) \/ \E t \in Task : RakeStart(k, t)
    PROVE  Queue!Next
<1>0. k \in Owner /\ \A j \in Jobs : j \in Owner
  BY DEF Owner
<1>1. CASE \/ \E t \in Task : RakeStart(k, t)
           \/ queue_all_works(k) \/ RakeNoRow(k) \/ RakeReset(k) \/ RakeWait(k)
  BY Zenon, <1>1, RakeHolds, Unmarks
     DEF RakeStart, queue_all_works, RakeNoRow, RakeReset, RakeWait, faultVars
<1>2. CASE RakeMark(k)
  <2>1. PICK batch \in SUBSET rake[k].todo :
          /\ queued' = queued \cup (batch \cap rows)
          /\ batch \in SUBSET Row
          /\ held[k] = {}
          /\ held' = [held EXCEPT ![k] = batch]
    BY Zenon, <1>2, MarkHolds
  <2>2. queued' \in {queued \cup M : M \in SUBSET batch}
    BY Zenon, <2>1
  <2>3. crashes' = crashes
    BY <1>2 DEF RakeMark, faultVars
  <2>4. Queue!Take(k)
    BY Zenon, <2>1, <2>2, <2>3 DEF Queue!Take
  <2> QED
    BY <1>0, <2>4 DEF Queue!Next
<1>3. CASE perform_later(k)
  <2>1. PICK j \in Jobs : /\ held[j] = {} /\ k # j
                         /\ held' = [held EXCEPT ![j] = held[k], ![k] = {}]
    BY Zenon, <1>3, LaterHolds
  <2>2. Queue!Give(k, j)
    BY <1>3, <2>1 DEF Queue!Give, perform_later, faultVars
  <2> QED
    BY <1>0, <2>1, <2>2 DEF Queue!Next
<1>4. CASE RakeCrash(k)
  <2>1. held' = [held EXCEPT ![k] = {}]
    BY Zenon, <1>4, AtRestPc, RakeHeld DEF RakeCrash
  <2>2. Queue!Lose(k)
    BY <1>4, <2>1 DEF Queue!Lose, RakeCrash
  <2> QED
    BY <1>0, <2>2 DEF Queue!Next
<1> QED
  BY <1>1, <1>2, <1>3, <1>4 DEF RakeStep

\* Job steps that leave held as it is ...
LEMMA JobHolds ==
    ASSUME TypeOK, NEW j \in Jobs,
           \/ JobStart(j) \/ JobCheck(j) \/ JobLoad(j) \/ JobSkipped(j) \/ perform_get_data(j)
           \/ (JobRaise(j) /\ Holds(j)) \/ JobWait(j)
    PROVE  held' = held
<1>0. /\ Raised(j).pc = "failed" /\ Raised(j).ids = job[j].ids
      /\ job[j] \in JobRec
  BY DEF NoJob, Raised, TypeOK
<1>1. CASE JobStart(j)
  <2> DEFINE rec == [job[j] EXCEPT !.pc = "check", !.todo = job[j].ids, !.src = state]
  <2>1. rec.pc = "check" /\ rec.ids = job[j].ids /\ job' = [job EXCEPT ![j] = rec]
    BY <1>0, <1>1 DEF JobStart, JobRec
  <2> HIDE DEF rec
  <2> QED
    BY Zenon, <1>1, <2>1, JobKeeps DEF JobStart, Holds
<1>2. CASE JobCheck(j)
  <2> DEFINE to == work_after_check(job[j].src, check_for_failures, check_for_rate_limits)
             rec == IF to = "working" THEN [job[j] EXCEPT !.pc = "load", !.src = to] ELSE Raised(j)
  <2>1. /\ rec.pc \in {"load", "failed"} /\ rec.ids = job[j].ids
        /\ job' = [job EXCEPT ![j] = rec]
    BY <1>0, <1>2 DEF JobCheck, JobRec
  <2> HIDE DEF rec
  <2> QED
    BY Zenon, <1>2, <2>1, JobKeeps DEF JobCheck, Holds
<1>3. CASE JobLoad(j)
  <2>0. PICK r \in job[j].todo :
          job' = [job EXCEPT ![j] = IF r \in rows
                                    THEN [job[j] EXCEPT !.pc = "request", !.cur = {r},
                                                        !.mark = (r \in queued)]
                                    ELSE Raised(j)]
    BY Zenon, <1>3 DEF JobLoad
  <2> DEFINE rec == IF r \in rows
                    THEN [job[j] EXCEPT !.pc = "request", !.cur = {r}, !.mark = (r \in queued)]
                    ELSE Raised(j)
  <2>1. /\ rec.pc \in {"request", "failed"} /\ rec.ids = job[j].ids
        /\ job' = [job EXCEPT ![j] = rec]
    BY <1>0, <2>0 DEF JobRec
  <2> HIDE DEF rec
  <2> QED
    BY Zenon, <1>3, <2>1, JobKeeps DEF JobLoad, Holds
<1>4. CASE JobSkipped(j) \/ perform_get_data(j)
  <2> DEFINE left == job[j].todo \ job[j].cur
             rec == [job[j] EXCEPT !.todo = left, !.cur = {}, !.mark = FALSE,
                                   !.pc = IF left = {} THEN "after" ELSE "check"]
  <2>1. rec.pc \in {"after", "check"} /\ rec.ids = job[j].ids /\ job' = [job EXCEPT ![j] = rec]
    BY <1>0, <1>4 DEF JobSkipped, perform_get_data, Advance, JobRec
  <2> HIDE DEF rec
  <2> QED
    BY Zenon, <1>4, <2>1, JobKeeps DEF JobSkipped, perform_get_data, Holds
<1>5. CASE JobRaise(j) /\ Holds(j)
  BY Zenon, <1>0, <1>5, JobKeeps DEF JobRaise
<1>6. CASE JobWait(j)
  <2>1. held' = [held EXCEPT ![j] = {}] /\ held[j] = {}
    BY Zenon, <1>6, AtRestPc, JobHeld, HeldValue DEF JobWait, Holds
  <2> QED
    BY <2>1, HeldValue
<1> QED
  BY <1>1, <1>2, <1>3, <1>4, <1>5, <1>6

\* ... and those with which a job lets go of its rows.
LEMMA JobEnds ==
    ASSUME TypeOK, NEW j \in Jobs, JobFailed(j) \/ after_perform(j)
    PROVE  held[j] = job[j].ids /\ held' = [held EXCEPT ![j] = {}]
<1>1. held[j] = job[j].ids
  BY HeldValue DEF JobFailed, after_perform, Holds
<1>2. CASE JobFailed(j)
  BY Zenon, <1>1, <1>2, AtRestPc, JobHeld DEF JobFailed
<1>3. CASE after_perform(j)
  <2> DEFINE rec == [job[j] EXCEPT !.pc = "wait"]
  <2>1. rec.pc = "wait" /\ job' = [job EXCEPT ![j] = rec]
    BY <1>3 DEF after_perform, TypeOK, JobRec
  <2> HIDE DEF rec
  <2> QED
    BY Zenon, <1>1, <1>3, <2>1, JobHeld DEF after_perform
<1> QED
  BY <1>2, <1>3

\* A job that let go of its rows takes them again when it is run again.
LEMMA JobRetakes ==
    ASSUME TypeOK, NEW j \in Jobs, ~Holds(j), held' = [held EXCEPT ![j] = job[j].ids],
           queued' = queued, crashes' = crashes
    PROVE  Queue!Next
<1>1. held[j] = {} /\ job[j].ids \in SUBSET Row /\ queued' = queued \cup {} /\ j \in Owner
  BY HeldValue DEF TypeOK, JobRec, Owner
<1>2. Queue!Take(j)
  BY Zenon, <1>1 DEF Queue!Take
<1> QED
  BY <1>1, <1>2 DEF Queue!Next

LEMMA JobSimulates ==
    ASSUME TypeOK, NEW j \in Jobs, JobStep(j) \/ JobRequeue(j) \/ JobCrash(j)
    PROVE  Queue!Next
<1>0. j \in Owner
  BY DEF Owner
<1>1. CASE \/ JobStart(j) \/ JobCheck(j) \/ JobLoad(j) \/ JobSkipped(j) \/ perform_get_data(j)
           \/ (JobRaise(j) /\ Holds(j)) \/ JobWait(j)
  <2>1. queued' \subseteq queued /\ crashes' = crashes
    BY Zenon, <1>1 DEF JobStart, JobCheck, remove_queues, JobLoad, JobSkipped, perform_get_data,
                JobRaise, JobWait, faultVars
  <2> QED
    BY <1>1, <2>1, JobHolds, Unmarks
<1>2. CASE JobRaise(j) /\ ~Holds(j)
  <2>1. Raised(j).pc = "failed" /\ Raised(j).ids = job[j].ids
    BY DEF Raised, NoJob
  <2>2. held' = [held EXCEPT ![j] = job[j].ids]
    BY Zenon, <1>2, <2>1, JobHeld DEF JobRaise
  <2> QED
    BY Zenon, <1>2, <2>2, JobRetakes DEF JobRaise, faultVars
<1>3. CASE JobFailed(j) \/ after_perform(j)
  <2>1. Queue!Finish(j)
    BY <1>3, JobEnds DEF Queue!Finish, JobFailed, after_perform, faultVars
  <2> QED
    BY <1>0, <2>1 DEF Queue!Next
<1>4. CASE JobRequeue(j)
  <2> DEFINE rec == [NoJob EXCEPT !.pc = "pending", !.ids = job[j].ids]
  <2>1. rec.pc = "pending" /\ rec.ids = job[j].ids /\ job' = [job EXCEPT ![j] = rec]
    BY <1>4 DEF JobRequeue, NoJob
  <2> HIDE DEF rec
  <2>2. held' = [held EXCEPT ![j] = job[j].ids]
    BY Zenon, <1>4, <2>1, JobHeld DEF JobRequeue
  <2>3. CASE Holds(j)
    BY Zenon, <1>4, <2>1, <2>3, JobKeeps, Unmarks DEF JobRequeue
  <2>4. CASE ~Holds(j)
    BY Zenon, <1>4, <2>2, <2>4, JobRetakes DEF JobRequeue
  <2> QED
    BY <2>3, <2>4
<1>5. CASE JobCrash(j)
  <2>1. held' = [held EXCEPT ![j] = {}]
    BY Zenon, <1>5, AtRestPc, JobHeld DEF JobCrash
  <2>2. Queue!Lose(j)
    BY <1>5, <2>1 DEF Queue!Lose, JobCrash
  <2> QED
    BY <1>0, <2>2 DEF Queue!Next
<1> QED
  BY <1>1, <1>2, <1>3, <1>4, <1>5 DEF JobStep

\* Retrieval implements StatusQueue: marking, enqueueing, processing, failing
\* and crashing are steps of the abstract queue (property ImplementsQueue).
THEOREM Refinement == Spec => ImplementsQueue
<1>1. Init => Queue!Init
  BY DEF Init, Queue!Init, held, Owner, Holds, Idle, NoJob
<1>2. TypeOK /\ [Next]_vars => [Queue!Next]_(Queue!vars)
  <2> SUFFICES ASSUME TypeOK, [Next]_vars PROVE [Queue!Next]_(Queue!vars)
    OBVIOUS
  <2>1. CASE insert_retrievals \/ TimePasses \/ AlertsAge \/ CacheEvicted
    BY <2>1, HeldSame, Unmarks
       DEF insert_retrievals, TimePasses, AlertsAge, CacheEvicted, faultVars
  <2>2. CASE UNCHANGED vars
    BY <2>2, HeldSame DEF vars, Queue!vars
  <2> QED
    BY <2>1, <2>2, AdminSimulates, RakeSimulates, JobSimulates DEF Next
<1> QED
  BY <1>1, <1>2, TypeCorrect, PTL DEF Spec, ImplementsQueue, Queue!Spec

-------------------------------------------------------------------------------
\* Safety.

QueueTheorems == INSTANCE StatusQueueProofs WITH marked <- queued, lost <- crashes

\* No queued_at outlives the job or rake task that is to clear it, as long as no
\* process was killed: what the abstract queue promises, carried over by the
\* refinement.
THEOREM MarksHaveJobs == Spec => []MarkHasJob
<1>1. Queue!Init => QueueTheorems!Init
  BY DEF Queue!Init, QueueTheorems!Init
<1>2. [Queue!Next]_(Queue!vars) => [QueueTheorems!Next]_(QueueTheorems!vars)
  BY Zenon DEF Queue!Next, Queue!Take, Queue!Finish, Queue!Lose, Queue!Give, Queue!Unmark, Queue!vars,
         QueueTheorems!Next, QueueTheorems!Take, QueueTheorems!Finish, QueueTheorems!Lose,
         QueueTheorems!Give, QueueTheorems!Unmark, QueueTheorems!vars
<1>3. Queue!Spec => []QueueTheorems!MarkHasOwner
  BY <1>1, <1>2, QueueTheorems!MarksOwned, PTL DEF Queue!Spec, QueueTheorems!Spec
<1>4. TypeOK /\ QueueTheorems!MarkHasOwner => MarkHasJob
  BY HeldValue DEF QueueTheorems!MarkHasOwner, MarkHasJob, HeldRows, MarkedByRake, Owner
<1> QED
  BY <1>3, <1>4, Refinement, TypeCorrect, PTL DEF ImplementsQueue

\* A job that is past a check goes on with a copy whose state is working.
CheckedCopy ==
    \A j \in Jobs : job[j].pc \in {"load", "request", "after", "wait"} => job[j].src = "working"

LEMMA CheckedCopyHolds == Spec => []CheckedCopy
<1>1. Init => CheckedCopy
  BY DEF Init, CheckedCopy, NoJob
<1>2. TypeOK /\ CheckedCopy /\ [Next]_vars => CheckedCopy'
  <2> SUFFICES ASSUME TypeOK, CheckedCopy, [Next]_vars PROVE CheckedCopy'
    OBVIOUS
  <2>0. ASSUME NEW j \in Jobs, NEW rec, job' = [job EXCEPT ![j] = rec],
               rec.pc \in {"load", "request", "after", "wait"} => rec.src = "working"
        PROVE  CheckedCopy'
    BY <2>0 DEF TypeOK, CheckedCopy
  <2>1. CASE job' = job
    BY <2>1 DEF CheckedCopy
  <2>2. ASSUME NEW k \in Rakes, perform_later(k) PROVE CheckedCopy'
    BY Zenon, <2>0, <2>2 DEF perform_later, NoJob
  <2>3. ASSUME NEW j \in Jobs, JobStep(j) \/ JobRequeue(j) \/ JobCrash(j) PROVE CheckedCopy'
    <3>0. Raised(j).pc = "failed" /\ NoJob.pc = "free" /\ job[j] \in JobRec
      BY DEF Raised, NoJob, TypeOK
    <3>1. CASE JobStart(j)
      BY Zenon, <2>0, <3>0, <3>1 DEF JobStart, JobRec
    <3>2. CASE JobCheck(j)
      BY Zenon, <2>0, <3>0, <3>2 DEF JobCheck, JobRec
    <3>3. CASE JobLoad(j)
      BY <2>0, <3>0, <3>3 DEF JobLoad, JobRec, CheckedCopy
    <3>4. CASE JobSkipped(j) \/ perform_get_data(j)
      BY Zenon, <2>0, <3>0, <3>4 DEF JobSkipped, perform_get_data, Advance, JobRec, CheckedCopy
    <3>5. CASE JobRaise(j) \/ JobFailed(j) \/ JobWait(j) \/ JobCrash(j)
      BY <2>0, <3>0, <3>5 DEF JobRaise, JobFailed, JobWait, JobCrash
    <3>6. CASE after_perform(j)
      BY <2>0, <3>0, <3>6 DEF after_perform, JobRec, CheckedCopy
    <3>7. CASE JobRequeue(j)
      BY Zenon, <2>0, <3>0, <3>7 DEF JobRequeue, NoJob
    <3> QED
      BY <2>3, <3>1, <3>2, <3>3, <3>4, <3>5, <3>6, <3>7 DEF JobStep
  <2> QED
    BY Zenon, <2>1, <2>2, <2>3
       DEF Next, AdminNext, AdminInstall, AdminActivate, AdminInactivate, Transition,
           AdminUninstall, AdminUninstalled, insert_retrievals, RakeStep, RakeStart, RakeCrash,
           queue_all_works, RakeNoRow, RakeReset, RakeWait, RakeMark, TimePasses, AlertsAge,
           CacheEvicted, vars
<1> QED
  BY <1>1, <1>2, TypeCorrect, PTL DEF Spec

\* A source at rest stays at rest until the admin acts, for any number of jobs
\* left in the queue: each of them loads the source as it is now, writes back
\* the state it found and stops.
THEOREM Rests == Spec => RestsUntilAdmin
<1>1. TypeOK /\ CheckedCopy /\ [Next]_vars
        => [AtRest /\ ~AdminNext => AtRest' /\ state' = state]_vars
  <2> SUFFICES ASSUME TypeOK, CheckedCopy, Next, AtRest, ~AdminNext
               PROVE  AtRest' /\ state' = state
    OBVIOUS
  <2> USE DEF AtRest
  <2>0. /\ ~active(state) /\ queued = {}
        /\ \A k \in Rakes : rake[k].pc = "idle"
        /\ \A j \in Jobs : job[j].pc \in Running => job[j].src = state
    BY DEF OtherCopy
  <2>1. ASSUME job' = job, rake' = rake, state' = state, queued' = queued
        PROVE  AtRest' /\ state' = state
    BY <2>1 DEF OtherCopy
  <2>2. ASSUME NEW k \in Rakes, RakeStep(k) \/ RakeCrash(k) \/ \E t \in Task : RakeStart(k, t)
        PROVE  FALSE
    BY Zenon, <2>0, <2>2 DEF RakeStep, RakeCrash, RakeStart, queue_all_works, RakeNoRow, RakeReset,
                      RakeWait, RakeMark, perform_later
  <2>3. ASSUME NEW j \in Jobs, NEW rec, job' = [job EXCEPT ![j] = rec], rake' = rake,
               state' = state, queued' = {}, rec.pc \in Running => rec.src = state
        PROVE  AtRest' /\ state' = state
    BY <2>0, <2>3 DEF OtherCopy, TypeOK
  <2>4. ASSUME NEW j \in Jobs, JobStep(j) \/ JobRequeue(j) \/ JobCrash(j)
        PROVE  AtRest' /\ state' = state
    <3>0. /\ Raised(j).pc \notin Running /\ NoJob.pc \notin Running
          /\ [NoJob EXCEPT !.pc = "pending", !.ids = job[j].ids].pc \notin Running
          /\ job[j] \in JobRec
      BY DEF Raised, NoJob, Running, TypeOK
    <3>1. CASE JobStart(j)
      <4> DEFINE rec == [job[j] EXCEPT !.pc = "check", !.todo = job[j].ids, !.src = state]
      <4>1. rec.src = state /\ job' = [job EXCEPT ![j] = rec]
        BY <3>0, <3>1 DEF JobStart, JobRec
      <4> HIDE DEF rec
      <4> QED
        BY Zenon, <2>0, <2>3, <3>1, <4>1 DEF JobStart
    <3>2. CASE JobCheck(j)
      <4>1. job[j].src = state
        BY <2>0, <3>2 DEF JobCheck, Running
      <4>2. work_after_check(job[j].src, check_for_failures, check_for_rate_limits) = state
        BY <2>0, <4>1 DEF work_after_check
      <4>3. state # "working"
        BY <2>0 DEF active, ActiveState
      <4>4. state' = state /\ queued' = {} /\ rake' = rake /\ job' = [job EXCEPT ![j] = Raised(j)]
        BY <2>0, <3>2, <4>2, <4>3 DEF JobCheck, remove_queues
      <4> QED
        BY Zenon, <2>3, <3>0, <4>4
    <3>3. ASSUME job[j].pc \in {"load", "request", "after", "wait"} PROVE FALSE
      BY <2>0, <3>3 DEF CheckedCopy, Running, active, ActiveState
    <3>4. CASE JobRaise(j)
      BY Zenon, <2>0, <2>3, <3>0, <3>4 DEF JobRaise
    <3>5. CASE JobFailed(j)
      BY Zenon, <2>0, <2>3, <3>0, <3>5 DEF JobFailed
    <3>6. CASE JobRequeue(j)
      BY Zenon, <2>0, <2>3, <3>0, <3>6 DEF JobRequeue
    <3>7. CASE JobCrash(j)
      BY Zenon, <2>0, <2>3, <3>0, <3>7 DEF JobCrash
    <3> QED
      BY Zenon, <2>4, <3>1, <3>2, <3>3, <3>4, <3>5, <3>6, <3>7
         DEF JobStep, JobLoad, JobSkipped, perform_get_data, after_perform, JobWait
  <2> QED
    BY <2>1, <2>2, <2>4 DEF Next, insert_retrievals, TimePasses, AlertsAge, CacheEvicted
<1> QED
  BY <1>1, TypeCorrect, CheckedCopyHolds, PTL DEF Spec, RestsUntilAdmin

-------------------------------------------------------------------------------
\* When no row is processed by two jobs, for all works, jobs and batch sizes.

\* What uniqueness rests on: one process runs queue:stale and no other queue
\* task, the admin neither inactivates nor uninstalls, a job is not run again,
\* does not fail after it cleared its marks, and ends before its rows are stale.
StaleAlone ==
    /\ Tasks = {"stale"}
    /\ \A k, l \in Rakes : k = l
    /\ Events \cap {"inactivate", "uninstall"} = {}
    /\ MaxRequeues = 0
    /\ "wait" \notin RaiseAt
    /\ SlowStaleness

\* What is held exists, is marked unless it was just updated, and is held once.
HeldOnce ==
    /\ \A o \in Owner : held[o] \subseteq rows
    /\ \A o \in Owner : held[o] \cap stale \subseteq queued
    /\ \A o, p \in Owner : o # p => held[o] \cap held[p] = {}

\* What a rake task is about to mark is held by nobody; what it marked is marked.
RakeInv ==
    \A k \in Rakes :
        /\ rake[k].task = "stale"
        /\ rake[k].todo \subseteq rows
        /\ \A o \in Owner : rake[k].todo \cap held[o] = {}
        /\ rake[k].pc = "enqueue" => rake[k].batch \subseteq queued

\* A job has rows to process only while it holds them.
JobOK(rec) ==
    /\ rec.cur \subseteq rec.todo /\ rec.todo \subseteq rec.ids
    /\ rec.pc \in {"free", "after", "wait", "failed"} => rec.todo = {}
    /\ rec.pc \in Running => active(rec.src)

JobInv == \A j \in Jobs : JobOK(job[j])

\* Processes are there only for an active source.
ActiveInv ==
    (\E j \in Jobs : job[j].pc # "free") \/ (\E k \in Rakes : rake[k].pc # "idle")
        => active(state)

UniqueInv == HeldOnce /\ RakeInv /\ JobInv /\ ActiveInv

\* The invariant gives uniqueness: what a job has still to process it holds.
LEMMA Uniqueness == ASSUME TypeOK, UniqueInv PROVE OneJobPerRow
<1>1. \A j \in Jobs : Unprocessed(j) \subseteq held[j]
  BY HeldValue DEF UniqueInv, JobInv, JobOK, Unprocessed, Holds
<1>2. \A i, j \in Jobs : i # j => held[i] \cap held[j] = {}
  BY DEF UniqueInv, HeldOnce, Owner
<1> QED
  BY <1>1, <1>2 DEF OneJobPerRow

-------------------------------------------------------------------------------
\* Steps that touch neither what is held nor the marks.

LEMMA KeepHeldOnce ==
    ASSUME HeldOnce, held' = held, queued' = queued, rows \subseteq rows',
           stale' \subseteq stale \cup (rows' \ rows)
    PROVE  HeldOnce'
  BY DEF HeldOnce

LEMMA KeepRakeInv ==
    ASSUME RakeInv, held' = held, rake' = rake, rows \subseteq rows', queued \subseteq queued'
    PROVE  RakeInv'
  BY DEF RakeInv

LEMMA OneJobInv ==
    ASSUME TypeOK, JobInv, NEW j \in Jobs, NEW rec, job' = [job EXCEPT ![j] = rec], JobOK(rec)
    PROVE  JobInv'
  BY DEF TypeOK, JobInv

LEMMA SameJobInv == ASSUME JobInv, job' = job PROVE JobInv'
  BY DEF JobInv, JobOK

LEMMA RestJobOK == JobOK(NoJob) /\ \A j \in Jobs : JobOK(Raised(j))
  BY DEF JobOK, NoJob, Raised, Running

LEMMA AdminUnique ==
    ASSUME TypeOK, UniqueInv, AdminInstall \/ AdminActivate
    PROVE  UniqueInv'
<1>0. job' = job /\ rake' = rake /\ rows' = rows
  BY DEF AdminInstall, AdminActivate, Transition, rowVars
<1>1. ~active(state)
  BY DEF AdminInstall, AdminActivate, activate, active, ActiveState
<1>2. (\A j \in Jobs : job[j].pc = "free") /\ (\A k \in Rakes : rake[k].pc = "idle")
  BY <1>1 DEF UniqueInv, ActiveInv
<1>3. held' = held /\ \A o \in Owner : held[o] = {}
  BY <1>0, <1>2, HeldSame, HeldValue DEF Holds, Owner
<1>4. HeldOnce'
  BY <1>3 DEF HeldOnce
<1>5. RakeInv'
  BY <1>0, <1>2, <1>3 DEF UniqueInv, RakeInv
<1>6. JobInv'
  BY <1>0, SameJobInv DEF UniqueInv
<1>7. ActiveInv'
  BY <1>0, <1>2 DEF ActiveInv
<1> QED
  BY <1>4, <1>5, <1>6, <1>7 DEF UniqueInv

LEMMA EnvironmentUnique ==
    ASSUME StaleAlone, TypeOK, UniqueInv,
           insert_retrievals \/ TimePasses \/ AlertsAge \/ CacheEvicted \/ UNCHANGED vars
    PROVE  UniqueInv'
<1>0. /\ job' = job /\ rake' = rake /\ state' = state /\ queued' = queued /\ rows \subseteq rows'
      /\ held' = held
  BY HeldSame DEF insert_retrievals, TimePasses, AlertsAge, CacheEvicted, vars, rowVars
<1>1. HeldOnce'
  <2>1. CASE insert_retrievals
    <3> DEFINE new == {<<w, gen[w] + 1>> : w \in {v \in Works : ~\E r \in rows : r[1] = v}}
    <3>1. rows' = rows \cup new /\ stale' = stale \cup new
      BY <2>1 DEF insert_retrievals
    <3>2. \A n \in new : n \notin rows
      OBVIOUS
    <3> QED
      BY <1>0, <3>1, <3>2, KeepHeldOnce DEF UniqueInv
  <2>2. CASE TimePasses
    <3>1. PICK r \in rows \ stale : /\ \A j \in Jobs : r \notin job[j].ids
                                    /\ stale' = stale \cup {r}
      BY <2>2 DEF TimePasses, StaleAlone
    <3>2. \A o \in Owner : r \in held[o] => r \in queued
      BY <3>1, HeldValue DEF UniqueInv, RakeInv, Owner
    <3> QED
      BY <1>0, <3>1, <3>2 DEF UniqueInv, HeldOnce
  <2>3. CASE AlertsAge \/ CacheEvicted \/ UNCHANGED vars
    BY <1>0, <2>3, KeepHeldOnce DEF UniqueInv, AlertsAge, CacheEvicted, vars, rowVars
  <2> QED
    BY <2>1, <2>2, <2>3
<1>2. RakeInv' /\ JobInv'
  BY <1>0, KeepRakeInv, SameJobInv DEF UniqueInv
<1>3. ActiveInv'
  BY <1>0 DEF UniqueInv, ActiveInv
<1> QED
  BY <1>1, <1>2, <1>3 DEF UniqueInv

-------------------------------------------------------------------------------
\* The rake task.

LEMMA OneRakeInv ==
    ASSUME TypeOK, NEW k \in Rakes, NEW rec, rake' = [rake EXCEPT ![k] = rec],
           \A l \in Rakes : l = k,
           rec.task = "stale", rec.todo \subseteq rows',
           \A o \in Owner : rec.todo \cap held'[o] = {},
           rec.pc = "enqueue" => rec.batch \subseteq queued'
    PROVE  RakeInv'
  BY DEF TypeOK, RakeInv

LEMMA RakeUnique ==
    ASSUME StaleAlone, TypeOK, UniqueInv, NEW k \in Rakes,
           RakeStep(k) \/ RakeCrash(k) \/ \E t \in Task : RakeStart(k, t)
    PROVE  UniqueInv'
<1>0. /\ rows' = rows /\ stale' = stale
      /\ \A l \in Rakes : l = k
      /\ rake[k] \in RakeRec /\ rake[k].task = "stale"
      /\ k \in Owner
  BY Zenon DEF RakeStep, RakeCrash, RakeStart, queue_all_works, RakeNoRow, RakeReset, RakeWait, RakeMark,
         perform_later, rowVars, StaleAlone, TypeOK, UniqueInv, RakeInv, Owner
<1>a. Idle.task = "stale" /\ Idle.todo = {} /\ Idle.pc = "idle"
  BY DEF Idle
<1>1. active(state')
  BY Zenon DEF RakeStep, RakeCrash, RakeStart, queue_all_works, RakeNoRow, RakeReset, RakeWait, RakeMark,
         perform_later, UniqueInv, ActiveInv, wait, active, ActiveState
<1>2. ActiveInv'
  BY <1>1 DEF ActiveInv
<1>3. CASE \E t \in Task : RakeStart(k, t)
  <2>1. PICK t \in Task : RakeStart(k, t)
    BY <1>3
  <2> DEFINE rec == [Idle EXCEPT !.pc = "select", !.task = t]
  <2>2. /\ rake' = [rake EXCEPT ![k] = rec]
        /\ rec.task = "stale" /\ rec.todo = {} /\ rec.pc = "select"
    BY Zenon, <2>1 DEF RakeStart, Idle, StaleAlone
  <2> HIDE DEF rec
  <2>3. RakeInv'
    BY Zenon, <1>0, <2>2, OneRakeInv
  <2>4. held' = held /\ job' = job /\ queued' = queued
    BY Zenon, <1>3, <2>1, RakeHolds DEF RakeStart
  <2> QED
    BY Zenon, <1>0, <1>2, <2>3, <2>4, KeepHeldOnce, SameJobInv DEF UniqueInv
<1>4. CASE queue_all_works(k)
  <2>0. held' = held /\ job' = job /\ queued' = queued
    BY Zenon, <1>4, RakeHolds DEF queue_all_works
  <2>1. rake' = [rake EXCEPT ![k] = [rake[k] EXCEPT !.todo = stale_scope,
                                       !.pc = IF stale_scope = {} THEN "wait" ELSE "mark"]]
    BY <1>0, <1>4 DEF queue_all_works, Selection
  <2> DEFINE rec == [rake[k] EXCEPT !.todo = stale_scope,
                                    !.pc = IF stale_scope = {} THEN "wait" ELSE "mark"]
  <2>2. /\ rake' = [rake EXCEPT ![k] = rec]
        /\ rec.task = "stale" /\ rec.todo = stale_scope /\ rec.pc # "enqueue"
    BY <1>0, <2>1 DEF RakeRec
  <2>3. stale_scope \subseteq rows /\ \A o \in Owner : stale_scope \cap held[o] = {}
    BY DEF stale_scope, not_queued, UniqueInv, HeldOnce
  <2>4. RakeInv'
    <3> HIDE DEF rec
    <3> QED
      BY Zenon, <1>0, <2>0, <2>2, <2>3, OneRakeInv
  <2> QED
    BY Zenon, <1>0, <1>2, <2>0, <2>4, KeepHeldOnce, SameJobInv DEF UniqueInv
<1>5. CASE RakeWait(k)
  <2>1. held' = held /\ job' = job /\ queued' = queued /\ rake' = [rake EXCEPT ![k] = Idle]
    BY Zenon, <1>5, RakeHolds DEF RakeWait
  <2>2. RakeInv'
    BY Zenon, <1>0, <1>a, <2>1, OneRakeInv
  <2> QED
    BY <1>0, <1>2, <2>1, <2>2, KeepHeldOnce, SameJobInv DEF UniqueInv
<1>6. CASE RakeMark(k)
  <2>1. PICK batch \in SUBSET rake[k].todo :
          /\ queued' = queued \cup (batch \cap rows)
          /\ rake' = [rake EXCEPT ![k] = [rake[k] EXCEPT !.pc = "enqueue", !.batch = batch,
                                                        !.todo = rake[k].todo \ batch]]
          /\ held' = [held EXCEPT ![k] = batch]
    BY Zenon, <1>6, MarkHolds
  <2>2. /\ rake[k].todo \subseteq rows /\ batch \subseteq queued'
        /\ \A o \in Owner : rake[k].todo \cap held[o] = {}
    BY <2>1 DEF UniqueInv, RakeInv
  <2>3. \A o \in Owner : held'[o] = IF o = k THEN batch ELSE held[o]
    BY <2>1, HeldValue
  <2>4. HeldOnce'
    BY <1>0, <2>1, <2>2, <2>3 DEF UniqueInv, HeldOnce
  <2> DEFINE rec == [rake[k] EXCEPT !.pc = "enqueue", !.batch = batch,
                                    !.todo = rake[k].todo \ batch]
  <2>5. /\ rake' = [rake EXCEPT ![k] = rec]
        /\ rec.task = "stale" /\ rec.todo = rake[k].todo \ batch /\ rec.batch = batch
    BY <1>0, <2>1 DEF RakeRec
  <2>6. RakeInv'
    <3> HIDE DEF rec
    <3> QED
      <4>1. rec.todo \subseteq rows' /\ rec.batch \subseteq queued'
        BY <1>0, <2>2, <2>5
      <4>2. \A o \in Owner : rec.todo \cap held'[o] = {}
        BY <2>2, <2>3, <2>5
      <4> QED
        BY Zenon, <1>0, <2>5, <4>1, <4>2, OneRakeInv
  <2> QED
    BY <1>2, <1>6, <2>4, <2>6, SameJobInv DEF UniqueInv, RakeMark
<1>7. CASE perform_later(k)
  <2>1. PICK j \in Jobs :
          /\ job' = [job EXCEPT ![j] = [NoJob EXCEPT !.pc = "pending", !.ids = rake[k].batch]]
          /\ k # j
          /\ held' = [held EXCEPT ![j] = held[k], ![k] = {}]
    BY Zenon, <1>7, LaterHolds
  <2>2. \A o \in Owner : held'[o] = IF o = k THEN {} ELSE IF o = j THEN held[k] ELSE held[o]
    BY <2>1, HeldValue
  <2>3. queued' = queued
    BY <1>7 DEF perform_later
  <2>4. HeldOnce'
    BY <1>0, <2>2, <2>3 DEF UniqueInv, HeldOnce
  <2> DEFINE rec == IF rake[k].todo = {} THEN Idle
                    ELSE [rake[k] EXCEPT !.pc = "mark", !.batch = {}]
  <2>5. /\ rake' = [rake EXCEPT ![k] = rec]
        /\ rec.task = "stale" /\ rec.todo = rake[k].todo /\ rec.pc # "enqueue"
    BY Zenon, <1>0, <1>a, <1>7 DEF perform_later, RakeRec
  <2>6. \A o \in Owner : rake[k].todo \cap held'[o] = {}
    BY Zenon, <1>0, <2>2 DEF UniqueInv, RakeInv
  <2>7. RakeInv'
    <3> HIDE DEF rec
    <3> QED
      <4>1. rec.todo \subseteq rows'
        BY <1>0, <2>5 DEF UniqueInv, RakeInv
      <4>2. \A o \in Owner : rec.todo \cap held'[o] = {}
        BY <2>5, <2>6
      <4> QED
        BY Zenon, <1>0, <2>5, <4>1, <4>2, OneRakeInv
  <2>8. JobOK([NoJob EXCEPT !.pc = "pending", !.ids = rake[k].batch])
    BY DEF JobOK, NoJob, Running
  <2>9. JobInv'
    BY Zenon, <2>1, <2>8, OneJobInv DEF UniqueInv
  <2> QED
    BY <1>2, <2>4, <2>7, <2>9 DEF UniqueInv
<1>8. CASE RakeCrash(k)
  <2>1. held' = [held EXCEPT ![k] = {}]
    BY Zenon, <1>8, AtRestPc, RakeHeld DEF RakeCrash
  <2>2. \A o \in Owner : held'[o] = IF o = k THEN {} ELSE held[o]
    BY <2>1, HeldValue
  <2>3. queued' = queued /\ job' = job /\ rake' = [rake EXCEPT ![k] = Idle]
    BY <1>8 DEF RakeCrash
  <2>4. HeldOnce'
    BY Zenon, <1>0, <2>2, <2>3 DEF UniqueInv, HeldOnce
  <2>5. RakeInv'
    BY Zenon, <1>0, <1>a, <2>3, OneRakeInv
  <2> QED
    BY <1>2, <2>3, <2>4, <2>5, SameJobInv DEF UniqueInv
<1> QED
  BY <1>0, <1>3, <1>4, <1>5, <1>6, <1>7, <1>8 DEF RakeStep, RakeNoRow, RakeReset

-------------------------------------------------------------------------------
\* Jobs.

LEMMA JobUnique ==
    ASSUME StaleAlone, TypeOK, UniqueInv, NEW j \in Jobs,
           JobStep(j) \/ JobRequeue(j) \/ JobCrash(j)
    PROVE  UniqueInv'
<1>0. /\ rake' = rake /\ rows' = rows /\ j \in Owner
      /\ job[j] \in JobRec /\ JobOK(job[j])
  BY Zenon DEF JobStep, JobRequeue, JobCrash, JobStart, JobCheck, JobLoad, JobSkipped, perform_get_data,
         JobRaise, JobFailed, after_perform, JobWait, rowVars, TypeOK, UniqueInv, JobInv, Owner
<1>a. active(state)
  <2>1. job[j].pc # "free"
    BY Zenon, RetrievalAssumption
       DEF RetrievalAssumption, JobStep, JobRequeue, JobCrash, JobStart, JobCheck, JobLoad,
           JobSkipped, perform_get_data, JobRaise, JobFailed, after_perform, JobWait, Running
  <2> QED
    BY <2>1 DEF UniqueInv, ActiveInv
<1>1. ASSUME active(state'), held' = held, queued' = queued, stale' = stale, JobInv'
      PROVE  UniqueInv'
  BY <1>0, <1>1, KeepHeldOnce, KeepRakeInv DEF UniqueInv, ActiveInv
<1>2. ASSUME held' = [held EXCEPT ![j] = {}], queued \ held[j] \subseteq queued',
             stale' = stale, state' = state, JobInv'
      PROVE  UniqueInv'
  <2>1. \A o \in Owner : held'[o] = IF o = j THEN {} ELSE held[o]
    BY <1>2, HeldValue
  <2>2. HeldOnce'
    <3>1. HeldOnce
      BY DEF UniqueInv
    <3>2. \A o \in Owner : held'[o] \subseteq held[o] /\ (held'[o] # {} => o # j)
      BY <2>1
    <3>3. \A o \in Owner : held'[o] \subseteq rows'
      BY <1>0, <3>1, <3>2 DEF HeldOnce
    <3>4. \A o \in Owner : held'[o] \cap stale' \subseteq queued'
      BY <1>0, <1>2, <2>1, <3>1 DEF HeldOnce
    <3>5. \A o, p \in Owner : o # p => held'[o] \cap held'[p] = {}
      BY <3>1, <3>2 DEF HeldOnce
    <3> QED
      BY <3>3, <3>4, <3>5 DEF HeldOnce
  <2>3. \A k \in Rakes : k \in Owner /\ k # j
    BY RetrievalAssumption DEF RetrievalAssumption, Owner
  <2>4. \A k \in Rakes : rake[k].pc = "enqueue" => rake[k].batch \cap held[j] = {}
    BY Zenon, <1>0, <2>3, HeldValue DEF UniqueInv, HeldOnce
  <2>5. RakeInv'
    BY <1>0, <1>2, <2>1, <2>4 DEF UniqueInv, RakeInv
  <2> QED
    BY <1>a, <1>2, <2>2, <2>5 DEF UniqueInv, ActiveInv
<1>3. CASE JobStart(j)
  <2> DEFINE rec == [job[j] EXCEPT !.pc = "check", !.todo = job[j].ids, !.src = state]
  <2>1. job' = [job EXCEPT ![j] = rec] /\ JobOK(rec)
    BY <1>0, <1>a, <1>3 DEF JobStart, JobOK, JobRec, Running
  <2>2. JobInv'
    <3> HIDE DEF rec
    <3> QED
      BY Zenon, <2>1, OneJobInv DEF UniqueInv
  <2> QED
    BY Zenon, <1>1, <1>a, <1>3, <2>2, JobHolds DEF JobStart, rowVars
<1>4. CASE JobCheck(j)
  <2> DEFINE to == work_after_check(job[j].src, check_for_failures, check_for_rate_limits)
             rec == IF to = "working" THEN [job[j] EXCEPT !.pc = "load", !.src = to] ELSE Raised(j)
  <2>1. active(to)
    BY <1>0, <1>4 DEF JobCheck, JobOK, Running, work_after_check, active, ActiveState
  <2>2. state' = to /\ queued' = queued
    BY <1>4, <2>1 DEF JobCheck, remove_queues, active, ActiveState
  <2>3. job' = [job EXCEPT ![j] = rec] /\ JobOK(rec)
    <3>1. CASE to = "working"
      <4>1. JobOK([job[j] EXCEPT !.pc = "load", !.src = to])
        BY <1>0, <2>1, <3>1 DEF JobOK, JobRec, Running
      <4> QED
        BY <1>4, <3>1, <4>1 DEF JobCheck
    <3>2. CASE to # "working"
      BY <1>4, <3>2, RestJobOK DEF JobCheck
    <3> QED
      BY <3>1, <3>2
  <2>4. JobInv'
    <3> HIDE DEF rec
    <3> QED
      BY Zenon, <2>3, OneJobInv DEF UniqueInv
  <2> HIDE DEF to
  <2> QED
    BY Zenon, <1>1, <1>4, <2>1, <2>2, <2>4, JobHolds DEF JobCheck, rowVars
<1>5. CASE JobLoad(j)
  <2>0. PICK r \in job[j].todo :
          job' = [job EXCEPT ![j] = IF r \in rows
                                    THEN [job[j] EXCEPT !.pc = "request", !.cur = {r},
                                                        !.mark = (r \in queued)]
                                    ELSE Raised(j)]
    BY Zenon, <1>5 DEF JobLoad
  <2>1. JobOK([job[j] EXCEPT !.pc = "request", !.cur = {r}, !.mark = (r \in queued)])
    BY <1>0, <1>5 DEF JobLoad, JobOK, JobRec, Running
  <2>2. JobInv'
    BY Zenon, <2>0, <2>1, RestJobOK, OneJobInv DEF UniqueInv
  <2> QED
    BY Zenon, <1>1, <1>a, <1>5, <2>2, JobHolds DEF JobLoad, rowVars
<1>6. ASSUME Advance(j), job[j].pc = "request" PROVE JobInv'
  <2> DEFINE left == job[j].todo \ job[j].cur
             rec == [job[j] EXCEPT !.todo = left, !.cur = {}, !.mark = FALSE,
                                   !.pc = IF left = {} THEN "after" ELSE "check"]
  <2>1. job' = [job EXCEPT ![j] = rec] /\ JobOK(rec)
    BY <1>0, <1>6 DEF Advance, JobOK, JobRec, Running
  <2> HIDE DEF rec
  <2> QED
    BY Zenon, <2>1, OneJobInv DEF UniqueInv
<1>7. CASE JobSkipped(j)
  BY <1>1, <1>a, <1>6, <1>7, JobHolds DEF JobSkipped, rowVars
<1>8. CASE perform_get_data(j)
  <2>1. held' = held /\ JobInv' /\ state' = state
    BY Zenon, <1>6, <1>8, JobHolds DEF perform_get_data
  <2>2. PICK saved \in {job[j].cur, {}} : queued \ saved \subseteq queued' /\ stale' = stale \ saved
    BY <1>8 DEF perform_get_data
  <2>3. saved \subseteq held[j]
    BY Zenon, <1>0, <1>8, HeldValue DEF perform_get_data, JobOK, Holds
  <2>4. HeldOnce'
    BY Zenon, <1>0, <2>1, <2>2 DEF UniqueInv, HeldOnce
  <2>5. \A k \in Rakes : rake[k].pc = "enqueue" => rake[k].batch \cap held[j] = {}
    BY Zenon, <1>0, HeldValue, RetrievalAssumption DEF RetrievalAssumption, UniqueInv, HeldOnce, Owner
  <2>6. RakeInv'
    BY <1>0, <2>1, <2>2, <2>3, <2>5 DEF UniqueInv, RakeInv
  <2> QED
    BY Zenon, <1>a, <2>1, <2>4, <2>6 DEF UniqueInv, ActiveInv
<1>9. CASE JobRaise(j)
  <2>1. Holds(j)
    BY <1>9, RetrievalAssumption DEF RetrievalAssumption, JobRaise, StaleAlone, Holds, Running
  <2>2. JobInv'
    BY Zenon, <1>9, RestJobOK, OneJobInv DEF JobRaise, UniqueInv
  <2> QED
    BY Zenon, <1>1, <1>a, <1>9, <2>1, <2>2, JobHolds DEF JobRaise, rowVars
<1>10. CASE JobFailed(j)
  <2>1. JobInv'
    BY Zenon, <1>10, RestJobOK, OneJobInv DEF JobFailed, UniqueInv
  <2> QED
    BY Zenon, <1>2, <1>10, <2>1, JobEnds DEF JobFailed, rowVars
<1>11. CASE after_perform(j)
  <2>1. JobOK([job[j] EXCEPT !.pc = "wait"]) /\ job' = [job EXCEPT ![j] = [job[j] EXCEPT !.pc = "wait"]]
    BY <1>0, <1>11 DEF after_perform, JobOK, JobRec, Running
  <2>2. JobInv'
    BY Zenon, <2>1, OneJobInv DEF UniqueInv
  <2> QED
    BY Zenon, <1>2, <1>11, <2>2, JobEnds DEF after_perform, rowVars
<1>12. CASE JobWait(j)
  <2>1. JobInv' /\ active(state')
    BY Zenon, <1>12, RestJobOK, OneJobInv DEF JobWait, UniqueInv, wait_after_check, active, ActiveState
  <2> QED
    BY Zenon, <1>1, <1>12, <2>1, JobHolds DEF JobWait, rowVars
<1>13. CASE JobCrash(j)
  <2>1. JobInv'
    BY Zenon, <1>13, RestJobOK, OneJobInv DEF JobCrash, UniqueInv
  <2>2. held' = [held EXCEPT ![j] = {}]
    BY Zenon, <1>13, AtRestPc, JobHeld DEF JobCrash
  <2> QED
    BY <1>2, <1>13, <2>1, <2>2 DEF JobCrash, rowVars
<1>14. ~JobRequeue(j)
  BY DEF JobRequeue, StaleAlone, TypeOK
<1> QED
  BY <1>3, <1>4, <1>5, <1>7, <1>8, <1>9, <1>10, <1>11, <1>12, <1>13, <1>14 DEF JobStep

\* Under the conditions of StaleAlone no row is ever processed by two jobs, for
\* all works, jobs, batch sizes, errors, alerts, rate limits and crashes.
THEOREM NoRowTwice == StaleAlone /\ Spec => []OneJobPerRow
<1> SUFFICES ASSUME StaleAlone PROVE Spec => []OneJobPerRow
  OBVIOUS
<1> DEFINE Inv == UniqueInv /\ admin = NoUninstall
<1>1. Init => Inv
  <2> SUFFICES ASSUME Init PROVE Inv
    BY Zenon
  <2>1. \A o \in Owner : held[o] = {}
    BY AtRestPc, RetrievalAssumption DEF RetrievalAssumption, Init, held, Owner, Holds
  <2>2. HeldOnce
    BY <2>1 DEF HeldOnce
  <2>3. RakeInv
    BY <2>1 DEF Init, RakeInv, Idle
  <2>4. JobInv
    BY RestJobOK DEF Init, JobInv
  <2>5. ActiveInv
    BY AtRestPc DEF Init, ActiveInv
  <2> QED
    BY <2>2, <2>3, <2>4, <2>5 DEF UniqueInv, Init
<1>2. TypeOK /\ Inv /\ [Next]_vars => Inv'
  <2> SUFFICES ASSUME TypeOK, UniqueInv, admin = NoUninstall, [Next]_vars
               PROVE  UniqueInv' /\ admin' = NoUninstall
    OBVIOUS
  <2>1. ~AdminInactivate /\ ~AdminUninstall /\ ~AdminUninstalled
    BY DEF AdminInactivate, AdminUninstall, AdminUninstalled, StaleAlone
  <2>2. UniqueInv'
    BY <2>1, AdminUnique, EnvironmentUnique, RakeUnique, JobUnique DEF Next, AdminNext
  <2>3. admin' = admin
    BY Zenon, <2>1 DEF Next, AdminNext, AdminInstall, AdminActivate, Transition, insert_retrievals,
                RakeStep, RakeStart, RakeCrash, queue_all_works, RakeNoRow, RakeReset, RakeWait,
                RakeMark, perform_later, JobStep, JobRequeue, JobCrash, JobStart, JobCheck,
                JobLoad, JobSkipped, perform_get_data, JobRaise, JobFailed, after_perform, JobWait,
                TimePasses, AlertsAge, CacheEvicted, vars
  <2> QED
    BY <2>2, <2>3
<1>3. TypeOK /\ Inv => OneJobPerRow
  BY Uniqueness
<1> QED
  BY <1>1, <1>2, <1>3, TypeCorrect, PTL DEF Spec

===============================================================================

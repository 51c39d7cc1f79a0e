--------------------------- MODULE SnapshotProofs ---------------------------
(***************************************************************************)
(* The invariants of Snapshot, for any number of pages, jobs and faults.     *)
(***************************************************************************)
EXTENDS Snapshot, SequenceTheorems, TLAPS

-------------------------------------------------------------------------------
\* The inductive invariant.

\* The steps at which a job still uses the snapshot that it has loaded.
Working == Exporting \cup {"next"}

\* Pages up to n are in f, but for small ones.
Reached(f, n) == \A p \in StartPage..n : p \in Small \/ p \in InFile(f)

\* What other processes see of a job's temporary file.
Flushed(r) == {r.temp[i] : i \in 1..r.flushed}

\* The pages of a job are in its temporary file.
Fetched(r) == \A p \in r.start..r.pageno : p \in Small \/ p \in Flushed(r)

\* The part of the temporary file that is written is a part of it, and a job that will
\* ask for another page is not at the last one.
Bounded(r) ==
    /\ r.flushed <= Len(r.temp)
    /\ r.pc \in {"crawl", "next"} => r.pageno < LastPage

BoundInv == \A j \in Jobs : Bounded(job[j])

\* As long as the mode is create there is one job, and it starts from the beginning:
\* nobody else loses by its removal of the file.
CreateInv ==
    /\ snapshot.mode = "create" => snapshot.start_page = StartPage
    /\ snapshot.mode = "create" \/ (\E j \in Jobs : job[j].pc \in Working /\ job[j].mode = "create")
         => \A i, k \in Jobs : job[i].pc # "free" /\ job[k].pc # "free" => i = k
    /\ \A j \in Jobs : job[j].pc = "enqueue" => snapshot.mode = "append"
    /\ \A j \in Jobs : job[j].pc \in Working /\ job[j].mode = "create" => job[j].start = StartPage

\* A page that is counted is in the file, or in the temporary file of the job.
JobReached(r) ==
    /\ r.pc \in Working => Reached(file, r.start - 1)
    /\ r.pc = "crawl" => Fetched(r)
    /\ r.pc \in {"pageno", "append"} /\ (r.pageno < r.total \/ refusals = 0) => Fetched(r)
    /\ r.pc = "log" /\ (r.pageno < r.total \/ refusals = 0) => Reached(file, r.pageno)
    /\ r.pc = "next" => Reached(file, r.pageno)

ReachedInv == NothingSkipped /\ \A j \in Jobs : JobReached(job[j])

\* Without a job that was put back there is one job at a time, and none has anything
\* to add when the snapshot is finished.
FinishedInv ==
    requeues = 0 =>
        /\ \A i, k \in Jobs : job[i].pc \notin {"free", "done"} /\ job[k].pc \notin {"free", "done"} => i = k
        /\ snapshot.finished =>
             \A j \in Jobs : job[j].pc \in {"free", "zip", "export", "queue", "done"}
        /\ \A j \in Jobs : job[j].pc \in {"append", "log"} => snapshot.pageno = job[j].pageno
        /\ snapshot.finished /\ refusals = 0 => Reached(file, snapshot.pageno)

Below(f, n) == \A i \in DOMAIN f : f[i] < n

\* The pages of a temporary file, from start on.
Pages(r) == Len(r.temp) = r.pageno + 1 - r.start /\ \A i \in DOMAIN r.temp : r.temp[i] = r.start + i - 1

\* The same, but for an answer without paging at the end.
PagesButLast(r) == \A i \in DOMAIN r.temp : r.temp[i] = r.start + i - 1 \/ (i = Len(r.temp) /\ r.temp[i] = 0)

JobOrder(r) ==
    /\ r.pc = "queued" => r.temp = <<>>
    /\ r.pc = "queued" => snapshot.mode = "create" \/ Below(file, snapshot.start_page)
    /\ r.pc \in {"crawl", "pageno", "append"} => Below(file, r.start)
    /\ r.pc = "crawl" => Pages(r)
    /\ r.pc \in {"pageno", "append"} => PagesButLast(r) /\ (r.pageno < r.total => Pages(r))
    /\ r.pc = "log" /\ r.pageno < r.total => Below(file, r.pageno + 1)
    /\ r.pc = "next" => Below(file, r.pageno + 1)
    /\ r.pc = "enqueue" => Below(file, snapshot.start_page)

OrderInv == InOrder /\ (requeues = 0 => \A j \in Jobs : JobOrder(job[j]))

\* A finished export is not being uploaded.
ExportInv == export.finished => export.pc \notin Uploading

-------------------------------------------------------------------------------
\* Types.

\* The bound on page numbers lies above the first page and the pages there can be.
LEMMA LastPageBound ==
    LastPage \in Nat /\ 1 <= LastPage /\ StartPage <= LastPage /\ MaxPages <= LastPage
BY SnapshotAssumption DEF SnapshotAssumption, LastPage

\* A free slot and a job in the queue are well typed.
LEMMA SlotType ==
    /\ NoJob \in JobRec /\ Bounded(NoJob)
    /\ \A u \in BOOLEAN : Queued(u) \in JobRec /\ Bounded(Queued(u))
<1>1. <<>> \in Seq(0..LastPage)
  OBVIOUS
<1>2. 1 \in 1..LastPage /\ 0 \in 0..LastPage
  BY LastPageBound
<1>3. NoJob \in JobRec /\ \A u \in BOOLEAN : Queued(u) \in JobRec
  BY Zenon, <1>1, <1>2 DEF NoJob, Queued, JobRec, Exporting
<1>4. Len(<<>>) = 0
  OBVIOUS
<1>5. Bounded(NoJob) /\ \A u \in BOOLEAN : Bounded(Queued(u))
  BY <1>4 DEF NoJob, Queued, Bounded
<1> QED
  BY <1>3, <1>5

\* What append_file makes of the file.
LEMMA Appended ==
    ASSUME NEW S, NEW f \in Seq(S), NEW t \in Seq(S), NEW n \in 0..Len(t)
    PROVE  /\ f \o SubSeq(t, 1, n) \in Seq(S)
           /\ Len(f \o SubSeq(t, 1, n)) = Len(f) + n
           /\ \A i \in 1..Len(f) : (f \o SubSeq(t, 1, n))[i] = f[i]
           /\ \A i \in 1..n : (f \o SubSeq(t, 1, n))[Len(f) + i] = t[i]
<1> DEFINE u == SubSeq(t, 1, n)
<1>1. \A i \in 1..n : t[i] \in S
  OBVIOUS
<1>2. 1 \in Int /\ n \in Int /\ (1 <= n => n - 1 + 1 = n)
  OBVIOUS
<1>3. /\ u \in Seq(S) /\ Len(u) = IF 1 <= n THEN n - 1 + 1 ELSE 0
      /\ \A i \in 1..(n - 1 + 1) : u[i] = t[1 + i - 1]
  BY <1>1, <1>2, SubSeqProperties
<1>4. Len(u) = n /\ \A i \in 1..n : u[i] = t[i]
  BY <1>3
<1> HIDE DEF u
<1>5. /\ f \o u \in Seq(S) /\ Len(f \o u) = Len(f) + Len(u)
      /\ \A i \in 1..(Len(f) + Len(u)) : (f \o u)[i] = IF i <= Len(f) THEN f[i] ELSE u[i - Len(f)]
  BY Zenon, <1>3, ConcatProperties
<1>6. \A i \in 1..n : (f \o u)[Len(f) + i] = t[i]
  BY <1>4, <1>5
<1>7. \A i \in 1..Len(f) : (f \o u)[i] = f[i]
  BY <1>4, <1>5
<1> QED
  BY <1>4, <1>5, <1>6, <1>7 DEF u

\* Received keeps a job well typed, for the pages that can be asked for: the crawl
\* goes on only before the last page.
LEMMA ReceivedType ==
    ASSUME TypeOK, BoundInv, NEW j \in Jobs,
           NEW page \in 0..LastPage, NEW pageno \in 0..LastPage, NEW total \in 0..LastPage,
           Received(j, page, pageno, total)
    PROVE  /\ job' \in [Jobs -> JobRec]
           /\ job'[j].pc \in {"crawl", "pageno"}
           /\ BoundInv'
           /\ \A i \in Jobs : i # j => job'[i] = job[i]
<1> DEFINE temp == Append(job[j].temp, page)
<1>0. job \in [Jobs -> JobRec] /\ job[j] \in JobRec
  BY DEF TypeOK
<1>1. job[j].temp \in Seq(0..LastPage) /\ job[j].flushed \in Nat
  BY <1>0 DEF JobRec
<1>2. temp \in Seq(0..LastPage) /\ Len(temp) \in Nat
  BY <1>1
<1>3. PICK flushed \in {Len(temp), job[j].flushed} :
        job' = [job EXCEPT ![j] = [@ EXCEPT
                   !.pageno = pageno, !.total = total, !.temp = temp, !.flushed = flushed,
                   !.pc = IF pageno < total /\ pageno < StopPage /\ Len(temp) < PagesPerJob
                          THEN "crawl" ELSE "pageno"]]
  BY Zenon DEF Received
<1>4. flushed \in Nat /\ flushed <= Len(temp)
  BY <1>0, <1>1, <1>2, <1>3 DEF BoundInv, Bounded
<1> HIDE DEF temp
<1> DEFINE pc == IF pageno < total /\ pageno < StopPage /\ Len(temp) < PagesPerJob THEN "crawl" ELSE "pageno"
<1>5. pc \in {"crawl", "pageno"} /\ (pc = "crawl" => pageno < LastPage)
  BY LastPageBound
<1> HIDE DEF pc
<1>6. job' = [job EXCEPT ![j] = [job[j] EXCEPT !.pageno = pageno, !.total = total, !.temp = temp,
                                                !.flushed = flushed, !.pc = pc]]
  BY <1>3 DEF pc
<1>7. [job[j] EXCEPT !.pageno = pageno, !.total = total, !.temp = temp,
                     !.flushed = flushed, !.pc = pc] \in JobRec
  BY Zenon, <1>0, <1>2, <1>4, <1>5 DEF JobRec, Exporting
<1>8. /\ job'[j].pc = pc /\ job'[j].pageno = pageno
      /\ job'[j].temp = temp /\ job'[j].flushed = flushed
  BY <1>0, <1>6 DEF JobRec
<1>9. \A i \in Jobs : i # j => job'[i] = job[i]
  BY <1>0, <1>6
<1>10. Bounded(job'[j])
  BY <1>4, <1>5, <1>8 DEF Bounded
<1>11. BoundInv'
  BY <1>9, <1>10 DEF BoundInv
<1> QED
  BY <1>0, <1>5, <1>6, <1>7, <1>8, <1>9, <1>11

\* A step of one job changes the record of that job only.
LEMMA OneJob ==
    ASSUME TypeOK, BoundInv, NEW j \in Jobs, NEW r \in JobRec, job' = [job EXCEPT ![j] = r],
           Bounded(r)
    PROVE  job' \in [Jobs -> JobRec] /\ BoundInv'
BY LastPageBound DEF TypeOK, BoundInv

\* Every step of a job preserves the types and BoundInv.
LEMMA JobStepType ==
    ASSUME TypeOK, BoundInv, NEW j \in Jobs, JobStep(j)
    PROVE  TypeOK' /\ BoundInv'
<1>0. /\ job \in [Jobs -> JobRec] /\ job[j] \in JobRec /\ snapshot \in SnapshotRec
      /\ file \in Seq(0..LastPage) /\ export \in ExportRec /\ pages \in 0..MaxPages
  BY DEF TypeOK
<1> DEFINE r == job[j]
<1>1. /\ r.upload \in BOOLEAN /\ r.mode \in {"create", "append"} /\ r.start \in 1..LastPage
      /\ r.pageno \in 0..LastPage /\ r.total \in 0..LastPage
      /\ r.temp \in Seq(0..LastPage) /\ r.flushed \in Nat
  BY <1>0 DEF JobRec
<1>2. /\ snapshot.mode \in {"create", "append"} /\ snapshot.start_page \in 1..LastPage
      /\ snapshot.pageno \in 0..LastPage
  BY <1>0 DEF SnapshotRec
<1>3. <<>> \in Seq(0..LastPage) /\ r.flushed \in 0..Len(r.temp)
  BY <1>1 DEF BoundInv, Bounded
<1>4. CASE Begin(j)
  <2> DEFINE n == [r EXCEPT !.pc = "crawl", !.mode = snapshot.mode,
                     !.start = snapshot.start_page, !.pageno = snapshot.start_page - 1]
  <2>0. snapshot.start_page - 1 \in 0..LastPage /\ snapshot.start_page - 1 < LastPage
    BY <1>2, LastPageBound
  <2>1. n \in JobRec /\ Bounded(n)
    BY Zenon, <1>0, <1>2, <2>0 DEF JobRec, Exporting, BoundInv, Bounded
  <2>2. job' = [job EXCEPT ![j] = n]
    BY <1>4 DEF Begin
  <2> HIDE DEF n
  <2>3. job' \in [Jobs -> JobRec] /\ BoundInv'
    BY Zenon, <2>1, <2>2, OneJob
  <2> QED
    BY Zenon, <1>0, <1>3, <1>4, <2>3 DEF Begin, TypeOK
<1>5. CASE crawl(j)
  <2>1. r.pageno + 1 \in 0..LastPage /\ pages \in 0..LastPage
    BY SMTT(30), <1>0, <1>1, <1>5, LastPageBound, SnapshotAssumption DEF crawl, BoundInv, Bounded, SnapshotAssumption
  <2>2. Received(j, r.pageno + 1, r.pageno + 1, pages)
    BY <1>5 DEF crawl
  <2>3. job' \in [Jobs -> JobRec] /\ BoundInv'
    BY <2>1, <2>2, ReceivedType
  <2> QED
    BY <1>5, <2>3 DEF crawl, TypeOK
<1>6. CASE crawl_refused(j)
  <2> DEFINE total == IF r.total = 0 THEN 1 ELSE r.total
  <2>1. total \in 0..LastPage /\ 0 \in 0..LastPage
    BY <1>1, LastPageBound
  <2>2. Received(j, 0, total, total)
    BY <1>6 DEF crawl_refused
  <2> HIDE DEF total
  <2>3. job' \in [Jobs -> JobRec] /\ BoundInv'
    BY <2>1, <2>2, ReceivedType
  <2>5. refusals' \in 0..MaxRefusals
    BY <1>6, SnapshotAssumption DEF crawl_refused, TypeOK, SnapshotAssumption
  <2> QED
    BY <1>6, <2>3, <2>5 DEF crawl_refused, TypeOK
<1>7. ASSUME NEW pc \in {"append", "next", "zip", "done", "enqueue", "export", "queue"}, Goto(j, pc),
             pc = "next" => r.pageno < LastPage
      PROVE  job' \in [Jobs -> JobRec] /\ BoundInv'
  <2> DEFINE n == [r EXCEPT !.pc = pc]
  <2>1. n \in JobRec /\ Bounded(n)
    BY Zenon, <1>0, <1>7 DEF JobRec, Exporting, BoundInv, Bounded
  <2>2. job' = [job EXCEPT ![j] = n]
    BY <1>7 DEF Goto
  <2> HIDE DEF n
  <2> QED
    BY Zenon, <2>1, <2>2, OneJob
<1>8. CASE update_pageno(j)
  <2>1. job' \in [Jobs -> JobRec] /\ BoundInv'
    BY <1>7, <1>8 DEF update_pageno
  <2>2. snapshot' \in SnapshotRec
    BY Zenon, <1>0, <1>1, <1>8 DEF update_pageno, SnapshotRec
  <2> QED
    BY <1>8, <2>1, <2>2 DEF update_pageno, TypeOK
<1>9. CASE append_file(j)
  <2> DEFINE n == [r EXCEPT !.pc = "log", !.temp = <<>>, !.flushed = 0]
  <2>1. n \in JobRec /\ Bounded(n)
    <3>1. n \in JobRec
      BY Zenon, <1>0, <1>3 DEF JobRec, Exporting
    <3>2. n.pc = "log" /\ n.temp = <<>> /\ n.flushed = 0
      BY <1>0 DEF JobRec
    <3>3. Len(<<>>) = 0
      OBVIOUS
    <3> QED
      BY <3>1, <3>2, <3>3 DEF Bounded
  <2>2. job' = [job EXCEPT ![j] = n]
    BY <1>9 DEF append_file
  <2> HIDE DEF n
  <2>3. job' \in [Jobs -> JobRec] /\ BoundInv'
    BY Zenon, <2>1, <2>2, OneJob
  <2>4. file' \in Seq(0..LastPage)
    BY Zenon, <1>0, <1>1, <1>3, <1>9, Appended DEF append_file
  <2> QED
    BY Zenon, <1>9, <2>3, <2>4 DEF append_file, TypeOK
<1>10. CASE log_write(j)
  <2>1. pages_left(j) => r.pageno < LastPage
    BY <1>1, LastPageBound DEF pages_left
  <2>2. job' \in [Jobs -> JobRec] /\ BoundInv'
    BY <1>7, <1>10, <2>1 DEF log_write
  <2>3. snapshot' \in SnapshotRec
    BY Zenon, <1>0, <1>10 DEF log_write, SnapshotRec
  <2> QED
    BY <1>10, <2>2, <2>3 DEF log_write, TypeOK
<1>11. CASE update_start(j)
  <2>1. job' \in [Jobs -> JobRec] /\ BoundInv'
    BY <1>7, <1>11 DEF update_start
  <2>2. r.pageno + 1 \in 1..LastPage
    BY SMTT(30), <1>1, <1>11, LastPageBound DEF update_start, BoundInv, Bounded
  <2>3. snapshot' \in SnapshotRec
    BY Zenon, <1>0, <1>1, <1>11, <2>2 DEF update_start, SnapshotRec
  <2> QED
    BY <1>11, <2>1, <2>3 DEF update_start, TypeOK
<1>12. CASE perform_later(j)
  <2>1. PICK i \in Jobs : job[i].pc = "free" /\ job' = [job EXCEPT ![i] = Queued(FALSE), ![j].pc = "done"]
    BY Zenon, <1>12 DEF perform_later
  <2>2. i # j
    BY <1>12, <2>1 DEF perform_later
  <2> DEFINE n == [r EXCEPT !.pc = "done"]
  <2>3. n \in JobRec /\ Bounded(n)
    BY Zenon, <1>0 DEF JobRec, BoundInv, Bounded
  <2>4. Queued(FALSE) \in JobRec /\ Bounded(Queued(FALSE))
    BY Zenon, SlotType
  <2>5. job' = [k \in Jobs |-> IF k = j THEN n ELSE IF k = i THEN Queued(FALSE) ELSE job[k]]
    BY Zenon, <1>0, <2>1, <2>2
  <2> HIDE DEF n
  <2>6. job' \in [Jobs -> JobRec] /\ BoundInv'
    BY Zenon, <1>0, <2>3, <2>4, <2>5 DEF BoundInv
  <2> QED
    BY Zenon, <1>12, <2>6 DEF perform_later, TypeOK
<1>13. CASE zip(j)
  <2>1. job' \in [Jobs -> JobRec] /\ BoundInv'
    BY <1>7, <1>13 DEF zip
  <2>2. export' \in ExportRec
    BY Zenon, <1>0, <1>13 DEF zip, ExportRec
  <2> QED
    BY <1>13, <2>1, <2>2 DEF zip, TypeOK
<1>14. CASE export_to_zenodo(j)
  <2>1. job' \in [Jobs -> JobRec] /\ BoundInv'
    BY <1>7, <1>14 DEF export_to_zenodo
  <2>2. export' \in ExportRec
    BY Zenon, <1>0, <1>14 DEF export_to_zenodo, ExportRec
  <2> QED
    BY <1>14, <2>1, <2>2 DEF export_to_zenodo, TypeOK
<1>15. ASSUME job' = [job EXCEPT ![j] = NoJob]
       PROVE  job' \in [Jobs -> JobRec] /\ BoundInv'
  <2> QED
    BY Zenon, <1>15, SlotType, OneJob
<1>16. CASE ExportFails(j)
  <2>1. snapshot' \in SnapshotRec
    BY Zenon, <1>0, <1>16 DEF ExportFails, SnapshotRec
  <2> QED
    BY <1>15, <1>16, <2>1 DEF ExportFails, TypeOK
<1>17. CASE PerformFails(j)
  BY <1>15, <1>17 DEF PerformFails, TypeOK
<1>18. CASE Acknowledge(j)
  BY <1>15, <1>18 DEF Acknowledge, TypeOK
<1>19. CASE Crash(j)
  <2>1. crashes' \in 0..MaxCrashes
    BY <1>19, SnapshotAssumption DEF Crash, TypeOK, SnapshotAssumption
  <2> QED
    BY <1>15, <1>19, <2>1 DEF Crash, TypeOK
<1>20. CASE Requeue(j)
  <2>1. Queued(r.upload) \in JobRec /\ Bounded(Queued(r.upload))
    BY <1>1, SlotType
  <2>2. job' = [job EXCEPT ![j] = Queued(r.upload)]
    BY <1>20 DEF Requeue
  <2>3. job' \in [Jobs -> JobRec] /\ BoundInv'
    BY Zenon, <2>1, <2>2, OneJob
  <2>4. snapshot' \in SnapshotRec
    BY Zenon, <1>0, <1>20 DEF Requeue, SnapshotRec
  <2>5. requeues' \in 0..MaxRequeues
    BY SMTT(30), <1>20, SnapshotAssumption DEF Requeue, TypeOK, SnapshotAssumption
  <2>6. alert' \in BOOLEAN
    BY <1>20 DEF Requeue
  <2> QED
    BY <1>20, <2>3, <2>4, <2>5, <2>6 DEF Requeue, TypeOK
<1> QED
  BY <1>4, <1>5, <1>6, <1>8, <1>9, <1>10, <1>11, <1>12, <1>13, <1>14, <1>16, <1>17, <1>18, <1>19,
     <1>20 DEF JobStep

\* The steps of the export leave the snapshot and its jobs alone.
LEMMA ExportFrame ==
    ASSUME TypeOK, ExportStep
    PROVE  /\ UNCHANGED <<pages, snapshot, file, job, refusals>>
           /\ alert' \in BOOLEAN
           /\ requeues' = requeues \/ (requeues' = requeues + 1 /\ requeues < MaxRequeues)
           /\ crashes' = crashes \/ (crashes' = crashes + 1 /\ crashes < MaxCrashes)
<1>0. alert \in BOOLEAN
  BY DEF TypeOK
<1>1. CASE export_begin
  BY <1>0, <1>1 DEF export_begin
<1>2. CASE perform_upload
  BY <1>0, <1>2 DEF perform_upload
<1>3. CASE export_end
  BY <1>0, <1>3 DEF export_end
<1>4. CASE export_fails
  BY <1>0, <1>4 DEF export_fails
<1>5. CASE export_requeue
  BY <1>0, <1>5 DEF export_requeue
<1>6. CASE export_crash
  BY <1>0, <1>6 DEF export_crash
<1> QED
  BY <1>1, <1>2, <1>3, <1>4, <1>5, <1>6 DEF ExportStep

\* The steps of the export keep the types.
LEMMA ExportStepType ==
    ASSUME TypeOK, BoundInv, ExportStep
    PROVE  TypeOK' /\ BoundInv'
<1>1. export' \in ExportRec
  <2>1. export \in ExportRec
    BY DEF TypeOK
  <2>2. CASE export_begin
    BY Zenon, <2>1, <2>2 DEF export_begin, ExportRec, Uploading
  <2>3. CASE perform_upload
    <3>1. export.deposits + 1 \in Nat /\ export.published + 1 \in Nat
      BY <2>1 DEF ExportRec
    <3>2. CASE export' = [export EXCEPT !.pc = "upload", !.deposits = @ + 1]
      BY Zenon, <2>1, <3>1, <3>2 DEF ExportRec, Uploading
    <3>3. CASE export' = [export EXCEPT !.pc = "save", !.published = @ + 1]
      BY Zenon, <2>1, <3>1, <3>3 DEF ExportRec, Uploading
    <3>4. CASE \E pc \in {"publish", "finish"} : export' = [export EXCEPT !.pc = pc]
      BY Zenon, <2>1, <3>4 DEF ExportRec, Uploading
    <3> QED
      BY <2>3, <3>2, <3>3, <3>4 DEF perform_upload
  <2>4. CASE export_end
    BY ZenonT(40), <2>1, <2>4 DEF export_end, ExportRec, Uploading
  <2>5. CASE export_fails
    BY Zenon, <2>1, <2>5 DEF export_fails, ExportRec, Uploading
  <2>6. CASE export_requeue
    BY Zenon, <2>1, <2>6 DEF export_requeue, ExportRec, Uploading
  <2>7. CASE export_crash
    BY <2>1, <2>7 DEF export_crash, ExportRec, Uploading
  <2> QED
    BY <2>2, <2>3, <2>4, <2>5, <2>6, <2>7 DEF ExportStep
<1>2. /\ UNCHANGED <<pages, snapshot, file, job, refusals>>
      /\ alert' \in BOOLEAN
      /\ requeues' = requeues \/ (requeues' = requeues + 1 /\ requeues < MaxRequeues)
      /\ crashes' = crashes \/ (crashes' = crashes + 1 /\ crashes < MaxCrashes)
  BY ExportFrame
<1>3. requeues' \in 0..MaxRequeues /\ crashes' \in 0..MaxCrashes
  BY <1>2, SnapshotAssumption DEF TypeOK, SnapshotAssumption
<1> QED
  BY <1>1, <1>2, <1>3 DEF TypeOK, BoundInv

\* The types are an invariant together with BoundInv.
LEMMA TypeStep ==
    ASSUME TypeOK, BoundInv, [Next]_vars
    PROVE  TypeOK' /\ BoundInv'
<1>1. CASE EndpointChanges
  BY <1>1 DEF EndpointChanges, TypeOK, BoundInv
<1>2. CASE UNCHANGED vars
  BY <1>2 DEF vars, TypeOK, BoundInv
<1> QED
  BY <1>1, <1>2, JobStepType, ExportStepType DEF Next

\* Initially there is one job, in the queue.
LEMMA InitJob ==
    ASSUME Init
    PROVE  \E j \in Jobs, u \in BOOLEAN :
             /\ job = [i \in Jobs |-> IF i = j THEN Queued(u) ELSE NoJob]
             /\ Queued(u).pc = "queued" /\ Queued(u).temp = <<>> /\ NoJob.pc = "free"
             /\ export = [NoExport EXCEPT !.wanted = u]
BY Zenon DEF Init, Queued, NoJob

\* The initial states are well typed.
LEMMA TypeInit ==
    ASSUME Init
    PROVE  TypeOK /\ BoundInv
<1>1. PICK j \in Jobs, u \in BOOLEAN :
        /\ job = [i \in Jobs |-> IF i = j THEN Queued(u) ELSE NoJob]
        /\ export = [NoExport EXCEPT !.wanted = u]
  BY InitJob
<1>2. job \in [Jobs -> JobRec] /\ BoundInv
  BY <1>1, SlotType DEF BoundInv
<1>3. <<>> \in Seq(0..LastPage)
  OBVIOUS
<1>4. export \in ExportRec
  BY Zenon, <1>1, <1>3 DEF ExportRec, NoExport
<1>5. snapshot \in SnapshotRec /\ file \in Seq(0..LastPage)
  BY <1>3, SnapshotAssumption, LastPageBound DEF Init, SnapshotRec, SnapshotAssumption
<1>6. refusals \in 0..MaxRefusals /\ requeues \in 0..MaxRequeues /\ crashes \in 0..MaxCrashes
  BY SnapshotAssumption DEF Init, SnapshotAssumption
<1>7. pages \in 0..MaxPages /\ alert \in BOOLEAN
  BY Zenon DEF Init
<1> QED
  BY <1>2, <1>4, <1>5, <1>6, <1>7 DEF TypeOK

\* Page numbers, files and records stay in their bounds (api_crawler.rb 23-48,
\* api_snapshot_job.rb 10-16): no crawl runs past the last page there can be.
THEOREM TypeCorrect == Spec => []TypeOK
<1>1. Init => TypeOK /\ BoundInv
  BY TypeInit
<1>2. TypeOK /\ BoundInv /\ [Next]_vars => TypeOK' /\ BoundInv'
  BY TypeStep
<1> QED
  BY <1>1, <1>2, PTL DEF Spec

-------------------------------------------------------------------------------
\* The export.

\* An export that is finished leaves perform_upload alone.
LEMMA ExportInvStep ==
    ASSUME TypeOK, ExportInv, [Next]_vars
    PROVE  ExportInv' /\ (export.finished => export'.published = export.published)
<1>0. export \in ExportRec
  BY DEF TypeOK
<1>1. ASSUME NEW j \in Jobs, JobStep(j)
      PROVE  /\ export'.finished = export.finished /\ export'.published = export.published
             /\ export'.pc = export.pc \/ export'.pc \in {"created", "queued"}
  <2>1. CASE zip(j)
    BY <1>0, <2>1 DEF zip, ExportRec
  <2>2. CASE export_to_zenodo(j)
    BY <1>0, <2>2 DEF export_to_zenodo, ExportRec
  <2>3. CASE Begin(j) \/ crawl(j) \/ crawl_refused(j) \/ update_pageno(j) \/ append_file(j)
    BY <2>3 DEF Begin, crawl, crawl_refused, update_pageno, append_file
  <2>4. CASE log_write(j) \/ ExportFails(j) \/ update_start(j) \/ perform_later(j)
    BY Zenon, <2>4 DEF log_write, ExportFails, update_start, perform_later
  <2>5. CASE PerformFails(j) \/ Acknowledge(j) \/ Requeue(j) \/ Crash(j)
    BY <2>5 DEF PerformFails, Acknowledge, Requeue, Crash
  <2> QED
    BY <1>1, <2>1, <2>2, <2>3, <2>4, <2>5 DEF JobStep
<1>2. CASE ExportStep
  <2>1. CASE export_begin
    BY <1>0, <2>1 DEF export_begin, ExportInv, ExportRec, Uploading
  <2>2. CASE perform_upload
    BY Zenon, <1>0, <2>2 DEF perform_upload, ExportInv, ExportRec, Uploading
  <2>3. CASE export_end
    BY Zenon, <1>0, <2>3 DEF export_end, ExportInv, ExportRec, Uploading
  <2>4. CASE export_fails
    BY <1>0, <2>4 DEF export_fails, ExportInv, ExportRec, Uploading
  <2>5. CASE export_requeue
    BY <1>0, <2>5 DEF export_requeue, ExportInv, ExportRec, Uploading
  <2>6. CASE export_crash
    BY <1>0, <2>6 DEF export_crash, ExportInv, ExportRec, Uploading
  <2> QED
    BY <1>2, <2>1, <2>2, <2>3, <2>4, <2>5, <2>6 DEF ExportStep
<1>3. CASE EndpointChanges \/ UNCHANGED vars
  BY <1>3 DEF EndpointChanges, vars, ExportInv
<1> QED
  BY <1>1, <1>2, <1>3 DEF Next, ExportInv, Uploading

\* A deposition that is known to be finished is not published again
\* (zenodo_data_export.rb 44), whatever job is put back.
THEOREM PublishedOnce == Spec => NotPublishedAgain
<1>1. Init => TypeOK /\ BoundInv /\ ExportInv
  <2>1. Init => ExportInv
    BY InitJob DEF ExportInv, NoExport
  <2> QED
    BY <2>1, TypeInit
<1>2. TypeOK /\ BoundInv /\ ExportInv /\ [Next]_vars => TypeOK' /\ BoundInv' /\ ExportInv'
  BY TypeStep, ExportInvStep
<1>3. TypeOK /\ ExportInv /\ [Next]_vars => [export.finished => export'.published = export.published]_vars
  BY ExportInvStep
<1> QED
  BY <1>1, <1>2, <1>3, PTL DEF Spec, NotPublishedAgain

-------------------------------------------------------------------------------
\* The steps by what they do to the snapshot, the file and the jobs.

SameSnapshot ==
    /\ snapshot'.mode = snapshot.mode /\ snapshot'.start_page = snapshot.start_page
    /\ snapshot'.pageno = snapshot.pageno /\ snapshot'.finished = snapshot.finished

Quiet == SameSnapshot /\ file' = file /\ job' = job /\ refusals' = refusals
            /\ (requeues' = 0 => requeues = 0)

\* A job ends, or goes on after the snapshot was finished, or is put back.
Ends(j) == SameSnapshot /\ file' = file /\ job' = [job EXCEPT ![j] = NoJob]
            /\ refusals' = refusals /\ requeues' = requeues

Goes(j) ==
    /\ job[j].pc \in {"zip", "export", "queue"}
    /\ \E pc \in {"export", "queue", "done"} : Goto(j, pc)
    /\ SameSnapshot /\ file' = file /\ refusals' = refusals /\ requeues' = requeues

PutBack(j) ==
    /\ job[j].pc \notin {"free", "queued"}
    /\ \E u \in BOOLEAN : job' = [job EXCEPT ![j] = Queued(u)]
    /\ SameSnapshot /\ file' = file /\ refusals' = refusals /\ requeues' # 0

Writes(j) ==
    \/ Begin(j) \/ crawl(j) \/ crawl_refused(j) \/ update_pageno(j) \/ append_file(j)
    \/ log_write(j) \/ update_start(j) \/ perform_later(j)

\* Every step is of one of these kinds.
LEMMA StepKinds ==
    ASSUME TypeOK, [Next]_vars
    PROVE  Quiet \/ \E j \in Jobs : Ends(j) \/ Goes(j) \/ PutBack(j) \/ Writes(j)
<1>0. snapshot \in SnapshotRec /\ requeues \in Nat
  BY SnapshotAssumption DEF TypeOK, SnapshotAssumption
<1>1. ASSUME NEW j \in Jobs, JobStep(j)
      PROVE  Ends(j) \/ Goes(j) \/ PutBack(j) \/ Writes(j)
  <2>1. CASE ExportFails(j)
    BY <1>0, <2>1 DEF ExportFails, Ends, SameSnapshot, SnapshotRec
  <2>2. CASE PerformFails(j) \/ Acknowledge(j) \/ Crash(j)
    BY <2>2 DEF PerformFails, Acknowledge, Crash, Ends, SameSnapshot
  <2>3. CASE zip(j) \/ export_to_zenodo(j)
    BY <2>3 DEF zip, export_to_zenodo, Goes, SameSnapshot
  <2>4. CASE Requeue(j)
    <3>1. job[j].upload \in BOOLEAN
      BY DEF TypeOK, JobRec
    <3>2. SameSnapshot
      BY <1>0, <2>4 DEF Requeue, SameSnapshot, SnapshotRec
    <3>3. requeues' # 0
      BY <1>0, <2>4 DEF Requeue
    <3> QED
      BY Zenon, <2>4, <3>1, <3>2, <3>3 DEF Requeue, PutBack
  <2> QED
    BY <1>1, <2>1, <2>2, <2>3, <2>4 DEF JobStep, Writes
<1>2. CASE ExportStep
  BY <1>0, <1>2, ExportFrame DEF Quiet, SameSnapshot
<1>3. CASE EndpointChanges \/ UNCHANGED vars
  BY <1>3 DEF EndpointChanges, vars, Quiet, SameSnapshot
<1> QED
  BY <1>1, <1>2, <1>3 DEF Next

\* What the jobs are after a step of job j.
Others(j) == \A i \in Jobs : i # j => job'[i] = job[i]

SameCopy(j) == job'[j].mode = job[j].mode /\ job'[j].start = job[j].start

SamePages(j) ==
    /\ SameCopy(j) /\ job'[j].pageno = job[j].pageno /\ job'[j].total = job[j].total

SameTemp(j) == job'[j].temp = job[j].temp /\ job'[j].flushed = job[j].flushed

Answered(j, page, pageno, total) ==
    /\ job'[j].pageno = pageno /\ job'[j].total = total
    /\ job'[j].temp = Append(job[j].temp, page)
    /\ \/ job'[j].flushed = Len(job'[j].temp)
       \/ job'[j].flushed = job[j].flushed /\ page \in Small \cup {0}
    /\ job'[j].pc \in {"crawl", "pageno"}
    /\ job'[j].pc = "crawl" => pageno < total

\* The records after each kind of step.
LEMMA Fields ==
    ASSUME TypeOK, NEW j \in Jobs
    PROVE  /\ Ends(j) => Others(j) /\ job'[j].pc = "free"
           /\ PutBack(j) => Others(j) /\ job'[j].pc = "queued" /\ job'[j].temp = <<>>
           /\ \A pc : Goto(j, pc) => Others(j) /\ SamePages(j) /\ SameTemp(j) /\ job'[j].pc = pc
           /\ Begin(j) =>
                /\ Others(j) /\ SameTemp(j) /\ job'[j].pc = "crawl" /\ job'[j].mode = snapshot.mode
                /\ job'[j].start = snapshot.start_page /\ job'[j].pageno = snapshot.start_page - 1
           /\ append_file(j) =>
                /\ Others(j) /\ SamePages(j) /\ job'[j].pc = "log"
           /\ \A page, pageno, total :
                Received(j, page, pageno, total) =>
                    Others(j) /\ SameCopy(j) /\ Answered(j, page, pageno, total)
<1>0. job \in [Jobs -> JobRec] /\ job[j] \in JobRec
  BY DEF TypeOK
<1>1. ASSUME Ends(j) PROVE Others(j) /\ job'[j].pc = "free"
  BY <1>0, <1>1 DEF Ends, Others, NoJob
<1>2. ASSUME PutBack(j) PROVE Others(j) /\ job'[j].pc = "queued" /\ job'[j].temp = <<>>
  <2>1. PICK u \in BOOLEAN : job' = [job EXCEPT ![j] = Queued(u)]
    BY Zenon, <1>2 DEF PutBack
  <2>2. Others(j) /\ job'[j] = Queued(u)
    BY <1>0, <2>1 DEF Others
  <2> QED
    BY <2>2 DEF Queued, NoJob
<1>3. ASSUME NEW pc, Goto(j, pc)
      PROVE  Others(j) /\ SamePages(j) /\ SameTemp(j) /\ job'[j].pc = pc
  <2>1. Others(j) /\ job'[j] = [job[j] EXCEPT !.pc = pc]
    BY <1>0, <1>3 DEF Goto, Others
  <2> QED
    BY <1>0, <2>1 DEF JobRec, SamePages, SameCopy, SameTemp
<1>4. ASSUME Begin(j)
      PROVE  /\ Others(j) /\ SameTemp(j) /\ job'[j].pc = "crawl" /\ job'[j].mode = snapshot.mode
             /\ job'[j].start = snapshot.start_page /\ job'[j].pageno = snapshot.start_page - 1
  <2>1. /\ Others(j)
        /\ job'[j] = [job[j] EXCEPT !.pc = "crawl", !.mode = snapshot.mode,
                     !.start = snapshot.start_page, !.pageno = snapshot.start_page - 1]
    BY <1>0, <1>4 DEF Begin, Others
  <2> QED
    BY <1>0, <2>1 DEF JobRec, SameTemp
<1>5. ASSUME append_file(j) PROVE Others(j) /\ SamePages(j) /\ job'[j].pc = "log"
  <2>1. Others(j) /\ job'[j] = [job[j] EXCEPT !.pc = "log", !.temp = <<>>, !.flushed = 0]
    BY <1>0, <1>5 DEF append_file, Others
  <2> QED
    BY <1>0, <2>1 DEF JobRec, SamePages, SameCopy
<1>6. ASSUME NEW page, NEW pageno, NEW total, Received(j, page, pageno, total)
      PROVE  Others(j) /\ SameCopy(j) /\ Answered(j, page, pageno, total)
  <2> DEFINE temp == Append(job[j].temp, page)
             pc == IF pageno < total /\ pageno < StopPage /\ Len(temp) < PagesPerJob
                   THEN "crawl" ELSE "pageno"
  <2>1. PICK flushed \in {Len(temp)} \cup (IF page \in Small \cup {0} THEN {job[j].flushed} ELSE {}) :
          job' = [job EXCEPT ![j] = [@ EXCEPT !.pageno = pageno, !.total = total, !.temp = temp,
                                              !.flushed = flushed, !.pc = pc]]
    BY Zenon, <1>6 DEF Received
  <2>2. flushed = Len(temp) \/ (flushed = job[j].flushed /\ page \in Small \cup {0})
    BY <2>1
  <2>3. pc \in {"crawl", "pageno"} /\ (pc = "crawl" => pageno < total)
    OBVIOUS
  <2> HIDE DEF pc, temp
  <2>4. /\ Others(j)
        /\ job'[j] = [job[j] EXCEPT !.pageno = pageno, !.total = total, !.temp = temp,
                                    !.flushed = flushed, !.pc = pc]
    BY <1>0, <2>1 DEF Others
  <2>5. /\ job'[j].pageno = pageno /\ job'[j].total = total /\ job'[j].temp = temp
        /\ job'[j].flushed = flushed /\ job'[j].pc = pc /\ SameCopy(j)
    BY <1>0, <2>4 DEF JobRec, SameCopy
  <2> QED
    BY <2>2, <2>3, <2>4, <2>5 DEF Answered, temp
<1> QED
  BY <1>1, <1>2, <1>3, <1>4, <1>5, <1>6

\* The job that perform_later enqueues.
LEMMA NewJob ==
    ASSUME TypeOK, NEW j \in Jobs, perform_later(j)
    PROVE  \E i \in Jobs :
             /\ i # j /\ job[i].pc = "free" /\ job'[i].pc = "queued" /\ job'[i].temp = <<>>
             /\ job[j].pc = "enqueue" /\ job'[j].pc = "done"
             /\ \A k \in Jobs \ {i, j} : job'[k] = job[k]
<1>0. job \in [Jobs -> JobRec] /\ job[j] \in JobRec
  BY DEF TypeOK
<1>1. PICK i \in Jobs : job[i].pc = "free" /\ job' = [job EXCEPT ![i] = Queued(FALSE), ![j].pc = "done"]
  BY Zenon DEF perform_later
<1>2. i # j /\ job[j].pc = "enqueue"
  BY <1>1 DEF perform_later
<1>3. /\ job'[i] = Queued(FALSE) /\ job'[j] = [job[j] EXCEPT !.pc = "done"]
      /\ \A k \in Jobs \ {i, j} : job'[k] = job[k]
  BY Zenon, <1>0, <1>1, <1>2
<1>4. job'[i].pc = "queued" /\ job'[i].temp = <<>>
  BY <1>3 DEF Queued, NoJob
<1>5. job'[j].pc = "done"
  BY <1>0, <1>3 DEF JobRec
<1> QED
  BY Zenon, <1>1, <1>2, <1>3, <1>4, <1>5

-------------------------------------------------------------------------------
\* One job as long as the mode is create.

\* A step of a job that leaves the mode of the snapshot alone, and takes its own copy
\* from there, preserves CreateInv.
LEMMA CreateKept ==
    ASSUME CreateInv, NEW j \in Jobs, Others(j), job[j].pc # "free",
           snapshot'.mode = snapshot.mode, snapshot'.start_page = snapshot.start_page,
           job'[j].pc = "enqueue" => job[j].pc = "enqueue",
           job'[j].pc \in Working =>
               \/ job[j].pc \in Working /\ SameCopy(j)
               \/ job'[j].mode = snapshot.mode /\ job'[j].start = snapshot.start_page
    PROVE  CreateInv'
BY DEF CreateInv, Others, SameCopy

\* CreateInv is preserved by every step.
LEMMA CreateStep ==
    ASSUME TypeOK, CreateInv, [Next]_vars
    PROVE  CreateInv'
<1>1. CASE Quiet
  BY <1>1 DEF Quiet, SameSnapshot, CreateInv
<1>2. ASSUME NEW j \in Jobs, Ends(j) PROVE CreateInv'
  <2>1. Others(j) /\ job'[j].pc = "free" /\ "free" \notin Working
    BY <1>2, Fields DEF Working, Exporting
  <2> QED
    BY <1>2, <2>1 DEF Ends, SameSnapshot, CreateInv, Others
<1>3. ASSUME NEW j \in Jobs, Goes(j) PROVE CreateInv'
  <2>1. PICK pc \in {"export", "queue", "done"} : Goto(j, pc)
    BY <1>3 DEF Goes
  <2>2. Others(j) /\ job'[j].pc \in {"export", "queue", "done"} /\ job[j].pc # "free"
    BY <1>3, <2>1, Fields DEF Goes
  <2>3. job'[j].pc \notin Working /\ job'[j].pc # "enqueue"
    BY <2>2 DEF Working, Exporting
  <2> QED
    BY <1>3, <2>2, <2>3, CreateKept DEF Goes, SameSnapshot
<1>4. ASSUME NEW j \in Jobs, PutBack(j) PROVE CreateInv'
  <2>1. Others(j) /\ job'[j].pc = "queued" /\ "queued" \notin Working /\ job[j].pc # "free"
    BY Zenon, <1>4, Fields DEF Working, Exporting, PutBack
  <2> QED
    BY <1>4, <2>1, CreateKept DEF PutBack, SameSnapshot
<1>5. ASSUME NEW j \in Jobs, Begin(j) PROVE CreateInv'
  <2>1. /\ Others(j) /\ job'[j].pc = "crawl" /\ job'[j].mode = snapshot.mode
        /\ job'[j].start = snapshot.start_page
    BY <1>5, Fields
  <2> QED
    BY <1>5, <2>1, CreateKept DEF Begin
<1>6. ASSUME NEW j \in Jobs, NEW page, NEW pageno, NEW total, Received(j, page, pageno, total),
             job[j].pc = "crawl", snapshot' = snapshot
      PROVE CreateInv'
  <2>1. Others(j) /\ SameCopy(j) /\ job'[j].pc \in {"crawl", "pageno"}
    BY <1>6, Fields DEF Answered
  <2>2. job[j].pc \in Working
    BY <1>6 DEF Working, Exporting
  <2> QED
    BY <1>6, <2>1, <2>2, CreateKept
<1>7. ASSUME NEW j \in Jobs, update_pageno(j) PROVE CreateInv'
  <2>1. Others(j) /\ SameCopy(j) /\ job'[j].pc = "append" /\ job[j].pc = "pageno"
    BY <1>7, Fields DEF update_pageno, SamePages
  <2>2. snapshot'.mode = job[j].mode /\ snapshot'.start_page = job[j].start
    BY <1>7 DEF update_pageno, TypeOK, SnapshotRec
  <2>3. job[j].pc \in Working /\ job'[j].pc \in Working
    BY <2>1 DEF Working, Exporting
  <2>4. job[j].mode \in {"create", "append"}
    BY DEF TypeOK, JobRec
  <2> QED
    BY <2>1, <2>2, <2>3, <2>4 DEF CreateInv, Others, SameCopy
<1>8. ASSUME NEW j \in Jobs, append_file(j) PROVE CreateInv'
  <2>1. Others(j) /\ SameCopy(j) /\ job'[j].pc = "log"
    BY <1>8, Fields DEF SamePages
  <2>2. job[j].pc = "append" /\ job[j].pc \in Working
    BY <1>8 DEF append_file, Working, Exporting
  <2> QED
    BY <1>8, <2>1, <2>2, CreateKept DEF append_file
<1>9. ASSUME NEW j \in Jobs, log_write(j) PROVE CreateInv'
  <2>1. PICK pc \in {"next", "zip", "done"} : Goto(j, pc)
    BY <1>9 DEF log_write
  <2>2. Others(j) /\ SameCopy(j) /\ job'[j].pc # "enqueue"
    BY <2>1, Fields DEF SamePages
  <2>3. job[j].pc = "log" /\ job[j].pc \in Working
    BY <1>9 DEF log_write, Working, Exporting
  <2>4. snapshot'.mode = snapshot.mode /\ snapshot'.start_page = snapshot.start_page
    BY <1>9 DEF log_write, TypeOK, SnapshotRec
  <2> QED
    BY <2>2, <2>3, <2>4, CreateKept
<1>10. ASSUME NEW j \in Jobs, update_start(j) PROVE CreateInv'
  <2>1. Others(j) /\ job'[j].pc = "enqueue" /\ job[j].pc = "next"
    BY <1>10, Fields DEF update_start
  <2>2. snapshot'.mode = "append"
    BY <1>10 DEF update_start, TypeOK, SnapshotRec
  <2>3. job'[j].pc \notin Working
    BY <2>1 DEF Working, Exporting
  <2> QED
    BY <2>1, <2>2, <2>3 DEF CreateInv, Others
<1>11. ASSUME NEW j \in Jobs, perform_later(j) PROVE CreateInv'
  <2>1. PICK i \in Jobs :
          /\ i # j /\ job[i].pc = "free" /\ job'[i].pc = "queued"
          /\ job[j].pc = "enqueue" /\ job'[j].pc = "done"
          /\ \A k \in Jobs \ {i, j} : job'[k] = job[k]
    BY <1>11, NewJob
  <2>2. snapshot' = snapshot /\ snapshot.mode = "append"
    BY <1>11, <2>1 DEF perform_later, CreateInv
  <2>3. "queued" \notin Working /\ "done" \notin Working /\ "free" \notin Working /\ "enqueue" \notin Working
    BY DEF Working, Exporting
  <2>4. \A k \in Jobs : ~(job[k].pc \in Working /\ job[k].mode = "create")
    BY <2>1, <2>3 DEF CreateInv
  <2>5. \A k \in Jobs : ~(job'[k].pc \in Working /\ job'[k].mode = "create")
    BY <2>1, <2>3, <2>4
  <2> QED
    BY <2>1, <2>2, <2>5 DEF CreateInv
<1>12. ASSUME NEW j \in Jobs, Writes(j) PROVE CreateInv'
  <2>1. CASE crawl(j)
    BY <1>6, <2>1 DEF crawl
  <2>2. CASE crawl_refused(j)
    BY <1>6, <2>2 DEF crawl_refused
  <2> QED
    BY <1>5, <1>7, <1>8, <1>9, <1>10, <1>11, <1>12, <2>1, <2>2 DEF Writes
<1> QED
  BY <1>1, <1>2, <1>3, <1>4, <1>12, StepKinds

-------------------------------------------------------------------------------
\* Nothing is skipped.

\* The file only grows, but for a job in create mode that removes it.
LEMMA FileGrows ==
    ASSUME TypeOK, BoundInv, NEW j \in Jobs, append_file(j)
    PROVE  /\ InFile(file) \subseteq InFile(file') /\ Flushed(job[j]) \subseteq InFile(file')
           /\ Len(file') = Len(file) + job[j].flushed
           /\ \A i \in 1..Len(file) : file'[i] = file[i]
           /\ \A i \in 1..job[j].flushed : file'[Len(file) + i] = job[j].temp[i]
<1> DEFINE t == job[j].temp
           n == job[j].flushed
<1>1. file \in Seq(0..LastPage) /\ t \in Seq(0..LastPage) /\ n \in 0..Len(t)
  BY DEF TypeOK, BoundInv, Bounded, JobRec
<1>2. file' = file \o SubSeq(t, 1, n)
  BY DEF append_file
<1> HIDE DEF t, n
<1> DEFINE S == 0..LastPage
           g == file \o SubSeq(t, 1, n)
<1>3. file \in Seq(S) /\ t \in Seq(S)
  BY <1>1
<1> HIDE DEF S, g
<1>4. /\ g \in Seq(S) /\ Len(g) = Len(file) + n
      /\ \A i \in 1..Len(file) : g[i] = file[i]
      /\ \A i \in 1..n : g[Len(file) + i] = t[i]
  BY <1>3, <1>1, Appended DEF g
<1>5. file' = g
  BY <1>2 DEF g
<1>6. /\ file' \in Seq(0..LastPage) /\ Len(file') = Len(file) + n
      /\ \A i \in 1..Len(file) : file'[i] = file[i]
      /\ \A i \in 1..n : file'[Len(file) + i] = t[i]
  BY <1>4, <1>5 DEF S
<1>7. n \in Nat /\ Len(file) \in Nat /\ DOMAIN file = 1..Len(file) /\ DOMAIN file' = 1..(Len(file) + n)
  BY <1>1, <1>6
<1>8. InFile(file) \subseteq InFile(file')
  <2>1. \A i \in DOMAIN file : i \in DOMAIN file' /\ file'[i] = file[i]
    BY <1>6, <1>7
  <2> QED
    BY <2>1 DEF InFile
<1>9. \A i \in 1..n : Len(file) + i \in DOMAIN file'
  BY <1>1, <1>7
<1>10. {t[i] : i \in 1..n} \subseteq InFile(file')
  BY <1>6, <1>9 DEF InFile
<1> QED
  BY <1>6, <1>8, <1>10 DEF t, n, Flushed

\* What a job has fetched after an answer.
LEMMA AnswerFlushed ==
    ASSUME TypeOK, BoundInv, NEW j \in Jobs, NEW page \in 0..LastPage, NEW pageno, NEW total,
           Answered(j, page, pageno, total)
    PROVE  /\ Flushed(job[j]) \subseteq Flushed(job'[j])
           /\ page \in Small \/ page = 0 \/ page \in Flushed(job'[j])
<1> DEFINE t == job[j].temp
           n == job[j].flushed
           u == Append(t, page)
<1>1. t \in Seq(0..LastPage) /\ n \in 0..Len(t)
  BY DEF TypeOK, BoundInv, Bounded, JobRec
<1>2. job'[j].temp = u /\ (job'[j].flushed = Len(u) \/ (job'[j].flushed = n /\ page \in Small \cup {0}))
  BY DEF Answered
<1> HIDE DEF t, n
<1>3. Len(u) = Len(t) + 1 /\ u[Len(t) + 1] = page /\ \A i \in 1..Len(t) : u[i] = t[i]
  BY <1>1, AppendProperties
<1> HIDE DEF u
<1>4. Len(t) \in Nat /\ n <= Len(t) /\ n \in Nat
  BY <1>1
<1>5. \A i \in 1..n : i \in 1..Len(t) /\ i \in 1..job'[j].flushed /\ u[i] = t[i]
  BY <1>2, <1>3, <1>4
<1>6. Flushed(job[j]) \subseteq Flushed(job'[j])
  BY <1>2, <1>5 DEF Flushed, t, n
<1>7. ASSUME job'[j].flushed = Len(u) PROVE page \in Flushed(job'[j])
  <2>1. Len(t) + 1 \in 1..job'[j].flushed
    BY <1>3, <1>4, <1>7
  <2> QED
    BY <1>2, <1>3, <2>1 DEF Flushed
<1> QED
  BY <1>2, <1>6, <1>7

\* What is true of a job stays true when others add to the file.
LEMMA JobReachedKept ==
    ASSUME NEW i \in Jobs, job'[i] = job[i], JobReached(job[i]),
           InFile(file) \subseteq InFile(file'), refusals' = 0 => refusals = 0
    PROVE  JobReached(job[i])'
BY DEF JobReached, Reached, Fetched, Flushed

\* Nothing is claimed of a job that does not work.
LEMMA JobReachedIdle ==
    ASSUME NEW i \in Jobs, job'[i].pc \notin Working
    PROVE  JobReached(job[i])'
BY DEF JobReached, Working, Exporting

\* ReachedInv is preserved by every step.
LEMMA ReachedStep ==
    ASSUME TypeOK, BoundInv, CreateInv, ReachedInv, [Next]_vars
    PROVE  ReachedInv'
<1>0. /\ \A j \in Jobs : job[j].start \in 1..LastPage /\ job[j].pageno \in 0..LastPage
      /\ snapshot \in SnapshotRec /\ snapshot.start_page \in 1..LastPage
      /\ StartPage \in Nat /\ LastPage \in Nat /\ refusals \in Nat
  BY LastPageBound, SnapshotAssumption DEF TypeOK, JobRec, SnapshotRec, SnapshotAssumption
<1>1. ASSUME NEW j \in Jobs, Others(j), file' = file, refusals' = 0 => refusals = 0,
             snapshot'.start_page = snapshot.start_page, JobReached(job[j])'
      PROVE  ReachedInv'
  BY <1>1, JobReachedKept DEF ReachedInv, NothingSkipped, Others
<1>2. CASE Quiet
  BY <1>2, JobReachedKept DEF Quiet, SameSnapshot, ReachedInv, NothingSkipped
<1>3. ASSUME NEW j \in Jobs, Ends(j) \/ Goes(j) \/ PutBack(j) PROVE ReachedInv'
  <2>1. Others(j) /\ job'[j].pc \in {"free", "queued", "export", "queue", "done"}
    BY <1>3, Fields DEF Goes
  <2>2. job'[j].pc \notin Working
    BY <2>1 DEF Working, Exporting
  <2> QED
    BY Zenon, <1>1, <1>3, <2>1, <2>2, JobReachedIdle DEF Ends, Goes, PutBack, SameSnapshot
<1>4. ASSUME NEW j \in Jobs, Begin(j) PROVE ReachedInv'
  <2>1. /\ Others(j) /\ job'[j].pc = "crawl" /\ job'[j].start = snapshot.start_page
        /\ job'[j].pageno = snapshot.start_page - 1
    BY <1>4, Fields
  <2>2. snapshot' = snapshot /\ refusals' = refusals /\ job[j].pc = "queued"
    BY <1>4 DEF Begin
  <2>3. Reached(file', snapshot.start_page - 1)
    <3>1. CASE snapshot.mode = "create"
      BY <1>0, <3>1 DEF CreateInv, Reached
    <3>2. CASE snapshot.mode # "create"
      BY <1>4, <3>2 DEF Begin, ReachedInv, NothingSkipped, Reached
    <3> QED
      BY <3>1, <3>2
  <2>4. Fetched(job'[j])
    BY <1>0, <2>1 DEF Fetched
  <2>5. JobReached(job[j])'
    BY <2>1, <2>3, <2>4 DEF JobReached
  <2>6. NothingSkipped'
    BY <2>2, <2>3 DEF NothingSkipped, Reached
  <2>7. ASSUME NEW i \in Jobs, i # j PROVE JobReached(job[i])'
    <3>1. job'[i] = job[i]
      BY <2>1, <2>7 DEF Others
    <3>2. CASE snapshot.mode = "create"
      <4>1. job'[i].pc = "free"
        BY <2>2, <2>7, <3>1, <3>2 DEF CreateInv
      <4>2. job'[i].pc \notin Working
        BY <4>1 DEF Working, Exporting
      <4> QED
        BY <4>2, JobReachedIdle
    <3>3. CASE snapshot.mode # "create"
      BY <1>4, <2>2, <3>1, <3>3, JobReachedKept DEF Begin, ReachedInv
    <3> QED
      BY <3>2, <3>3
  <2> QED
    BY Zenon, <2>5, <2>6, <2>7 DEF ReachedInv
<1>5. ASSUME NEW j \in Jobs, crawl(j) PROVE ReachedInv'
  <2> DEFINE page == job[j].pageno + 1
  <2>1. Received(j, page, page, pages) /\ job[j].pc = "crawl"
    BY Zenon, <1>5 DEF crawl
  <2>2. Others(j) /\ SameCopy(j) /\ Answered(j, page, page, pages)
    BY <2>1, Fields
  <2>3. page \in 1..LastPage
    BY <1>0, <2>1 DEF BoundInv, Bounded
  <2>4. /\ Flushed(job[j]) \subseteq Flushed(job'[j]) /\ (page \in Small \/ page \in Flushed(job'[j]))
    BY <1>0, <2>2, <2>3, AnswerFlushed
  <2>5. Fetched(job[j]) /\ Reached(file, job[j].start - 1)
    BY <2>1 DEF ReachedInv, JobReached, Working, Exporting
  <2>6. \A p \in job[j].start..page : p = page \/ p \in job[j].start..job[j].pageno
    BY <1>0
  <2>7. job'[j].pageno = page /\ job'[j].start = job[j].start /\ job'[j].pc \in {"crawl", "pageno"}
    BY <2>2 DEF Answered, SameCopy
  <2> HIDE DEF page
  <2>8. Fetched(job'[j])
    BY Zenon, <2>4, <2>5, <2>6, <2>7 DEF Fetched
  <2>9. JobReached(job[j])'
    BY <1>5, <2>5, <2>7, <2>8 DEF JobReached, crawl
  <2> QED
    BY <1>1, <1>5, <2>2, <2>9 DEF crawl
<1>6. ASSUME NEW j \in Jobs, crawl_refused(j) PROVE ReachedInv'
  <2> DEFINE total == IF job[j].total = 0 THEN 1 ELSE job[j].total
  <2>1. Received(j, 0, total, total) /\ job[j].pc = "crawl"
    BY Zenon, <1>6 DEF crawl_refused
  <2>2. Others(j) /\ SameCopy(j) /\ Answered(j, 0, total, total)
    BY <2>1, Fields
  <2>3. total \in Int
    BY DEF TypeOK, JobRec
  <2> HIDE DEF total
  <2>4. ~(total < total) /\ refusals' # 0
    BY <1>0, <1>6, <2>3 DEF crawl_refused
  <2>5. /\ job'[j].pageno = total /\ job'[j].total = total /\ job'[j].start = job[j].start
        /\ job'[j].pc = "pageno"
    BY <2>2, <2>4 DEF Answered, SameCopy
  <2>6. Reached(file, job[j].start - 1)
    BY <2>1 DEF ReachedInv, JobReached, Working, Exporting
  <2>7. JobReached(job[j])'
    BY Zenon, <1>6, <2>4, <2>5, <2>6 DEF JobReached, crawl_refused
  <2> QED
    BY <1>1, <1>6, <2>2, <2>4, <2>7 DEF crawl_refused
<1>7. ASSUME NEW j \in Jobs, update_pageno(j) PROVE ReachedInv'
  <2>1. /\ Others(j) /\ SamePages(j) /\ SameTemp(j) /\ job'[j].pc = "append" /\ job[j].pc = "pageno"
        /\ file' = file /\ refusals' = refusals
    BY <1>7, Fields DEF update_pageno
  <2>2. snapshot'.start_page = job[j].start
    BY Zenon, <1>0, <1>7 DEF update_pageno, SnapshotRec
  <2>3. JobReached(job[j]) /\ Reached(file, job[j].start - 1)
    BY Zenon, <2>1 DEF ReachedInv, JobReached, Working, Exporting
  <2>4. JobReached(job[j])'
    BY Zenon, <2>1, <2>3 DEF JobReached, SamePages, SameCopy, SameTemp, Fetched, Flushed
  <2>5. NothingSkipped'
    BY Zenon, <2>1, <2>2, <2>3 DEF NothingSkipped, Reached
  <2> QED
    BY <2>1, <2>4, <2>5, JobReachedKept DEF ReachedInv, Others
<1>8. ASSUME NEW j \in Jobs, append_file(j) PROVE ReachedInv'
  <2>1. /\ Others(j) /\ SamePages(j) /\ job'[j].pc = "log" /\ job[j].pc = "append"
        /\ snapshot' = snapshot /\ refusals' = refusals
    BY Zenon, <1>8, Fields DEF append_file
  <2>2. InFile(file) \subseteq InFile(file') /\ Flushed(job[j]) \subseteq InFile(file')
    BY Zenon, <1>8, FileGrows
  <2>3. JobReached(job[j]) /\ Reached(file, job[j].start - 1)
    BY <2>1 DEF ReachedInv, JobReached, Working, Exporting
  <2>4. Fetched(job[j]) => Reached(file', job[j].pageno)
    <3>1. \A p \in StartPage..job[j].pageno :
            p \in StartPage..(job[j].start - 1) \/ p \in job[j].start..job[j].pageno
      BY <1>0
    <3> QED
      BY <2>2, <2>3, <3>1 DEF Fetched, Reached
  <2>5. JobReached(job[j])'
    BY Zenon, <2>1, <2>2, <2>3, <2>4 DEF JobReached, SamePages, SameCopy, Reached
  <2>6. NothingSkipped'
    BY <2>1, <2>2 DEF ReachedInv, NothingSkipped
  <2> QED
    BY <2>1, <2>2, <2>5, <2>6, JobReachedKept DEF ReachedInv, Others
<1>9. ASSUME NEW j \in Jobs, log_write(j) PROVE ReachedInv'
  <2>1. PICK pc \in {"next", "zip", "done"} : Goto(j, pc) /\ (pc = "next" => pages_left(j))
    BY <1>9 DEF log_write
  <2>2. /\ Others(j) /\ SamePages(j) /\ job'[j].pc = pc /\ job[j].pc = "log"
        /\ file' = file /\ refusals' = refusals
    BY <1>9, <2>1, Fields DEF log_write
  <2>3. snapshot'.start_page = snapshot.start_page
    BY Zenon, <1>0, <1>9 DEF log_write, SnapshotRec
  <2>4. /\ Reached(file, job[j].start - 1)
        /\ pages_left(j) => Reached(file, job[j].pageno)
    BY <2>2 DEF ReachedInv, JobReached, pages_left, Working, Exporting
  <2>5. JobReached(job[j])'
    <3>1. CASE pc = "next"
      BY <2>1, <2>2, <2>4, <3>1 DEF JobReached, SamePages, SameCopy
    <3>2. CASE pc # "next"
      <4>1. job'[j].pc \notin Working
        BY <2>1, <2>2, <3>2 DEF Working, Exporting
      <4> QED
        BY <4>1, JobReachedIdle
    <3> QED
      BY Zenon, <3>1, <3>2
  <2> QED
    BY <1>1, <2>2, <2>3, <2>5
<1>10. ASSUME NEW j \in Jobs, update_start(j) PROVE ReachedInv'
  <2>1. /\ Others(j) /\ job'[j].pc = "enqueue" /\ job[j].pc = "next"
        /\ file' = file /\ refusals' = refusals
    BY <1>10, Fields DEF update_start
  <2>2. snapshot'.start_page = job[j].pageno + 1 /\ snapshot'.start_page - 1 = job[j].pageno
    BY <1>0, <1>10 DEF update_start, SnapshotRec
  <2>3. Reached(file, job[j].pageno)
    BY <2>1 DEF ReachedInv, JobReached
  <2>4. NothingSkipped'
    BY <2>1, <2>2, <2>3 DEF NothingSkipped, Reached
  <2>5. job'[j].pc \notin Working
    BY <2>1 DEF Working, Exporting
  <2> QED
    BY <2>1, <2>4, <2>5, JobReachedKept, JobReachedIdle DEF ReachedInv, Others
<1>11. ASSUME NEW j \in Jobs, perform_later(j) PROVE ReachedInv'
  <2>1. PICK i \in Jobs :
          /\ job'[i].pc = "queued" /\ job'[j].pc = "done"
          /\ \A k \in Jobs \ {i, j} : job'[k] = job[k]
    BY <1>11, NewJob
  <2>2. snapshot' = snapshot /\ file' = file /\ refusals' = refusals
    BY <1>11 DEF perform_later
  <2>3. job'[i].pc \notin Working /\ job'[j].pc \notin Working
    BY Zenon, <2>1 DEF Working, Exporting
  <2>4. \A k \in Jobs : JobReached(job[k])'
    BY <2>1, <2>2, <2>3, JobReachedKept, JobReachedIdle DEF ReachedInv
  <2> QED
    BY <2>2, <2>4 DEF ReachedInv, NothingSkipped
<1> QED
  BY <1>2, <1>3, <1>4, <1>5, <1>6, <1>7, <1>8, <1>9, <1>10, <1>11, StepKinds DEF Writes

\* CreateInv and ReachedInv hold initially.
LEMMA ReachedInit ==
    ASSUME Init
    PROVE  CreateInv /\ ReachedInv
<1>1. PICK j \in Jobs : job[j].pc = "queued" /\ \A i \in Jobs : i # j => job[i].pc = "free"
  BY InitJob
<1>2. \A i \in Jobs : job[i].pc \in {"queued", "free"} /\ job[i].pc \notin Working
  BY Zenon, <1>1 DEF Working, Exporting
<1>3. snapshot.mode = "create" /\ snapshot.start_page = StartPage
  BY DEF Init
<1>4. CreateInv
  BY <1>1, <1>2, <1>3 DEF CreateInv
<1>5. NothingSkipped
  BY <1>3, SnapshotAssumption DEF NothingSkipped, SnapshotAssumption
<1>6. \A i \in Jobs : JobReached(job[i])
  BY Zenon, <1>2 DEF JobReached
<1> QED
  BY <1>4, <1>5, <1>6 DEF ReachedInv

\* The next job starts where the file ends (api_snapshot_job.rb 12-17): no page before
\* the start page is missing but small ones, whatever fails, is killed or is put back.
THEOREM NoPageSkipped == Spec => []NothingSkipped
<1> DEFINE I == TypeOK /\ BoundInv /\ CreateInv /\ ReachedInv
<1>1. Init => I
  BY TypeInit, ReachedInit
<1>2. I /\ [Next]_vars => I'
  BY TypeStep, CreateStep, ReachedStep
<1>3. I => NothingSkipped
  BY DEF ReachedInv
<1> QED
  BY <1>1, <1>2, <1>3, PTL DEF Spec

-------------------------------------------------------------------------------
\* A finished snapshot is whole.

Ended == {"free", "done"}
Over == {"free", "zip", "export", "queue", "done"}

\* A step of the one job that is under way, before the snapshot is finished.
LEMMA FinishedKept ==
    ASSUME FinishedInv, requeues = 0, NEW j \in Jobs, Others(j), job[j].pc \notin Over,
           snapshot'.finished = snapshot.finished,
           job'[j].pc \in {"append", "log"} => snapshot'.pageno = job'[j].pageno
    PROVE  FinishedInv'
<1>1. ~snapshot.finished /\ ~snapshot'.finished
  BY DEF FinishedInv, Over
<1>2. \A i \in Jobs : i # j => job'[i].pc \in Ended
  BY DEF FinishedInv, Others, Over, Ended
<1> QED
  BY <1>1, <1>2 DEF FinishedInv, Ended

\* FinishedInv is preserved by every step.
LEMMA FinishedStep ==
    ASSUME TypeOK, ReachedInv, FinishedInv, [Next]_vars
    PROVE  FinishedInv'
<1>0. snapshot \in SnapshotRec
  BY Zenon DEF TypeOK
<1>1. CASE Quiet
  BY <1>1 DEF Quiet, SameSnapshot, FinishedInv
<1>2. ASSUME NEW j \in Jobs, Ends(j) PROVE FinishedInv'
  <2>1. Others(j) /\ job'[j].pc = "free"
    BY Zenon, <1>2, Fields
  <2> QED
    BY Zenon, <1>2, <2>1 DEF Ends, SameSnapshot, FinishedInv, Others
<1>3. ASSUME NEW j \in Jobs, Goes(j) PROVE FinishedInv'
  <2>1. PICK pc \in {"export", "queue", "done"} : Goto(j, pc)
    BY <1>3 DEF Goes
  <2>2. Others(j) /\ job'[j].pc \in {"export", "queue", "done"} /\ job[j].pc \in {"zip", "export", "queue"}
    BY Zenon, <1>3, <2>1, Fields DEF Goes
  <2> QED
    BY <1>3, <2>2 DEF Goes, SameSnapshot, FinishedInv, Others
<1>4. ASSUME NEW j \in Jobs, PutBack(j) PROVE FinishedInv'
  BY <1>4 DEF PutBack, FinishedInv
<1>5. ASSUME NEW j \in Jobs, Writes(j), requeues' = 0 PROVE FinishedInv'
  <2>0. requeues = 0
    BY Zenon, <1>5 DEF Writes, Begin, crawl, crawl_refused, update_pageno, append_file, log_write,
         update_start, perform_later
  <2>1. CASE Begin(j)
    <3>1. Others(j) /\ job'[j].pc = "crawl" /\ job[j].pc = "queued" /\ snapshot' = snapshot
      BY Zenon, <2>1, Fields DEF Begin
    <3> QED
      BY <2>0, <3>1, FinishedKept DEF Over
  <2>2. ASSUME NEW page, NEW pageno, NEW total, Received(j, page, pageno, total),
               job[j].pc = "crawl", snapshot' = snapshot
        PROVE FinishedInv'
    <3>1. Others(j) /\ job'[j].pc \in {"crawl", "pageno"}
      BY Zenon, <2>2, Fields DEF Answered
    <3> QED
      BY Zenon, <2>0, <2>2, <3>1, FinishedKept DEF Over
  <2>3. CASE crawl(j)
    BY <2>2, <2>3 DEF crawl
  <2>4. CASE crawl_refused(j)
    BY <2>2, <2>4 DEF crawl_refused
  <2>5. CASE update_pageno(j)
    <3>1. Others(j) /\ SamePages(j) /\ job'[j].pc = "append" /\ job[j].pc = "pageno"
      BY <2>5, Fields DEF update_pageno
    <3>2. snapshot'.pageno = job[j].pageno /\ snapshot'.finished = snapshot.finished
      BY <1>0, <2>5 DEF update_pageno, SnapshotRec
    <3> QED
      BY <2>0, <3>1, <3>2, FinishedKept DEF Over, SamePages
  <2>6. CASE append_file(j)
    <3>1. Others(j) /\ SamePages(j) /\ job'[j].pc = "log" /\ job[j].pc = "append" /\ snapshot' = snapshot
      BY Zenon, <2>6, Fields DEF append_file
    <3>2. snapshot.pageno = job[j].pageno
      BY <2>0, <3>1 DEF FinishedInv
    <3> QED
      BY <2>0, <3>1, <3>2, FinishedKept DEF Over, SamePages
  <2>7. CASE log_write(j)
    <3>1. PICK pc \in {"next", "zip", "done"} :
            Goto(j, pc) /\ (pc = "next" <=> pages_left(j))
      BY <2>7 DEF log_write
    <3>2. Others(j) /\ job'[j].pc = pc /\ job[j].pc = "log" /\ file' = file /\ refusals' = refusals
      BY <2>7, <3>1, Fields DEF log_write
    <3>3. snapshot'.pageno = snapshot.pageno /\ snapshot'.finished = (snapshot.finished \/ ~pages_left(j))
      BY <1>0, <2>7 DEF log_write, SnapshotRec
    <3>4. CASE pages_left(j)
      <4>1. snapshot.finished \in BOOLEAN
        BY <1>0 DEF SnapshotRec
      <4>2. snapshot'.finished = snapshot.finished
        BY Zenon, <3>3, <3>4, <4>1
      <4>3. job'[j].pc = "next" /\ job[j].pc \notin Over
        BY <3>1, <3>2, <3>4 DEF Over
      <4> QED
        BY <2>0, <3>2, <4>2, <4>3, FinishedKept
    <3>5. CASE ~pages_left(j)
      <4>1. \A i \in Jobs : i # j => job'[i].pc \in Ended
        BY <2>0, <3>2 DEF FinishedInv, Others, Ended
      <4>2. job'[j].pc \in {"zip", "done"}
        BY Zenon, <3>1, <3>2, <3>5
      <4>3. snapshot.pageno = job[j].pageno
        BY <2>0, <3>2 DEF FinishedInv
      <4>4. refusals' = 0 => Reached(file', snapshot'.pageno)
        BY <3>2, <3>3, <4>3 DEF ReachedInv, JobReached
      <4> QED
        BY Zenon, <4>1, <4>2, <4>4 DEF FinishedInv, Ended
    <3> QED
      BY <3>4, <3>5
  <2>8. CASE update_start(j)
    <3>1. Others(j) /\ job'[j].pc = "enqueue" /\ job[j].pc = "next"
      BY <2>8, Fields DEF update_start
    <3>2. snapshot'.finished = snapshot.finished
      BY <1>0, <2>8 DEF update_start, SnapshotRec
    <3> QED
      BY <2>0, <3>1, <3>2, FinishedKept DEF Over
  <2>9. CASE perform_later(j)
    <3>1. PICK i \in Jobs :
            /\ i # j /\ job[j].pc = "enqueue" /\ job'[i].pc = "queued" /\ job'[j].pc = "done"
            /\ \A k \in Jobs \ {i, j} : job'[k] = job[k]
      BY <2>9, NewJob
    <3>2. snapshot' = snapshot
      BY <2>9 DEF perform_later
    <3>3. ~snapshot.finished /\ \A k \in Jobs : k # i => job'[k].pc \in Ended
      BY <2>0, <3>1 DEF FinishedInv, Ended
    <3> QED
      BY <3>1, <3>2, <3>3 DEF FinishedInv, Ended
  <2> QED
    BY <1>5, <2>1, <2>3, <2>4, <2>5, <2>6, <2>7, <2>8, <2>9 DEF Writes
<1>6. requeues' # 0 => FinishedInv'
  BY DEF FinishedInv
<1> QED
  BY <1>1, <1>2, <1>3, <1>4, <1>5, <1>6, StepKinds

\* A finished snapshot has all pages up to the last one that it requested
\* (api_snapshot.rb 106-118), but small ones, if no job was put back and every answer
\* had paging information; jobs may fail or be killed.
THEOREM FinishedIsWhole == Spec => []WholeWhenFinished
<1> DEFINE I == TypeOK /\ BoundInv /\ CreateInv /\ ReachedInv /\ FinishedInv
<1>1. Init => I
  <2>1. Init => FinishedInv
    <3> SUFFICES ASSUME Init PROVE FinishedInv
      OBVIOUS
    <3>1. PICK j \in Jobs : job[j].pc = "queued" /\ \A i \in Jobs : i # j => job[i].pc = "free"
      BY InitJob
    <3>2. ~snapshot.finished
      BY DEF Init
    <3> QED
      BY <3>1, <3>2 DEF FinishedInv
  <2> QED
    BY <2>1, TypeInit, ReachedInit
<1>2. I /\ [Next]_vars => I'
  BY TypeStep, CreateStep, ReachedStep, FinishedStep
<1>3. I => WholeWhenFinished
  BY DEF FinishedInv, WholeWhenFinished, Reached
<1> QED
  BY <1>1, <1>2, <1>3, PTL DEF Spec

-------------------------------------------------------------------------------
\* Pages are in order.

\* An answer with its page continues the temporary file, one without ends it.
LEMMA AnswerOrder ==
    ASSUME TypeOK, BoundInv, NEW j \in Jobs, NEW page \in 0..LastPage, NEW pageno, NEW total,
           Answered(j, page, pageno, total), SameCopy(j), Pages(job[j])
    PROVE  /\ page = job[j].pageno + 1 /\ pageno = page => Pages(job'[j]) /\ PagesButLast(job'[j])
           /\ page = 0 => PagesButLast(job'[j])
<1> DEFINE t == job[j].temp
           u == Append(t, page)
           start == job[j].start
<1>1. t \in Seq(0..LastPage) /\ start \in Nat /\ job[j].pageno \in Nat
  BY DEF TypeOK, JobRec
<1>2. Len(t) = job[j].pageno + 1 - start /\ \A i \in DOMAIN t : t[i] = start + i - 1
  BY DEF Pages
<1>3. job'[j].temp = u /\ job'[j].start = start /\ job'[j].pageno = pageno
  BY DEF Answered, SameCopy
<1> HIDE DEF t, start
<1>4. /\ u \in Seq(0..LastPage) /\ Len(u) = Len(t) + 1 /\ u[Len(t) + 1] = page
      /\ \A i \in 1..Len(t) : u[i] = t[i]
  BY <1>1, AppendProperties
<1>5. Len(t) \in Nat /\ DOMAIN t = 1..Len(t) /\ DOMAIN u = 1..(Len(t) + 1)
  BY <1>1, <1>4
<1> HIDE DEF u
<1>6. \A i \in DOMAIN u : i \in DOMAIN t \/ i = Len(t) + 1
  BY <1>5
<1>7. \A i \in DOMAIN u : u[i] = start + i - 1 \/ (i = Len(u) /\ u[i] = page)
  BY <1>2, <1>4, <1>5, <1>6
<1>8. ASSUME page = job[j].pageno + 1, pageno = page PROVE Pages(job'[j])
  <2>1. page = start + Len(u) - 1 /\ Len(u) = pageno + 1 - start
    BY SMTT(30), <1>1, <1>2, <1>4, <1>5, <1>8
  <2>2. \A i \in DOMAIN u : u[i] = start + i - 1
    BY <1>7, <2>1
  <2> QED
    BY <1>3, <2>1, <2>2 DEF Pages
<1>9. page = 0 => PagesButLast(job'[j])
  BY <1>3, <1>7 DEF PagesButLast
<1>10. Pages(job'[j]) => PagesButLast(job'[j])
  BY DEF Pages, PagesButLast
<1> QED
  BY <1>8, <1>9, <1>10

\* Appending the pages of a job, which come after those in the file, keeps the order.
LEMMA AppendOrder ==
    ASSUME TypeOK, BoundInv, NEW j \in Jobs, append_file(j), Below(file, job[j].start),
           PagesButLast(job[j]),
           \A i, k \in DOMAIN file : i < k => file[i] < file[k] \/ file[k] = 0
    PROVE  /\ \A i, k \in DOMAIN file' : i < k => file'[i] < file'[k] \/ file'[k] = 0
           /\ Pages(job[j]) => Below(file', job[j].pageno + 1)
<1> DEFINE t == job[j].temp
           n == job[j].flushed
           start == job[j].start
           m == Len(file)
<1>1. /\ file \in Seq(0..LastPage) /\ t \in Seq(0..LastPage) /\ n \in 0..Len(t) /\ start \in Nat
      /\ job[j].pageno \in Nat
  BY DEF TypeOK, BoundInv, Bounded, JobRec
<1>2. /\ Len(file') = m + n /\ \A i \in 1..m : file'[i] = file[i]
      /\ \A i \in 1..n : file'[m + i] = t[i]
  BY FileGrows
<1>3. file' \in Seq(0..LastPage)
  BY Zenon, <1>1, Appended DEF append_file
<1>4. /\ \A i \in DOMAIN t : t[i] = start + i - 1 \/ (i = Len(t) /\ t[i] = 0)
      /\ \A i \in DOMAIN file : file[i] < start
  BY DEF PagesButLast, Below
<1>5. m \in Nat /\ n \in Nat /\ Len(t) \in Nat /\ n <= Len(t)
  BY <1>1
<1>6. DOMAIN file = 1..m /\ DOMAIN file' = 1..(m + n) /\ DOMAIN t = 1..Len(t)
  <2>1. DOMAIN file = 1..m /\ DOMAIN t = 1..Len(t)
    BY <1>1
  <2>2. DOMAIN file' = 1..Len(file')
    BY <1>3
  <2> QED
    BY <1>2, <2>1, <2>2
<1>7. \A i \in 1..m : file[i] \in Nat
  <2>1. \A i \in 1..Len(file) : file[i] \in 0..LastPage
    BY Zenon, <1>1, ElementOfSeq
  <2>2. 0..LastPage \subseteq Nat
    BY LastPageBound
  <2> QED
    BY <2>1, <2>2 DEF m
<1>8. start \in Nat /\ job[j].pageno \in Nat
  BY <1>1
<1>9. \A a \in 1..n : a \in DOMAIN t /\ a \in Nat
  BY <1>5, <1>6
<1>10. Pages(job[j]) => Len(t) = job[j].pageno + 1 - start /\ \A i \in DOMAIN t : t[i] = start + i - 1
  BY DEF Pages
<1> HIDE DEF t, n, start, m
<1>11. \A i \in DOMAIN file' : i \in 1..m \/ \E a \in 1..n : i = m + a
  <2> SUFFICES ASSUME NEW i \in DOMAIN file', i \notin 1..m PROVE \E a \in 1..n : i = m + a
    OBVIOUS
  <2>1. i - m \in 1..n /\ i = m + (i - m)
    BY <1>5, <1>6
  <2> QED
    BY <2>1
<1>12. \A i \in 1..m : file'[i] = file[i] /\ file'[i] < start
  BY <1>2, <1>4, <1>6
<1>13. \A a \in 1..n : file'[m + a] = start + a - 1 \/ (a = Len(t) /\ file'[m + a] = 0)
  BY <1>2, <1>4, <1>9
<1>14. ASSUME NEW i \in DOMAIN file', NEW k \in DOMAIN file', i < k
      PROVE  file'[i] < file'[k] \/ file'[k] = 0
  <2>1. CASE k \in 1..m
    <3>1. i \in 1..m
      BY <1>5, <1>14, <1>6, <2>1
    <3> QED
      BY <1>12, <1>14, <1>6, <2>1, <3>1
  <2>2. ASSUME NEW b \in 1..n, k = m + b PROVE file'[i] < file'[k] \/ file'[k] = 0
    <3>1. CASE i \in 1..m
      <4>1. file[i] \in Nat /\ file'[i] = file[i] /\ file'[i] < start
        BY <1>12, <1>7, <3>1
      <4>2. file'[k] = start + b - 1 \/ file'[k] = 0
        BY <1>13, <2>2
      <4> QED
        BY <1>8, <2>2, <4>1, <4>2
    <3>2. ASSUME NEW a \in 1..n, i = m + a PROVE file'[i] < file'[k] \/ file'[k] = 0
      <4>1. a < b /\ a # Len(t)
        <5>1. m + a < m + b
          BY <1>14, <2>2, <3>2
        <5>2. a < b
          BY <1>5, <5>1
        <5> QED
          BY <1>5, <5>2
      <4>2. file'[i] = start + a - 1
        BY <1>13, <3>2, <4>1
      <4>3. file'[k] = start + b - 1 \/ file'[k] = 0
        BY <1>13, <2>2
      <4> QED
        BY <1>8, <4>1, <4>2, <4>3
    <3> QED
      BY <1>11, <3>1, <3>2
  <2> QED
    BY <1>11, <2>1, <2>2
<1>15. ASSUME Pages(job[j]) PROVE Below(file', job[j].pageno + 1)
  <2>1. Len(t) = job[j].pageno + 1 - start /\ \A i \in DOMAIN t : t[i] = start + i - 1
    BY <1>10, <1>15
  <2>2. start <= job[j].pageno + 1 /\ \A a \in 1..n : start + a - 1 < job[j].pageno + 1
    BY <1>5, <1>8, <2>1
  <2>3. \A a \in 1..n : file'[m + a] < job[j].pageno + 1
    BY Zenon, <1>2, <1>9, <2>1, <2>2
  <2>4. \A i \in 1..m : file'[i] < job[j].pageno + 1
    BY <1>12, <1>7, <1>8, <2>2
  <2> QED
    BY <1>11, <2>3, <2>4 DEF Below
<1> QED
  BY <1>14, <1>15

\* Nothing is claimed of a job that has ended.
LEMMA JobOrderEnded ==
    ASSUME NEW i \in Jobs, job'[i].pc \in {"free", "zip", "export", "queue", "done"}
    PROVE  JobOrder(job[i])'
BY DEF JobOrder

\* OrderInv is preserved by every step.
LEMMA OrderStep ==
    ASSUME TypeOK, BoundInv, FinishedInv, OrderInv, [Next]_vars
    PROVE  OrderInv'
<1>0. /\ snapshot \in SnapshotRec /\ snapshot.start_page \in Nat
      /\ \A j \in Jobs : job[j].pageno \in Nat /\ job[j].start \in Nat
  BY DEF TypeOK, JobRec, SnapshotRec
<1>1. requeues' # 0 => OrderInv'
  BY Zenon DEF OrderInv, InOrder
<1>2. CASE Quiet
  BY Zenon, <1>2 DEF Quiet, SameSnapshot, OrderInv, InOrder, JobOrder
<1>3. ASSUME NEW j \in Jobs, Ends(j) \/ Goes(j) PROVE OrderInv'
  <2>1. Others(j) /\ job'[j].pc \in {"free", "export", "queue", "done"}
    BY Zenon, <1>3, Fields DEF Goes
  <2>2. SameSnapshot /\ file' = file /\ requeues' = requeues
    BY <1>3 DEF Ends, Goes
  <2>3. JobOrder(job[j])'
    BY Zenon, <2>1, JobOrderEnded
  <2>4. ASSUME NEW i \in Jobs, i # j, JobOrder(job[i]) PROVE JobOrder(job[i])'
    BY <2>1, <2>2, <2>4 DEF Others, SameSnapshot, JobOrder
  <2> QED
    BY <2>2, <2>3, <2>4 DEF OrderInv, InOrder
<1>4. ASSUME NEW j \in Jobs, PutBack(j) PROVE OrderInv'
  BY <1>1, <1>4 DEF PutBack
<1>5. ASSUME NEW j \in Jobs, Writes(j), requeues' = 0 PROVE OrderInv'
  <2>0. requeues = 0 /\ JobOrder(job[j]) /\ InOrder
    BY Zenon, <1>5 DEF Writes, Begin, crawl, crawl_refused, update_pageno, append_file, log_write,
         update_start, perform_later, OrderInv
  <2>1. ASSUME Others(j), job[j].pc \notin Ended, InOrder', JobOrder(job[j])'
        PROVE  OrderInv'
    <3>1. ASSUME NEW i \in Jobs, i # j PROVE JobOrder(job[i])'
      <4>1. job'[i].pc \in Ended
        BY <2>0, <2>1, <3>1 DEF FinishedInv, Others, Ended
      <4> QED
        BY <4>1, JobOrderEnded DEF Ended
    <3> QED
      BY <2>1, <3>1 DEF OrderInv
  <2>2. ASSUME file' = file PROVE InOrder'
    BY <2>0, <2>2 DEF InOrder
  <2>3. CASE Begin(j)
    <3>1. /\ Others(j) /\ SameTemp(j) /\ job'[j].pc = "crawl" /\ job[j].pc = "queued"
          /\ job'[j].start = snapshot.start_page /\ job'[j].pageno = snapshot.start_page - 1
      BY Zenon, <2>3, Fields DEF Begin
    <3>2. file' = <<>> \/ (file' = file /\ snapshot.mode # "create")
      BY <2>3 DEF Begin
    <3>3. DOMAIN <<>> = {} /\ Len(<<>>) = 0
      OBVIOUS
    <3>4. Below(file', snapshot.start_page)
      BY Zenon, <2>0, <3>1, <3>2, <3>3 DEF Below, JobOrder
    <3>5. job'[j].temp = <<>>
      BY <2>0, <3>1 DEF JobOrder, SameTemp
    <3>6. snapshot.start_page - 1 + 1 - snapshot.start_page = 0
      BY <1>0
    <3>7. Pages(job'[j])
      BY Zenon, <3>1, <3>3, <3>5, <3>6 DEF Pages
    <3>8. JobOrder(job[j])'
      BY <3>1, <3>4, <3>7 DEF JobOrder
    <3>9. InOrder'
      BY Zenon, <2>2, <3>2, <3>3 DEF InOrder
    <3> QED
      BY <2>1, <3>1, <3>8, <3>9 DEF Ended
  <2>4. CASE crawl(j)
    <3> DEFINE page == job[j].pageno + 1
    <3>1. Received(j, page, page, pages) /\ job[j].pc = "crawl" /\ file' = file
      BY Zenon, <2>4 DEF crawl
    <3>2. Others(j) /\ SameCopy(j) /\ Answered(j, page, page, pages)
      BY Zenon, <3>1, Fields
    <3>3. page \in 0..LastPage
      BY <1>0, <3>1, LastPageBound DEF BoundInv, Bounded
    <3>4. Pages(job[j]) /\ Below(file, job[j].start)
      BY Zenon, <2>0, <3>1 DEF JobOrder
    <3>5. Pages(job'[j]) /\ PagesButLast(job'[j])
      BY Zenon, <3>2, <3>3, <3>4, AnswerOrder
    <3>6. job'[j].pc \in {"crawl", "pageno"} /\ job'[j].start = job[j].start
      BY Zenon, <3>2 DEF Answered, SameCopy
    <3>7. JobOrder(job[j])'
      BY Zenon, <3>1, <3>4, <3>5, <3>6 DEF JobOrder
    <3> QED
      BY Zenon, <2>1, <2>2, <3>1, <3>2, <3>7 DEF Ended
  <2>5. CASE crawl_refused(j)
    <3> DEFINE total == IF job[j].total = 0 THEN 1 ELSE job[j].total
    <3>1. Received(j, 0, total, total) /\ job[j].pc = "crawl" /\ file' = file
      BY Zenon, <2>5 DEF crawl_refused
    <3>2. Others(j) /\ SameCopy(j) /\ Answered(j, 0, total, total)
      BY <3>1, Fields
    <3>3. 0 \in 0..LastPage /\ total \in Int
      BY LastPageBound DEF TypeOK, JobRec
    <3> HIDE DEF total
    <3>4. Pages(job[j]) /\ Below(file, job[j].start)
      BY Zenon, <2>0, <3>1 DEF JobOrder
    <3>5. PagesButLast(job'[j])
      BY <3>2, <3>3, <3>4, AnswerOrder
    <3>6. ~(total < total)
      BY <3>3
    <3>7. /\ job'[j].pc = "pageno" /\ job'[j].start = job[j].start
          /\ ~(job'[j].pageno < job'[j].total)
      BY Zenon, <3>2, <3>6 DEF Answered, SameCopy
    <3>8. JobOrder(job[j])'
      BY <3>1, <3>4, <3>5, <3>7 DEF JobOrder
    <3> QED
      BY Zenon, <2>1, <2>2, <3>1, <3>2, <3>8 DEF Ended
  <2>6. CASE update_pageno(j)
    <3>1. /\ Others(j) /\ SamePages(j) /\ SameTemp(j) /\ job'[j].pc = "append"
          /\ job[j].pc = "pageno" /\ file' = file
      BY Zenon, <2>6, Fields DEF update_pageno
    <3>2. JobOrder(job[j])'
      BY Zenon, <2>0, <3>1 DEF JobOrder, SamePages, SameCopy, SameTemp, Pages, PagesButLast
    <3> QED
      BY <2>1, <2>2, <3>1, <3>2 DEF Ended
  <2>7. CASE append_file(j)
    <3>1. Others(j) /\ SamePages(j) /\ job'[j].pc = "log" /\ job[j].pc = "append"
      BY Zenon, <2>7, Fields DEF append_file
    <3>2. /\ Below(file, job[j].start) /\ PagesButLast(job[j])
          /\ job[j].pageno < job[j].total => Pages(job[j])
      BY <2>0, <3>1 DEF JobOrder
    <3>3. \A i, k \in DOMAIN file : i < k => file[i] < file[k] \/ file[k] = 0
      BY Zenon, <2>0 DEF InOrder
    <3>4. /\ \A i, k \in DOMAIN file' : i < k => file'[i] < file'[k] \/ file'[k] = 0
          /\ Pages(job[j]) => Below(file', job[j].pageno + 1)
      BY Zenon, <2>7, <3>2, <3>3, AppendOrder
    <3>5. InOrder'
      BY <3>4 DEF InOrder
    <3>6. JobOrder(job[j])'
      BY Zenon, <3>1, <3>2, <3>4 DEF JobOrder, SamePages
    <3> QED
      BY <2>1, <3>1, <3>5, <3>6 DEF Ended
  <2>8. CASE log_write(j)
    <3>1. PICK pc \in {"next", "zip", "done"} : Goto(j, pc) /\ (pc = "next" => pages_left(j))
      BY <2>8 DEF log_write
    <3>2. Others(j) /\ SamePages(j) /\ job'[j].pc = pc /\ job[j].pc = "log" /\ file' = file
      BY Zenon, <2>8, <3>1, Fields DEF log_write
    <3>3. pages_left(j) => Below(file, job[j].pageno + 1)
      BY <2>0, <3>2 DEF JobOrder, pages_left
    <3>4. JobOrder(job[j])'
      BY Zenon, <3>1, <3>2, <3>3 DEF JobOrder, SamePages
    <3> QED
      BY <2>1, <2>2, <3>2, <3>4 DEF Ended
  <2>9. CASE update_start(j)
    <3>1. Others(j) /\ job'[j].pc = "enqueue" /\ job[j].pc = "next" /\ file' = file
      BY <2>9, Fields DEF update_start
    <3>2. snapshot'.start_page = job[j].pageno + 1
      BY <1>0, <2>9 DEF update_start, SnapshotRec
    <3>3. JobOrder(job[j])'
      BY Zenon, <2>0, <3>1, <3>2 DEF JobOrder
    <3> QED
      BY <2>1, <2>2, <3>1, <3>3 DEF Ended
  <2>10. CASE perform_later(j)
    <3>1. PICK i \in Jobs :
            /\ i # j /\ job'[i].pc = "queued" /\ job'[i].temp = <<>>
            /\ job[j].pc = "enqueue" /\ job'[j].pc = "done"
            /\ \A k \in Jobs \ {i, j} : job'[k] = job[k]
      BY <2>10, NewJob
    <3>2. snapshot' = snapshot /\ file' = file
      BY Zenon, <2>10 DEF perform_later
    <3>3. JobOrder(job[i])'
      BY Zenon, <2>0, <3>1, <3>2 DEF JobOrder
    <3>4. ASSUME NEW k \in Jobs, k # i PROVE JobOrder(job[k])'
      <4>1. job'[k].pc \in Ended
        BY <2>0, <3>1, <3>4 DEF FinishedInv, Ended
      <4> QED
        BY Zenon, <4>1, JobOrderEnded DEF Ended
    <3> QED
      BY Zenon, <2>2, <3>2, <3>3, <3>4 DEF OrderInv
  <2> QED
    BY <1>5, <2>3, <2>4, <2>5, <2>6, <2>7, <2>8, <2>9, <2>10 DEF Writes
<1> QED
  BY <1>1, <1>2, <1>3, <1>4, <1>5, StepKinds

\* Pages are in the file in their order, each once (api_snapshot.rb 91-93), unless
\* Sidekiq put a job back; jobs may fail or be killed, and pages come and go.
THEOREM PagesInOrder == Spec => []InOrder
<1> DEFINE I == TypeOK /\ BoundInv /\ CreateInv /\ ReachedInv /\ FinishedInv /\ OrderInv
<1>1. Init => I
  <2>1. ASSUME Init PROVE FinishedInv /\ OrderInv
    <3>1. PICK j \in Jobs : /\ job[j].pc = "queued" /\ job[j].temp = <<>>
                            /\ \A i \in Jobs : i # j => job[i].pc = "free"
      BY <2>1, InitJob
    <3>2. ~snapshot.finished /\ snapshot.mode = "create" /\ file = <<>>
      BY <2>1 DEF Init
    <3>3. FinishedInv
      BY <3>1, <3>2 DEF FinishedInv
    <3>4. \A i \in Jobs : JobOrder(job[i])
      BY Zenon, <3>1, <3>2 DEF JobOrder
    <3>5. DOMAIN <<>> = {}
      OBVIOUS
    <3>6. InOrder
      BY <3>2, <3>5 DEF InOrder
    <3> QED
      BY <3>3, <3>4, <3>6 DEF OrderInv
  <2> QED
    BY <2>1, TypeInit, ReachedInit
<1>2. I /\ [Next]_vars => I'
  BY TypeStep, CreateStep, ReachedStep, FinishedStep, OrderStep
<1>3. I => InOrder
  BY DEF OrderInv
<1> QED
  BY <1>1, <1>2, <1>3, PTL DEF Spec

===============================================================================

------------------------------ MODULE Snapshot ------------------------------
(***************************************************************************)
(* A snapshot of an API endpoint: ApiSnapshotJobs crawl some pages each and  *)
(* append them to a file; the job that reaches the last page may zip the     *)
(* file and leave it to a DataExportJob, which deposits it at Zenodo.        *)
(*                                                                         *)
(* One action is one request or one write to the database, the file or the  *)
(* queue.  The service is in use meanwhile: the endpoint gains and loses    *)
(* pages.                                                                  *)
(***************************************************************************)
EXTENDS Naturals, Sequences

CONSTANTS
    Jobs,        \* slots of Sidekiq, a bound on unfinished ApiSnapshotJobs
    PagesPerJob, \* num_pages
    StartPage,   \* start_page; nil starts at the first page, too
    StopPage,    \* stop_page; more than MaxPages if there is none
    Small,       \* pages that fit into Ruby's write buffer
    MaxPages,    \* bound: pages that the endpoint has
    MaxRefusals, \* bound: answers without paging information
    MaxRequeues, \* bound: jobs that a Sidekiq shutdown requeues
    MaxCrashes   \* bound: jobs that are killed

ASSUME SnapshotAssumption ==
    /\ PagesPerJob \in Nat \ {0} /\ StartPage \in Nat \ {0} /\ StopPage \in Nat
    /\ MaxPages \in Nat /\ MaxRefusals \in Nat
    /\ MaxRequeues \in Nat /\ MaxCrashes \in Nat

VARIABLES
    pages,    \* total_pages of the endpoint
    snapshot, \* the ApiSnapshot in the table data_exports
    file,     \* the pages in the snapshot file; page 0 is an answer without paging
    job,      \* ApiSnapshotJobs
    export,   \* the zip file, the ZenodoDataExport and its DataExportJob
    alert,    \* has a job created an alert?
    refusals, requeues, crashes

vars == <<pages, snapshot, file, job, export, alert, refusals, requeues, crashes>>

NoJob == [pc |-> "free", upload |-> FALSE, mode |-> "create", start |-> 1, pageno |-> 0,
          total |-> 0, temp |-> <<>>, flushed |-> 0]
Queued(upload) == [NoJob EXCEPT !.pc = "queued", !.upload = upload]
NoExport == [pc |-> "none", wanted |-> FALSE, zipped |-> FALSE, file |-> <<>>,
             finished |-> FALSE, failed |-> FALSE, deposits |-> 0, published |-> 0]

Goto(j, pc) == job' = [job EXCEPT ![j].pc = pc]

\* ApiCrawler#pages_left?
pages_left(j) == job[j].pageno < job[j].total /\ job[j].pageno < StopPage

-------------------------------------------------------------------------------
\* ApiSnapshot#export!

\* The snapshot is loaded; a job in create mode removes the file.
Begin(j) ==
    /\ job[j].pc = "queued"
    /\ job' = [job EXCEPT ![j] = [@ EXCEPT !.pc = "crawl", !.mode = snapshot.mode,
                     !.start = snapshot.start_page, !.pageno = snapshot.start_page - 1]]
    /\ file' = IF snapshot.mode = "create" THEN <<>> ELSE file
    /\ UNCHANGED <<pages, snapshot, export, alert, refusals, requeues, crashes>>

\* Mutant: the crawl goes on after the last page.
Received_on(j, page, pageno, total) ==
    LET temp == Append(job[j].temp, page)
    IN  \E flushed \in {Len(temp)} \cup (IF page \in Small \cup {0} THEN {job[j].flushed} ELSE {}) :
          job' = [job EXCEPT ![j] = [@ EXCEPT
                     !.pageno = pageno, !.total = total, !.temp = temp, !.flushed = flushed,
                     !.pc = IF pageno < StopPage /\ Len(temp) < PagesPerJob
                            THEN "crawl" ELSE "pageno"]]

\* An answer goes to the temporary file.  A large one is written at once, with all
\* that was buffered; a small one may stay in the buffer.
Received(j, page, pageno, total) ==
    LET temp == Append(job[j].temp, page)
    IN  \E flushed \in {Len(temp)} \cup (IF page \in Small \cup {0} THEN {job[j].flushed} ELSE {}) :
          job' = [job EXCEPT ![j] = [@ EXCEPT
                     !.pageno = pageno, !.total = total, !.temp = temp, !.flushed = flushed,
                     !.pc = IF pageno < total /\ pageno < StopPage /\ Len(temp) < PagesPerJob
                            THEN "crawl" ELSE "pageno"]]

\* ApiCrawler#crawl, one request.
crawl(j) ==
    /\ job[j].pc = "crawl"
    /\ Received(j, job[j].pageno + 1, job[j].pageno + 1, pages)
    /\ UNCHANGED <<pages, snapshot, file, export, alert, refusals, requeues, crashes>>

\* A request that is answered by JSON without paging information, as errors are:
\* the crawl ends there.
crawl_refused(j) ==
    LET total == IF job[j].total = 0 THEN 1 ELSE job[j].total
    IN  /\ job[j].pc = "crawl"
        /\ refusals < MaxRefusals
        /\ refusals' = refusals + 1
        /\ Received(j, 0, total, total)
        /\ UNCHANGED <<pages, snapshot, file, export, alert, requeues, crashes>>

\* The attributes are one serialized column, which is written as it was loaded but
\* for the new value.
update_pageno(j) ==
    /\ job[j].pc = "pageno"
    /\ snapshot' = [snapshot EXCEPT !.mode = job[j].mode, !.start_page = job[j].start,
                                    !.pageno = job[j].pageno]
    /\ Goto(j, "append")
    /\ UNCHANGED <<pages, file, export, alert, refusals, requeues, crashes>>

\* Mutant: the file is written anew.
append_file_over(j) ==
    /\ job[j].pc = "append"
    /\ file' = SubSeq(job[j].temp, 1, job[j].flushed)
    /\ job' = [job EXCEPT ![j] = [@ EXCEPT !.pc = "log", !.temp = <<>>, !.flushed = 0]]
    /\ UNCHANGED <<pages, snapshot, export, alert, refusals, requeues, crashes>>

\* The temporary file is read by its path, while it is open for writing.
append_file(j) ==
    /\ job[j].pc = "append"
    /\ file' = file \o SubSeq(job[j].temp, 1, job[j].flushed)
    /\ job' = [job EXCEPT ![j] = [@ EXCEPT !.pc = "log", !.temp = <<>>, !.flushed = 0]]
    /\ UNCHANGED <<pages, snapshot, export, alert, refusals, requeues, crashes>>

\* Mutant: the snapshot is finished after every job.
log_write_finishes(j) ==
    /\ job[j].pc = "log"
    /\ snapshot' = [snapshot EXCEPT !.finished = TRUE]
    /\ Goto(j, IF pages_left(j) THEN "next" ELSE IF job[j].upload THEN "zip" ELSE "done")
    /\ UNCHANGED <<pages, file, export, alert, refusals, requeues, crashes>>

\* FileWriteLog.create!, and with no pages left the snapshot is finished.
log_write(j) ==
    /\ job[j].pc = "log"
    /\ snapshot' = [snapshot EXCEPT !.finished = @ \/ ~pages_left(j)]
    /\ Goto(j, IF pages_left(j) THEN "next" ELSE IF job[j].upload THEN "zip" ELSE "done")
    /\ UNCHANGED <<pages, file, export, alert, refusals, requeues, crashes>>

Exporting == {"crawl", "pageno", "append", "log"}

\* An error in export!: the snapshot has failed, the job ends and is not retried.
ExportFails(j) ==
    /\ job[j].pc \in Exporting
    /\ snapshot' = [snapshot EXCEPT !.failed = TRUE]
    /\ job' = [job EXCEPT ![j] = NoJob]
    /\ alert' = TRUE
    /\ UNCHANGED <<pages, file, export, refusals, requeues, crashes>>

-------------------------------------------------------------------------------
\* ApiSnapshotJob#perform after snapshot!

\* Mutant: the next job is enqueued first.
update_start_late(j) ==
    /\ job[j].pc = "next"
    /\ \E i \in Jobs :
         /\ job[i].pc = "free"
         /\ job' = [job EXCEPT ![i] = Queued(FALSE), ![j].pc = "done"]
    /\ snapshot' = [snapshot EXCEPT !.mode = "append"]
    /\ UNCHANGED <<pages, file, export, alert, refusals, requeues, crashes>>

update_start(j) ==
    /\ job[j].pc = "next"
    /\ snapshot' = [snapshot EXCEPT !.mode = "append", !.start_page = job[j].pageno + 1,
                                    !.pageno = job[j].pageno]
    /\ Goto(j, "enqueue")
    /\ UNCHANGED <<pages, file, export, alert, refusals, requeues, crashes>>

\* perform_later(id: api_snapshot.id): the next job does not know about the upload.
perform_later(j) ==
    /\ job[j].pc = "enqueue"
    /\ \E i \in Jobs :
         /\ job[i].pc = "free"
         /\ job' = [job EXCEPT ![i] = Queued(FALSE), ![j].pc = "done"]
    /\ UNCHANGED <<pages, snapshot, file, export, alert, refusals, requeues, crashes>>

\* A zip file that is there has the entries already, and the job fails.
zip(j) ==
    /\ job[j].pc = "zip"
    /\ ~export.zipped
    /\ export' = [export EXCEPT !.zipped = TRUE, !.file = file]
    /\ Goto(j, "export")
    /\ UNCHANGED <<pages, snapshot, file, alert, refusals, requeues, crashes>>

export_to_zenodo(j) ==
    /\ \/ /\ job[j].pc = "export"
          /\ export' = [export EXCEPT !.pc = "created"]
          /\ Goto(j, "queue")
       \/ /\ job[j].pc = "queue"
          /\ export' = [export EXCEPT !.pc = "queued"]
          /\ Goto(j, "done")
    /\ UNCHANGED <<pages, snapshot, file, alert, refusals, requeues, crashes>>

\* An error after snapshot!
PerformFails(j) ==
    /\ job[j].pc \in {"next", "enqueue", "zip", "export", "queue"}
    /\ job' = [job EXCEPT ![j] = NoJob]
    /\ alert' = TRUE
    /\ UNCHANGED <<pages, snapshot, file, export, refusals, requeues, crashes>>

\* Sidekiq takes note of the end of the job.
Acknowledge(j) ==
    /\ job[j].pc = "done"
    /\ job' = [job EXCEPT ![j] = NoJob]
    /\ UNCHANGED <<pages, snapshot, file, export, alert, refusals, requeues, crashes>>

\* Sidekiq shuts down: it puts the unfinished job back and raises an exception in it.
Requeue(j) ==
    /\ job[j].pc \notin {"free", "queued"}
    /\ requeues < MaxRequeues
    /\ requeues' = requeues + 1
    /\ job' = [job EXCEPT ![j] = Queued(@.upload)]
    /\ snapshot' = [snapshot EXCEPT !.failed = @ \/ job[j].pc \in Exporting]
    /\ alert' = (alert \/ job[j].pc # "done")
    /\ UNCHANGED <<pages, file, export, refusals, crashes>>

\* The process is killed, and the job with it.
Crash(j) ==
    /\ job[j].pc \notin {"free", "queued"}
    /\ crashes < MaxCrashes
    /\ crashes' = crashes + 1
    /\ job' = [job EXCEPT ![j] = NoJob]
    /\ UNCHANGED <<pages, snapshot, file, export, alert, refusals, requeues>>

JobStep(j) ==
    \/ Begin(j) \/ crawl(j) \/ crawl_refused(j) \/ update_pageno(j) \/ append_file(j)
    \/ log_write(j) \/ ExportFails(j) \/ update_start(j) \/ perform_later(j) \/ zip(j)
    \/ export_to_zenodo(j) \/ PerformFails(j) \/ Acknowledge(j) \/ Requeue(j) \/ Crash(j)

-------------------------------------------------------------------------------
\* DataExportJob, ZenodoDataExport#export!

\* Mutant: an export that is finished is exported again.
export_begin_again ==
    /\ export.pc = "queued"
    /\ export' = [export EXCEPT !.pc = "deposit"]
    /\ UNCHANGED <<pages, snapshot, file, job, alert, refusals, requeues, crashes>>

export_begin ==
    /\ export.pc = "queued"
    /\ export' = [export EXCEPT !.pc = IF export.finished THEN "done" ELSE "deposit"]
    /\ UNCHANGED <<pages, snapshot, file, job, alert, refusals, requeues, crashes>>

\* Every deposition is a new one.
perform_upload ==
    /\ \/ export.pc = "deposit" /\ export' = [export EXCEPT !.pc = "upload", !.deposits = @ + 1]
       \/ export.pc = "upload" /\ export' = [export EXCEPT !.pc = "publish"]
       \/ export.pc = "publish" /\ export' = [export EXCEPT !.pc = "save", !.published = @ + 1]
       \/ export.pc = "save" /\ export' = [export EXCEPT !.pc = "finish"]
    /\ UNCHANGED <<pages, snapshot, file, job, alert, refusals, requeues, crashes>>

export_end ==
    /\ \/ export.pc = "finish" /\ export' = [export EXCEPT !.pc = "done", !.finished = TRUE]
       \/ export.pc = "done" /\ export' = [export EXCEPT !.pc = "ended"]
    /\ UNCHANGED <<pages, snapshot, file, job, alert, refusals, requeues, crashes>>

Uploading == {"deposit", "upload", "publish", "save", "finish"}

export_fails ==
    /\ export.pc \in Uploading
    /\ export' = [export EXCEPT !.pc = "ended", !.failed = TRUE]
    /\ alert' = TRUE
    /\ UNCHANGED <<pages, snapshot, file, job, refusals, requeues, crashes>>

export_requeue ==
    /\ export.pc \in Uploading \cup {"done"}
    /\ requeues < MaxRequeues
    /\ requeues' = requeues + 1
    /\ export' = [export EXCEPT !.pc = "queued", !.failed = @ \/ export.pc # "done"]
    /\ alert' = (alert \/ export.pc # "done")
    /\ UNCHANGED <<pages, snapshot, file, job, refusals, crashes>>

export_crash ==
    /\ export.pc \in Uploading \cup {"done"}
    /\ crashes < MaxCrashes
    /\ crashes' = crashes + 1
    /\ export' = [export EXCEPT !.pc = "ended"]
    /\ UNCHANGED <<pages, snapshot, file, job, alert, refusals, requeues>>

ExportStep ==
    \/ export_begin \/ perform_upload \/ export_end \/ export_fails
    \/ export_requeue \/ export_crash

-------------------------------------------------------------------------------
\* Works or events are added or deleted.
EndpointChanges ==
    /\ \E n \in {pages - 1, pages + 1} \cap (0..MaxPages) : pages' = n
    /\ UNCHANGED <<snapshot, file, job, export, alert, refusals, requeues, crashes>>

\* ApiSnapshotUtility.snapshot_later has created the snapshot and its first job.
Init ==
    /\ pages \in 0..MaxPages
    /\ snapshot = [mode |-> "create", start_page |-> StartPage, pageno |-> 0,
                   finished |-> FALSE, failed |-> FALSE]
    /\ file = <<>>
    /\ \E j \in Jobs, upload \in BOOLEAN :
         /\ job = [[i \in Jobs |-> NoJob] EXCEPT ![j] = Queued(upload)]
         /\ export = [NoExport EXCEPT !.wanted = upload]
    /\ alert = FALSE
    /\ refusals = 0 /\ requeues = 0 /\ crashes = 0

Next == (\E j \in Jobs : JobStep(j)) \/ ExportStep \/ EndpointChanges

Spec == Init /\ [][Next]_vars

-------------------------------------------------------------------------------
\* Properties.

\* No crawl runs past this page.
LastPage == IF MaxPages < StartPage THEN StartPage ELSE MaxPages

SnapshotRec == [mode : {"create", "append"}, start_page : 1..LastPage,
                pageno : 0..LastPage, finished : BOOLEAN, failed : BOOLEAN]

JobRec == [pc : Exporting \cup {"free", "queued", "next", "enqueue", "zip", "export", "queue", "done"},
           upload : BOOLEAN, mode : {"create", "append"},
           start : 1..LastPage, pageno : 0..LastPage, total : 0..LastPage,
           temp : Seq(0..LastPage), flushed : Nat]

ExportRec == [pc : Uploading \cup {"none", "created", "queued", "done", "ended"},
              wanted : BOOLEAN, zipped : BOOLEAN, file : Seq(0..LastPage), finished : BOOLEAN,
              failed : BOOLEAN, deposits : Nat, published : Nat]

TypeOK ==
    /\ pages \in 0..MaxPages
    /\ snapshot \in SnapshotRec
    /\ file \in Seq(0..LastPage)
    /\ job \in [Jobs -> JobRec]
    /\ export \in ExportRec
    /\ alert \in BOOLEAN
    /\ refusals \in 0..MaxRefusals /\ requeues \in 0..MaxRequeues /\ crashes \in 0..MaxCrashes

\* The pages of a sequence.
InFile(s) == {s[i] : i \in DOMAIN s}

\* The next job starts where the file ends (api_snapshot_job.rb 12-17): every page
\* before the start page is in the file, whatever jobs were put back, killed or
\* failed, but for small ones that were still in the write buffer.
NothingSkipped ==
    \A p \in StartPage..(snapshot.start_page - 1) : p \in Small \/ p \in InFile(file)

\* Pages are in the file in their order, each once ("to avoid getting partial
\* writes", api_snapshot.rb 91-93), unless Sidekiq put a job back.
InOrder ==
    requeues = 0 => \A i, k \in DOMAIN file : i < k => file[i] < file[k] \/ file[k] = 0

\* A snapshot is finished when it has all pages up to the last one that it
\* requested (api_snapshot.rb 106-118), if these were answered with paging.
WholeWhenFinished ==
    snapshot.finished /\ requeues = 0 /\ refusals = 0
        => \A p \in StartPage..snapshot.pageno : p \in Small \/ p \in InFile(file)

\* What is finished is not published again (zenodo_data_export.rb 44), although a
\* job may be put back after that.
NotPublishedAgain ==
    [][export.finished => export'.published = export.published]_vars

\* "Snapshot /api/works, zip it, and upload to Zenodo" (api.rake:23): a snapshot
\* that was to be uploaded and is finished without any trouble has an export.
UploadsWhenFinished ==
    (/\ export.wanted /\ snapshot.finished
     /\ (\A j \in Jobs : job[j].pc = "free") /\ ~alert /\ crashes = 0)
        => export.pc # "none"

===============================================================================

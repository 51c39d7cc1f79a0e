# TLA+ specification of Lagotto

Lagotto collects metrics (citations, downloads, mentions) of scholarly works
from external sources. This directory specifies the parts of it where several
processes share the database, the cache and the job queue, checks them with TLC
on small instances, and proves the main results with TLAPS for all instances.
Paths below are relative to the root of the Rails application.

## The system

| Part | Code | State it changes |
| --- | --- | --- |
| Source state machine | `app/models/concerns/statable.rb` | `sources.state` |
| Queue tasks (cron, hourly, or by hand) | `lib/tasks/queue.rake`, `app/models/source.rb` | `retrieval_statuses.queued_at`, Sidekiq |
| Retrieval | `app/jobs/source_job.rb`, `app/models/retrieval_status.rb` | `retrieval_statuses`, `months`, `days`, `works`, `sources.state` |
| HTTP and rate limits | `app/models/concerns/networkable.rb`, `configurable.rb` | `alerts`, rate limit in memcached |
| Install and uninstall | `lib/tasks/db.rake`, `app/controllers/sources_controller.rb`, `app/jobs/insert_retrieval_job.rb` | `sources.state`, `retrieval_statuses` |
| Alerts and filters (cron, daily) | `app/models/alert.rb`, `filter.rb`, `filters/` | `alerts`, `api_responses` |
| Works and relations | `app/models/work.rb`, `relation.rb`, `app/jobs/delete_event_job.rb` | `works`, `relations`, `retrieval_statuses` |
| Imports | `app/models/import.rb`, `imports/` | `works` |
| Data exports | `app/models/data_exports/`, `app/jobs/api_snapshot_job.rb`, `lib/api_crawler.rb` | `data_exports`, files, Zenodo |
| Caches | `Source#write_cache`, `app/models/status.rb` | memcached |
| Source agents, reports, API, users | `app/models/sources/`, `reports/`, `app/controllers/` | none shared |

The centre is the retrieval status: one row for every work and source. Each
hour `queue:stale` takes the rows of the active sources whose `scheduled_at` has
passed and whose `queued_at` is empty, sets `queued_at`, and enqueues a
`SourceJob` for every slice of `job_batch_size` rows. The job asks the external
service about each work in turn, stores the result, and clears `queued_at` at
its end or when it fails. A source has a state machine which jobs, rake tasks
and admins all drive, each with its own copy of the source.

## Modules

| Module | Models |
| --- | --- |
| `Statable` | the events of the source state machine, as operators on states |
| `Retrieval` | rake tasks, jobs, admin and environment around the rows of one source |
| `StatusQueue` | what queueing promises: marks and the processes responsible for them |
| `RateLimit` | the rate limit of a source under concurrent jobs |
| `Metrics` | what jobs write for one row: its total, months and days |
| `Works` | the works and relations that jobs store, and which rows they get |
| `Snapshot` | a snapshot of an API endpoint and its export to Zenodo |
| `Filters` | API responses, filters, alerts and the daily cron task |
| `MCRetrieval`, `MCMetrics`, `MCWorks`, `MCSnapshot`, `MCFilters` | symmetry, sets and inputs for the TLC configurations |
| `StatusQueueProofs`, `RetrievalProofs`, `RateLimitProofs`, `MetricsProofs`, `WorksProofs`, `RelationsProofs`, `SnapshotProofs`, `FiltersProofs` | theorems |

A `SourceJob` appears in several modules, each with the part of it that shares
state with something else: the marks and the state of the source in `Retrieval`,
the cache in `RateLimit`, the counts of a row in `Metrics`, the works it reports in
`Works`, the response it leaves behind in `Filters`. `Retrieval` says when two jobs
have the same row (`OneJobPerRow`); `Metrics` says what follows if they do not
(`disturbed`) and what still holds if they do.

### Retrieval

One action is one round trip to the database, the cache or Redis; everything
the code does in a single statement or transaction is one action. Sources share
no rows and are queued one after the other, so the module describes one source.

* A row is a pair of a work and a number: uninstalling deletes rows, installing
  inserts new ones, and an id is never reused. `rows`, `queued` and `stale` are the
  sets of rows that exist, have `queued_at`, and have a `scheduled_at` in the past.
* `rake[k]` is a rake process: it has loaded the source (`select`), will fire
  `wait` because it found nothing (`wait`), will mark the next slice (`mark`) or
  will enqueue the slice it has marked (`enqueue`). `active?` is asked of the
  copy loaded at the start, and that copy is active.
* `job[j]` is a `SourceJob`: its arguments `ids`, the rows it has `todo`, the
  row `cur` it works on, whether that row was marked when it was loaded (only
  then does `update_data` write `queued_at`), and the state `src` of its copy of
  the source. Firing an event on the copy writes `sources.state`, also when the
  event leads to the state the copy has. `update_data` writes nothing if the work
  or the source is not valid (`retrieval_status.rb:19`), and the job goes on.
* `admin` is an uninstall between its guard, which deletes rows and counts what
  is left, and its transition. It deletes every row (see the observations below); one
  that raises instead changes nothing. The other admin events are one action: the
  copy is loaded and saved within one request.
* `rescue_from` handlers are searched from the last declared to the first, so
  the one for `StandardError` handles every error: marks are cleared, an alert
  is created, and neither the handler that ignores an inactive source nor
  `retry_job` ever runs.

Data is abstract: alerts are the number that `check_for_failures` counts, the
rate limit is whether fewer than ten requests remain, a response is success or
failure. An error may be raised at any step of a job named in `RaiseAt`.

### RateLimit

`rate_limit_remaining` and `rate_limit_reset` are two keys of memcached that the
jobs of a source read and write without a lock. `worker[w]` is a job at one row:
the check, the wait time, the request, and after the response the update of the
counter (read the reset, read the counter, write it) and of the reset, each read
and write an action. Time is only whether it is the last second of the hour,
because `end_of_hour` is stored in whole seconds and so is reached in it;
`reset` counts how many such parts are left. `headers` is what the service
reports. A job that fails goes through the `rescue_from` handlers of the file in
the order in which Rails searches them. `made` and `recent` are not in the code: the
requests answered since the counter was refilled, and since time last moved on.

### Metrics

`perform_get_data` writes the total, then the record of the month, then that of
the day, each by a lookup and an insert, without a transaction. `records` holds
both tables. An error may come between any two statements, a save may be refused by
the validations (`update_attributes` returns false, and nobody asks), time passes,
and the source may report less than before. A count is computed from the last
record: in the same period it is what is missing to it, in a new one the difference
to that record, not to the sum of all records before.

### Works

`update_works` stores the items of a response with `Work.find_or_create`: create,
and on a duplicate look the work up by the column that was reported and update it.
An identifier is a pair of a type and an article, so that a lookup that finds
another article shows. Validations query what is committed, unique indexes bind
when a row is inserted, and the URL has none. A work that was created is
returned as an array, which has no `pid`, so that the job fails after it
(`Stored`); the work is there in the next retrieval and the job goes on then.
`InsertRetrievalJob` and `after_create` both insert rows, from what
each of them sees; a source that is `obsolete`, and so retired as soon as it is
installed, counts as installed for `after_create` but gets no `InsertRetrievalJob`
(`statable.rb:41`). `DeleteEventJob` destroys works one at a time and fails after
them.

### Snapshot

A job loads the snapshot, crawls `num_pages` pages into a temporary file, saves
the page number, appends the temporary file to the snapshot file, logs, and either
finishes or saves the next start page and enqueues another job. `file` is the
sequence of page numbers in the file. The columns of a snapshot are serialized
into one and so written all at once, with what the job has loaded. A page that
fits into Ruby's buffer may not be in the temporary file when it is read.
Sidekiq puts jobs back when it shuts down; jobs that were killed are gone. The
export creates a deposition, uploads, publishes, saves and finishes, each
an action.

### Filters

`Filter.run` reads the highest id of the unresolved responses, loads the active
filters, lets them query the unresolved responses up to that id one filter after
the other, and resolves all of these. What a filter looks for is a set of hits per
response, but for `SourceNotUpdatedError`, which looks for sources without a
response. A response gets its id when it is inserted and can be seen when it is
committed. The tasks are `cron:daily`, which goes on to delete responses and
resolve minor alerts, and `filter:all` by hand. An admin switches filters,
resolves alerts, makes all responses unresolved or deletes old ones by hand. `slipped`
marks responses that became visible under a run that had already begun and will
resolve them; `done` says whether a run has resolved a response, and if none did
so that it had not slipped under, that it was only `"missed"`.

## Runs

Bounds are constants of the configurations.

| Run | Checks | Instance |
| --- | --- | --- |
| `core` | `TypeOK`; `MarkHasJob`: every mark has a job or rake task that will clear it; `RestsUntilAdmin`: an inactive source without marks stays so whatever jobs are left; `ImplementsQueue`: every step is a step of `StatusQueue` | 1 work, 2 generations of its row, 2 jobs, all tasks and events, a crash |
| `stale_only` | `OneJobPerRow`: no row is processed twice | 2 works, batches of 1, `queue:stale` only |
| `liveness` | `MarksAreCleared`, `StaleReachesJob` | 2 works, `queue:stale`, inactivation, a requeue |
| `rate_limit` | `TypeOK`; `LimitReached`: a source that counts its requests itself finds its limit used up only if it is; `Recovers`: a source that has little left gets its limit back | 2 jobs, thresholds 1 and 3 of 5 requests, one key lost, one request failed, once an hour that ends while a job counts, services that report nothing, what remains, or both |
| `metrics` | `TypeOK`; `TotalIsReported`: records are computed from the total that the row has, if that was saved; `RecordsPerPeriod` | 2 jobs, 3 retrievals, 3 months of 2 days, daily records for 3 days |
| `works` | `TypeOK` (no relation or row of a work that is gone); `UniqueIds`; `RightWork`: relations belong to the reported article; `InverseRelation`; `RelationsPerPair`; `Collected`: tracked works have a row for every source | 2 jobs, 3 retrievals of 6 reports, a source that may be installed late or be retired, a deletion, a killed job |
| `snapshot` | `TypeOK`; `NothingSkipped`; `InOrder`; `WholeWhenFinished`; `NotPublishedAgain` | 3 pages, 2 per job, 2 requeues, a crash, an answer without paging, a growing and shrinking endpoint |
| `filters` | `TypeOK`; `Examined`: what is resolved was seen by every filter, unless it slipped under the run; `NothingLost`: what `cron:daily` deletes has been through a run; `OneAlert` | cron and a run by hand, 2 filters, 2 responses, 3 days, a failure, an intervention |

The instances are the smallest in which the cases that matter happen. Two jobs
are enough for a row to be in two jobs; two generations of a row let a job outlive
the row it has. Three retrievals of a row over three months give records
after a gap and records after two others. A known work and one that is reported
by DOI, PubMed ID, URL and arXiv make each branch of `find_or_create` run.
Three pages need two jobs, with a third slot for one that was put back. With two
responses and two tasks a response can be committed late under a run of the other.
`Metrics`, `Snapshot` and `Works` end when their bounds are used up, so deadlock
is not checked there.

Four more runs show where the code and what is written about it disagree; each
ends with a counterexample.

| Run | What is written | What happens |
| --- | --- | --- |
| `rate_stuck` | `configurable.rb:189`, "reset rate_limit every full hour" | only a response changes the counter, and a source disabled for its limit makes no requests |
| `month_stale` | `retrieval_status.rb:273`, "update this month's record" | `first_or_create` leaves a record that is there as it is |
| `month_counts` | `retrieval_status.rb:291`, "calculate events for current month based on past numbers" | only the last record is subtracted from the total: with a total of 1 throughout, three months get 1, 0 and 1 |
| `upload_dropped` | `lib/tasks/api.rake:23`, "Snapshot /api/works, zip it, and upload to Zenodo" | the second job of a snapshot is enqueued without the flag, and nothing is uploaded |

### Further observations

What follows is visible in the models, and where properties have
conditions, these are the reasons.

* `Source.active` contains disabled sources, so `queue:stale` queues their rows
  (`source.rb:81`; `statable.rb:9` says that they "can't queue or process jobs").
* `queue:all` takes queued rows, too (`source.rb:105`).
* An uninstall is to delete the records "that have never been updated"
  (`source.rb:384`), but Ruby evaluates the condition to `false`, which filters
  nothing. `spec/models/source_spec.rb:122` has the rows of a source go, and so does
  `Retrieval`; as the association has no `:dependent`, `delete_all` on it may set
  `source_id` to NULL instead, which the schema forbids.
* A failing job leaves the source in state working (`statable.rb:11`).
* A row that was marked by a process which died before it enqueued the job is
  never queued again by `queue:stale` (`source.rb:129`; `docs/setup.md:122`).
* `retry_job` for a source that must wait never runs, as the handler for
  `StandardError` is found first (`source_job.rb:22`, `source_job.rb:40`).
* Two jobs that create the same work: one may fail on the index of `pid`, then
  looks the work up by a URL that the item may lack, and so may take any work
  without URL. An item with an arXiv or PubMed Central id only takes that
  way always. So does an item that failed its validation because of a work that
  is destroyed before the lookup (hence the conditions of `RightWork`).
* A tracked item sets the identifiers that it lacks to nil in the work it is found by.
* `DeleteEventJob` is to spare works that are "linked via other sources"
  (`delete_event_job.rb:6`) but looks at the relations of the one source only; and
  `source.relations` does not exist, so that totals, months and days stay.
* A snapshot may lack small pages at the end of a job, as its temporary file
  is read before it is flushed (`api_snapshot.rb:111`); an answer without paging,
  as errors are, ends the crawl as if it were the last page (`api_crawler.rb:84`).
* A job that is put back between publishing a deposition and marking the export as
  finished publishes a second one.
* A response that is committed late or made unresolved during a run of the
  filters is resolved without having been seen by all (`filter.rb:32`).
* `docs/rake.md:158` has `db:api_responses:delete` delete the resolved responses that
  are older than a day. It deletes the unresolved ones, too (`db.rake:351`, and its
  description on line 348), as they may be after `filter:unresolve`, or if the task is
  run by hand and the filters were not; so `NothingLost` is about `cron:daily`.
* A second run of the filters within a day reports "Source not updated for 24
  hours" for sources whose responses the first one resolved, and without any
  response nothing is reported, as `Filter.run` returns early (`filter.rb:39`).
* An alert that an admin resolves between lookup and update is not raised anew.

### Fairness

`FairSpec` assumes that Sidekiq takes every step of every job it has, that a
rake task once started goes on, that cron starts `queue:stale` again and again
(`config/schedule.rb`, hourly) and that an `InsertRetrievalJob` is run. Nothing
is assumed of admins, time, alerts, the cache or crashes. `FairSpec` of
`RateLimit` assumes that jobs go on, that `queue:stale` makes new ones, and that
time passes; a request fails a bounded number of times unless the service has
used up its quota.

### When a source runs into its rate limit

Jobs overwrite each other's counter: requests may go uncounted, and more are
made than the limit allows. The other direction is `LimitReached`: a source that is
disabled for its limit has really had that many answers since its counter was
refilled. It is refilled by the first response after the full hour, except in two
cases, which the model has: memcached lost the time of the reset just
before, or a job was counting when the hour ended, and writes the old counter or the
next reset over it. That is why the property counts the answers since the last refill
(`made`), and not those of the hour.

TLC has two jobs in this run because liveness is checked for three kinds of services;
the theorem holds for any number. A source whose limit jobs approach faster than they
see each other's updates is disabled although each of them waits below the upper
threshold; nothing in the code says that it should not be.

### When a row is processed by one job only

`OneJobPerRow` holds under the conditions of `StaleAlone` in `RetrievalProofs`,
and each of them is needed: it fails when `queue:all`, `queue:one` or
`queue:reset` is used while jobs are queued, with two overlapping rake tasks,
when a source is inactivated (its marks are removed, its jobs are not) and
activated again, when Sidekiq runs a job a second time after a shutdown, when
`wait_after_check` raises after the marks were cleared, and when the staleness
interval is shorter than a job takes.

## Proofs

Every safety property of the passing runs is a theorem, for arbitrary sets of works,
processes, jobs, sources and filters and arbitrary bounds. The assumptions are those
named in the modules (`RetrievalAssumption` and so on): types of the constants,
finite sets of jobs and tasks, rake processes that are not jobs, thresholds in order,
and that no month, batch, report or list of filters is empty. Two theorems have a
further condition, which the instances of their runs satisfy: `StaleAlone` and
`OneArticle`. Most properties are not inductive; the invariants that imply
them are named below.

* `StatusQueueProofs`: `MarkHasOwner` is inductive together with the types.
* `RetrievalProofs!TypeCorrect`: the type invariant, one lemma per process.
* `RetrievalProofs!Refinement`: `Spec => ImplementsQueue`. `held` maps a rake
  process to its marked slice and a job to its arguments until it has cleared
  their marks; marking is `Take`, enqueueing `Give`, the end or failure of a job
  `Finish`, a crash `Lose`, and everything else at most `Unmark`. A job that runs
  again after it cleared its marks takes its rows anew.
* `RetrievalProofs!MarksHaveJobs`: `MarkHasJob`, carried over from the abstract
  queue by the refinement.
* `RetrievalProofs!Rests`: `RestsUntilAdmin`, from the invariant `CheckedCopy`
  (past its check, a job's copy is working).
* `RetrievalProofs!NoRowTwice`: `OneJobPerRow` under `StaleAlone`. It is not
  inductive: `UniqueInv` adds that held rows are disjoint, exist, and are marked
  unless they were just updated; that what a rake task selected is held by
  nobody; and that processes exist only while the source is active.
* `RateLimitProofs!RateLimitTypeCorrect`: the types, for any jobs and headers.
* `RateLimitProofs!LimitIsReached`: `LimitReached`, for any jobs, limits, lost keys and
  hours that end while a job counts. The invariant is about numbers of jobs: the
  counter, and whatever a job is about to store, is at least the limit less the
  answers so far, plus one for each job that has an answer and has yet to read the
  counter (`CountInv`). So a job that reads may take one off. Where the
  answers start anew, the counter must be full: when the reset is reached, the limit is
  stored before the next time of reset is (`ReachedInv`).
* `MetricsProofs`: `TypeCorrect`, `TotalWritten` (`TotalIsReported`) and
  `RecordsBounded` (`RecordsPerPeriod`), for any length of months and any number of
  retrievals and jobs. As long as one job at a time has the row, its total is the one
  that the job has loaded (`OneInv`), so that `update_attributes` writes what
  differs. That a period has no more records than there are jobs is an injection from
  records to jobs (`MakerInv`), which a job that makes a record extends by itself: a
  job that has found a record makes none.
* `WorksProofs`: `WorksTypeCorrect`, `IdsUnique` (`UniqueIds`) and `AllCollected`
  (`Collected`), for any jobs, sources, identifiers and reports. The invariants say
  what a job still relies on between two statements: the works and sources it
  refers to are there (`Refers`), what it validated is still so if it runs alone
  (`ValidInv`), the sources that its transaction sees are those installed unless
  one came meanwhile (`SeesInv`). `Collected` is inductive with these: works without a
  row of a retired source are the first ones, as later works get one.
* `RelationsProofs`: `RelationsBounded` (`RelationsPerPair`, by an injection into the
  jobs as above), `InversesMade` (`InverseRelation`: a relation without inverse is that
  of the job which is about to make it) and, under `OneArticle`, `WorksRight`
  (`RightWork`): the errors of a validation lead to a work of the same article
  (`Explained`), and the job keeps to it (`Meant`).
* `SnapshotProofs`: `TypeCorrect`, `NoPageSkipped`, `PagesInOrder`,
  `FinishedIsWhole` and `PublishedOnce`, for any number of pages, pages per job,
  jobs put back and killed. The invariant relates what a job has in its temporary
  file to the page it started at and to what is in the file already; without
  jobs put back there is at most one job.
* `FiltersProofs`: `FiltersTypeCorrect`, `NoneLost` (`NothingLost`), `AlertsUnique`
  (`OneAlert`) and `AllExamined` (`Examined`), for any tasks, filters, sources and
  responses. For a response that a run resolves, each filter that it concerns has
  raised its alert, is still to come, or is the current one and has it in `found`
  (`Covered`). What a run of `cron:daily` has not resolved yet, of the days before, is
  within the primary keys it filters (`LostInv`); as it takes less than a day to get to
  the deletion, that is all the deletion can reach. Where a task is about to create an
  alert it has none yet, and without overlap nobody has (`AlertInv`).

Checked by TLC only: liveness (`MarksAreCleared`, `StaleReachesJob`, `Recovers`),
since the prover does not support `ENABLED` and so no fairness.

## Not modelled

* Imports: one page per job, and every work goes through `find_or_create`.
  `Import#queue_jobs` stops at a debugger call (`import.rb:69`).
* Caches: every value is computed anew from the tables, nothing is decided by it.
* Source agents (parsers of external formats), reports, the API, user accounts
  and the import from CouchDB keep no state that processes share. What agents
  report is the input of `Metrics` and `Works`.
* The Sidekiq monitor starts and stops an operating system process.
* The delay of batches (`schedule_at`), which changes when jobs start and nothing
  else; jobs start at any time here.
* Sources that date their events themselves (`get_events_by_month`), whose records
  are passed through.
* The JavaScript under `app/assets` consists of copies of libraries (jQuery, D3,
  lodash, Swagger UI) and of scripts that draw what the API answers. It is most of
  the repository by lines, and none of it takes part in what is described here.

`PROJECT.json` lists the components, the hazards and the lines each definition
models.

# A verification project for the nyaru clipper workstation

The repository is a local workstation that turns recorded streams into
subtitled clips.  A FastAPI backend keeps everything in one SQLite database; a
separate worker process claims tasks from a durable queue and runs them through
a fixed list of stages (`ingest`, `media_prep`, `asr`, `translation`,
`highlight`, `export`, `report`), the speech recognition of which runs in child
processes on the one GPU; a browser shows the queue and follows
it over server-sent events.

This directory models the part of it that is hard to test: the queue, the life
of a task between the API and the worker, crashes and recovery, the ASR child
processes, the files that the stages leave for each other and for later runs,
and the browser that follows it all over events.  It contains TLA+ modules, TLC
configurations and TLAPS proofs.

    tlc -workers 2 -config MCTaskPipeline_retry.cfg MCTaskPipeline
    tlc -workers 2 -config MCMediaStages_media.cfg MCMediaStages
    tlapm MediaStagesProofs.tla

`PROJECT.json` lists the components, the runs, the source lines every
definition stands for, the hazards and the theorems.

## 1. Inventory

| Component | State | Operations | Hard behaviour | What makes it correct |
|---|---|---|---|---|
| Workstation queue (`services/workstation_queue.py`, `api/routes/workstation_queue.py`) | `QueueEntry` rows (state, priority, position), `QueueState.revision` | enqueue, requeue, pause/resume, claim, finish, delete, reorder, `GET /queue` | races for the sole slot; two-statement reads; renumbering by every mutation | one running row; positions are ranks; revision identifies the view; an accepted order is the order |
| Worker loop (`worker.py`) | `TaskJob` rows, memory of the claim | recover stale jobs, claim, run, release | crash between any two transactions | every claim is released; a dead worker's job is recovered |
| Stage runner (`services/task_runner.py`) | `Task`, `TaskJob`, `TaskStage` | start, boundary check, mark, execute, checkpoint, fail, succeed | retries and cancels between commits; several ways out | task and job agree at the end; the checkpoint is accurate |
| Execution control (`services/task_control.py`, `api/routes/tasks.py`) | `TaskExecutionControl` (token, flags, process group) | cancel, force-kill, activate, finalise | check-then-act handlers; tokens of earlier executions | a cancel reaches the execution and costs at most one more stage |
| ASR process group (`services/pipeline_support.py`) | the child processes of the host | launch, track, signal, wait, heartbeat | orphans; a child that outlives its task | at most one child holds the GPU |
| Task records, retry (`repositories/tasks.py`) | the rows above | create, `retry_task_from_stage` | queue conflicts half way | a pending task is scheduled |
| Task creation (`repositories/tasks.py`, `api/routes/workstation_tasks.py`) | `Task.normalized_source_url`, `Task.source_video_id` | search for an open task, create; create without a search | the search precedes the lock; downloads rename and retries reopen | a submission is doubled by a race only |
| Pipeline runs (`services/workstation_runs.py`) | `PipelineRun` | create, start, finish | ways out that skip the finish | no run stays open |
| Task library (`services/task_library_lifecycle.py`) | the rows above | bulk requeue, delete, archive, tag | a batch that fails in part | a rejected item changes nothing |
| Event stream (`services/workstation_events.py`, its route) | `WorkstationEvent` table | stage, list after a cursor, prune | cursors that outlive their events | a client misses nothing |
| Browser event client (`web/src/workstation/api`) | connection, last id, query caches | connect, receive, reconnect, fall back to polling | lost frames, requests overtaken by events | no event is ignored; the screen catches up |
| Queue page (`web/src/workstation/features/queue`) | mutation lock, rollback | optimistic reorder, pause/resume | lost answers, cancelled requests | an unconfirmed order ends; the page unlocks |
| Media chunks (`media_chunks.py`, `media_prep.py`) | probe, chunk manifest, one WAV per chunk | plan, validate, reuse, cut | a source that changed, a crash between files | the plan covers the source once; every WAV fits the plan |
| ASR chunk cache and merge (`asr_whisperx.py`, `asr_child_runner.py`) | a directory per chunk, the merged transcript, the aggregate manifest | reuse, recognise, merge, verify | torn files, children that outlive their worker, results that validate and cannot be merged | what is announced is one merge of valid chunks |
| Translation, proofreading (`translation_provider.py`, `proofread_deepseek.py`) | a cached translation per chunk, draft, final pair | verify, partition, reuse, translate, proofread, publish, discard | caches of another transcript or provider, endless retries, half a pair | every line translates its own caption |
| Highlights, reporting (`highlights.py`, `clip_candidates.py`, `reporting.py`) | scene boundaries, `ClipCandidate` rows, the report | choose a transcript, find scenes, score, replace, list | files that a retry removes, rows of an earlier run | candidates are of the transcript at hand |
| Clip export (`clip_export.py`) | statuses of the task and of its export stage, artifact rows | check, encode, persist or fail | runs beside worker, retries and recovery | it misleads nobody but the task list; a failed task can be retried |
| Storage (`storage.py`) | `Artifact` rows, files | persist, invalidate translation outputs, clean up | files and rows part | announced subtitles are successful ones |
| Task queries, recovery advice (`repositories/workstation.py`, `repositories/tasks.py`, `recovery_actions.py`) | none | list with filters, count, overview, advise | projections that disagree | what is counted as failed can be found and retried |
| Download (`downloader.py`) | the source in `raw/` | BBDown, then yt-dlp | the first fails | the source arrives or the stage fails |
| Catalog, cleanup of tasks, diagnostics, settings, UI, scripts | files, configuration | pure I/O or pure functions of it | none that a state machine tells apart | not modelled (section 7) |

The components interact through the database only: API handlers and the worker
are different processes, and SQLite gives each `BEGIN IMMEDIATE ... COMMIT` the
sole writer lock.  The exceptions are signals (worker to ASR child), events
(database to browser), and the directory of the task, in which stages, children,
retries and exports read and write files without any lock.  That is why **one
transaction, or one file that appears, is one action** everywhere in the models,
and why the interesting behaviours are what happens *between* two of them.

## 2. Modules

| Module | Models | Role |
|---|---|---|
| `GpuSlot` | nothing in particular: the promise of the queue to everyone else | abstract specification |
| `TaskLife` | nothing in particular: what task list, jobs and queue together promise about a task | abstract specification |
| `WorkQueue` | every mutation of `workstation_queue.py`, and a browser's two-step read and reorder | component |
| `TaskPipeline` | the life of tasks: API handlers, clip exports, worker transactions, ASR children, crashes | composition of worker, runner, control, retry, library, exports, children |
| `EventStream` | the event table, the stream, a browser's connection and caches, the mutations of its queue page | component |
| `Captions` | cutting a source into chunks, merging the captions of the chunks, taking them apart again | operators |
| `MediaStages` | what the seven stages of one task read and write, file by file, with crashes, retries, exports and a changing source | component, uses `Captions` |
| `TaskCreation` | the two searches of `create_task` for an open task of the same source, beside all that changes what they find | component |
| `TaskView` | what counters, list filter and recovery panel make of it | projections of `MediaStages` |
| `MCWorkQueue`, `MCTaskPipeline`, `MCEventStream`, `MCMediaStages`, `MCTaskCreation` | values of the constants for TLC | model checking |
| `GpuSlotProofs`, `WorkQueueProofs`, `TaskPipelineProofs`, `OneWorkerProofs`, `EventStreamProofs`, `CaptionsProofs`, `MediaStagesProofs`, `TaskCreationProofs` | theorems | proofs |

### GpuSlot

One variable, `slot`, from tasks to queue-entry states.  A row may be admitted,
parked, acquired (only when nobody is running), released, dropped.  Both
`WorkQueue` (`slot <- SlotOf`, the state column of its rows) and `TaskPipeline`
(`slot <- entry`) refine it; its exclusivity theorem is proved once and
inherited by both through the refinement.

### TaskLife

Three variables: the status of a task in the list (`Task.status`), that of its
job (`TaskJob.status`) and its entry in the queue (`QueueEntry.state`).  The code
writes them in different transactions of two processes: a claim writes all, the
pipeline commits the outcome to task and job, `finish_queue_entry` puts the entry
into history later, recovery does all, an API request may come between any two,
and a clip export that fails writes the status of the task alone, whenever it
ends.  `TaskLife` says which sequences are left over: submitted, held and
resumed, begun in a free slot, settled once, concluded or recovered, reopened,
removed; and the status spoiled by an export at any time (`SpoilStatus`).  Its own
properties are `ScreensAgree` (list, jobs and queue contradict each other by a
failed export only) and `HistoryStands`.  `TaskPipeline` implements it with
`status <- task`, `work <- ` the statuses of the jobs, `turn <- entry`, for one
worker and without the bulk requeue that the run `lost_requeue` shows to break it.

### WorkQueue

`rows` is the `QueueEntry` table, `revision` is `QueueState.revision`, `view` what
each browser last read.  Each mutation ends in `Settle`, which is
`_normalize_positions` and `_increment_and_snapshot`.  A mutation is one
transaction under the writer lock and one step here: the order of the statements
inside it (renumber, increment, flush, build and stage the event) is not
modelled, and no property speaks of the payload of the event.  `created` stands for `created_at` and is the revision at
insertion (every insertion has its own).  `RequeueTask` counts the waiting rows
after its own row became queued, because the session flushes before it queries.
`ReadRevision` and `ReadEntries` are two actions, because `GET /queue` runs two
statements outside a transaction.

### TaskPipeline

The database is `task`, `job`, `stages`, `entry`, `control`, `runs`.  Each
worker has a program counter `pc` and a memory `ctx`; `children` are the live
ASR processes; `asking` holds the cancel requests whose handler has checked its
conditions and not yet written its flag.  `clips` are the tasks that have clip
candidates, `exporting` those of which the API is cutting a clip.

| Code | Action |
|---|---|
| `create_task`, pause/resume, `retry_task_from_stage`, bulk requeue and delete | `CreateTask`, `SetQueueState`, `RetryTask`, `BulkRequeue`, `DeleteTask` |
| cancel and force-kill handlers, check then write | `CheckStopRequest`, `WriteStopRequest` |
| `export_confirmed_clip`: the candidate it reads, the outcome it commits after ffmpeg | `StartExport`, `EndExport` |
| `_recover_stale_running_jobs` (own commit), or nothing stale | `RecoverStaleRunningJobs`, `PassRecovery` |
| the claiming transaction of `claim_next_job` | `ClaimNextJob`, `ClaimNothing` |
| `activate_execution` | `ActivateExecution` |
| `run_task_pipeline` up to the first executor | `StartPipeline`, `CancelAtStart` |
| the boundary check, then marking the next stage | `CheckBeforeStage`, `CancelBeforeStage`, `MarkStageRunning` |
| the outcome of an executor | `CompleteStage`, `CompleteCancelled`, `ReportFailure`, `FailStage` |
| the end of the stage list | `LoadFinalStage`, `CommitSuccess` |
| `StaleExecutionTokenError`, deleted rows | `AbandonStale`, `TaskVanished` |
| the ASR chunk loop and `run_cancellable_process` | `ReuseChunk`, `CancelBetweenChunks`, `SpawnChild`, `TrackChild`, `ReapChild`, `SignalChild`, `CancelChild`, `KillStaleChild` |
| the `finally` of the pipeline, `finish_queue_entry` | `ClosePipeline`, `FinishEntry` |
| the host | `ChildExits`, `Crash` |

`pc` = "idle" is the poll; "claim" is between the two transactions of
`claim_next_job`; "activate", "start" precede the pipeline; "check" and "mark"
surround a stage boundary; "exec" is an executor; "spawned", "child",
"signalled" are the life of a child as its worker knows it; "failing" lies
between a reported failure and `_mark_stage_failed`; "load", "final" end the
pipeline; "close", "finish" leave it.

A clip export needs a candidate when it begins and nothing when it ends: a task
that was retried, claimed, finished or recovered meanwhile gets the status of its
export stage, and if the export failed the status "failed"
(`pipeline_support.py:575` to `590`), while job, run, checkpoint and queue entry
stay as they are.  Nothing bounds the number of exports.  `Highlighted` are the
tasks with `highlight_filtering_enabled`, the only ones that ever get candidates,
so the only ones whose stage list must have the last three stages.

### EventStream

`log` is every event ever published (its index is its identifier, as SQLite
numbers rows), `low` the oldest one still in `WorkstationEvent`, `expired` how
far `created_at` has passed `_EVENT_RETENTION`.  `version` counts the changes of
each projection; a transaction (`Commit`) changes one, stages its event and
prunes.  `cursor` is the local variable of `iter_events`, `wire` the frames it
has yielded, `link`, `lastId`, `failures`, `polling`, `banner` the variables of
`useWorkstationEvents`, `cache`, `fetch`, `errored` the query client and
`mutation` the mutation of the queue page with its lock.  `received` is a
history variable that only the properties read.

| Code | Action |
|---|---|
| `publish_event`, `_prune_expired_events` | `Publish`, `Accept` (both `Commit`) |
| the clock | `Expire` |
| `connect`, `onopen`, `onerror`, the retry timer | `Open`, `Break`, `Reconnect` |
| `iter_events` | `SendPage` |
| the event listeners, the fallback timer | `Receive`, `Poll` |
| a request of the query client; "read again" | `FetchReads`, `FetchArrives`, `FetchFails`; `Retry` |
| `reorder`, `setState`, `onMutate` | `Mutate` |
| the answers of the queue API | `Accept`, `Reject` (409 with a snapshot), `Refuse`, `LoseMutation` |
| `onSuccess`/`onError` with `onSettled`; `refetchQueueAfterMutation` | `Settle`; `Unlock` |

### Captions

Operators only.  `Chunks(d)`, `ChunkStart`, `ChunkEnd` are the plan that
`build_media_chunk_manifest` builds for a source of duration `d`, `PlanIsValid`
what `validate_media_chunk_manifest` demands of it.  A *take* is what
recognition returned for one chunk; `IsNormal` is what it must satisfy to be
stored, `MergeAccepts` what the merge demands (more), `Merged` the captions in
source time with their running numbers.  A caption is identified by its *place*:
chunk and position in the chunk.  `Share` and `PartitionAccepts` are
`_partition_segments_by_media_chunk`.

### MediaStages

The directory of a task is `raw`, `probe`, `plan`, `wav`, `result`,
`transcript`, `aggregate`, `cache`, `draft`, `json`, `srt`, `scenes`, `report`;
its rows are `candidates`, `rows` (the kinds of `Artifact`), `task`, `stages`,
`stage` (the checkpoint of the job), `entry`.  `pc` is the next file, commit or
call of the worker, `index`, `length`, `captions`, `texts`, `attempt` its local
variables.  A file is represented by what it was made *from* (a WAV by the
recording it was cut from, a translated chunk by its source rows and provider),
because that is what reuse gets wrong.

| Code | Action |
|---|---|
| claim; the commit after a stage with its checkpoint; leaving the pipeline | `Claim`, `CommitCheckpoint`, `Release` |
| a crash; `_mark_job_stale_failed` | `Crash`, `Recover` |
| `run_download_stage`, its fallback | `IngestSource`, `FallBackToYtDlp` |
| `run_media_prep_stage` | `ProbeSource`, `CutChunk`, `WritePlan`, `FailMediaStage` |
| the ASR child: killed, recognition, outputs, manifest | `ChildFails`, `ChildTranscribes`, `ChildWritesOutputs`, `ChildSucceeds` |
| `_execute_asr_subprocess` and the merge | `LoadPlan`, `ReuseChunk`, `StartChild`, `AwaitChild`, `MergeChunks`, `WriteAggregate`, `PublishTranscript`, `FailAsr` |
| `translate_task_subtitles` and what it checks first | `VerifyTranscript`, `FailVerification`, `TranslateChunk`, `WriteDraft` |
| proofread batches and their retries | `ProofreadBatch`, `RetryRequest` |
| the final pair, and taking it back | `WriteJson`, `WriteSrt`, `DiscardPublication` |
| the highlight stage, the report | `ResolveScenes`, `ScoreCandidates`, `SkipHighlight`, `GenerateReport`, `FailReview` |
| `retry_task_from_stage`, accepted and refused | `Retry`, `RefusedRetry` |
| `export_confirmed_clip`, its end | `ExportClip`, `EndExport` |
| somebody replaces the source | `SourceChanges` |

### TaskView

`Listed` is the condition of the library's filter, `Bucket` the counters and
`RetryOffers` the recovery panel.

### TaskCreation

| Code | Action |
|---|---|
| `normalize_source_url` and the beginning of a request | `Submit` |
| the search by source, the search by video identifier | `SearchSource`, `SearchVideo` |
| `begin_queue_mutation`, the inserts, the commit; the lock is not free in time | `CreateTask`, `FailToLock` |
| `_create_workstation_task`, which does not search | `CreateLibraryTask` |
| the worker claims or goes on, an outcome or a failed export, the identifier a download found | `MarkRunning`, `CloseTask`, `DiscoverVideo` |
| `retry_task_from_stage`, bulk delete | `RetryTask`, `DeleteTask` |

A link is a page and perhaps a video identifier in its text, wherever it stands;
normalised, it is the video or else the page.  `since` and `after` are history:
the tasks that could first be found after the search of a request, and of the
request that made a task.  They restrict no step.  The three outcomes are one
status, "terminal"; which tasks the worker has is left open (`MarkRunning`
and `RetryTask` take any task that is there), so more tasks are reopened than the
code would reopen, and the property holds nevertheless.

### Abstractions, and why they are sound

* **Atomic stretches.** The write lock taken by a flush is held to the next
  commit.  `StartPipeline` therefore covers the code from the flush of
  `start_pipeline_run` to the first commit; a checkpoint covers
  `publish_stage_updated` to the commit after it.  The token test just before a
  checkpoint is taken with it: only another worker or a recovery by another
  worker could change the token between the two, and the manual says "Do not
  scale `worker` horizontally" (`src/docs/operator-manual.md:175`).
  A bulk requeue picks its restart stage in the same action as it writes.
* **Staleness.** A job counts as stale 300 seconds after its last transition;
  the model lets the recovering worker call any running job stale.  Every
  behaviour of the code is included, and more.
* **Tokens.** `uuid4` values are numbered in order of issue (`issued`).
* **Stages.** `NumStages` of them with one ASR stage; what the others do to
  files does not matter here.  `StageRun` rows mirror the stage rows (clip
  exports apart) and are left out; `gpu_bound` is always true at creation and is left out.
* **Order.** `TaskPipeline` claims any queued entry, `WorkQueue` says which.
* **Unreachable branches.** `claim_next_job` handles an entry without job, task
  or stage; rows are deleted together, so these branches cannot be taken.
* **Duplicate creation.** `CreateTask` of `TaskPipeline` is per identifier; the
  search for an open task of the same source is `TaskCreation`.
* **Reads outside of a transaction.** The SQLite driver begins no transaction for
  a SELECT (`db.py:35` leaves its default), so each sees the last commit.
* **The query client.** The semantics of `@tanstack/react-query` 5.100.1 (the
  version of `src/web/pnpm-lock.yaml`) are modelled as documented: an invalidated
  query is requested anew, the request under way is superseded and its waiter
  waits for the new one; a cancelled request changes nothing; a failed one is
  not repeated (`retry: false`).
* **One browser, caches loaded, pages mounted.** An unmounted query is requested
  when it is mounted and needs no event.  Other browsers are `Publish`.  All task
  projections are one topic.
* **Versions.** Changes that stage no event (the progress of a stage, the flag of
  a cancel request) are not versions: nobody is told.
* **Clip exports.** What an export reads of the task before ffmpeg ends decides
  only whether it ends in an outcome or in an error without a trace, and both are
  always possible.  Two exports of one task at once are the same as one after the
  other, since the end depends on nothing that was read.  When the worker sets a
  status that the task already has, SQLAlchemy sends no update for the column, so
  the `failed` that an export has written between the worker's read and its
  commit survives; that is the behaviour in which the export ends after the
  commit, and it is included.
* **Order of events.** Identifiers are assigned under SQLite's writer lock, so
  they become visible in order.  One page is under way at a time; frames of a
  connection arrive in order, so this loses no behaviour of the browser.
* **Time of the media.** `Captions` counts whole units.  With the default chunk
  of 300.0 seconds every inner boundary is a multiple of 300, which a binary
  float represents exactly, so the sums of the code are the products of the
  model.  A chunk length that is not a whole number of seconds is out of scope.
* **Recognition and translation** are choices: a child returns any take, a
  provider answers or fails, a proofread request succeeds, is repeated or fails.
  What a line says is represented by the caption and provider it was made from.
* **Failures of the file system.** Wherever a stage writes it may fail instead
  (`FailMediaStage`, `ChildFails`, `FailAsr`, `DiscardPublication`, `FailReview`);
  what it wrote before stays.
* **One task, one worker, no cancel in `MediaStages`.** Files belong to one
  task.  Claims among several tasks, stop requests and tokens are
  `TaskPipeline`; there, a stage is one step, here, a claim is.
* **Crashes in `MediaStages`** lose the memory of the worker and its uncommitted
  rows, keep every file that was renamed into place, and may leave the transcript
  of a child torn.  The ASR child survives; its next worker may have been
  configured with another provider.

## 3. Runs

All bounds are guards or sizes named as constants: `MaxRevision` (queue
mutations), `MaxRuns` (pipeline runs per task, hence retries), `MaxCrashes`,
`MaxBulk`, `Chunks`, `MaxEvents`, `MaxFaults`,
`MaxChanges` (of the source), `MaxExports`.  Deadlock is not checked, because
a system with bounded retries, revisions and events really stops when its bound
is used up.  Tasks are symmetric in the safety runs that have several; no
liveness run uses symmetry.

| Run | Question | Bounds, and why they are enough |
|---|---|---|
| `queue` | do positions, revisions and the slot stay right through every mutation, and who may reshuffle the line? | 3 tasks, priorities 0 and 1, one client, 5 mutations: a running row, two waiting rows, and a requeue, delete or reorder behind them |
| `slot` | do all handlers and transactions use the queue as a slot, even with the forbidden second worker, and does every step bring a claim nearer to its end (`EveryStepCounts`)? | 2 tasks without candidates, 2 workers, 2 stages, recoveries of live workers included |
| `retry` | does a retry from any stage, after any end, find consistent rows, is the job of a dead worker recovered, and do list, job and queue show what `TaskLife` allows, with clip exports beside all of it? | 1 task, 5 stages (one before ASR, then highlight, export, report), one crash, one retry, any number of exports; fairness |
| `bulk` | can a bulk requeue that races the worker break the slot or the cancellation, and does an outcome stand (`OutcomeIsFinal`)? | 1 task, 4 stages beginning with ASR, two crashes, a second run by a retry or by a bulk requeue, at any moment of the first that allows it, any number of exports.  That later runs are no different is what the theorems of `OneWorkerProofs` show |
| `release` | is every claim released, is the slot always owned, is there one child? | 2 tasks without candidates, 2 chunks, no crash; fairness |
| `events` | does a browser miss, ignore or misshow anything, and does its page come to rest? | 2 projections, 2 events (the second prunes the first when it has expired: `Retain` = 1, and a page holds one), 2 failures (the reconnect delays are used up; a mutation and its refetch both fail); fairness |
| `media` | is a file that is reused still right, do rows, files and statuses agree, does every run end? | 2 recordings, of 1 and of 2 chunks, so that plans grow, shrink and keep their chunks; 2 takes, one of which fits an inner chunk only and is refused by translation or by the merge elsewhere; 2 providers; 2 captions in 2 batches with one retry; 2 runs, one crash, one change of the source, one export; fairness.  610 000 distinct states, 72 deep |
| `twins` | when can a task that `create_task` made have an open twin? | 3 tasks, 2 requests at once and any number in turn, a link with the video in its text and one that turns out to be of that video, one local file; a task is closed, reopened and deleted at any time |

The safety part of `events` also holds with 3 events and one failure (1.7
million states); it is not kept as a run because it asks the same question.

Four further runs are expected to fail; each shows a place where the code does
not do what a document, a comment or a design says.

| Run | Violated | What happens |
|---|---|---|
| `lost_slot` | `EveryClaimReleases` | the worker dies between the terminal commit and `finish_queue_entry`; recovery looks at jobs only, so the entry runs for ever and nothing is claimed again |
| `lost_cancel` | `CancelReachesExecution` | a cancel accepted between the claim of a retry and `activate_execution` is reset by it |
| `lost_requeue` | `PendingTaskIsScheduled` | a bulk requeue that meets a queue conflict is reported as rejected, but its resets are committed |
| `poisoned` | `RejectedResultIsRetaken` | a chunk result with a caption outside of its chunk is valid for reuse and invalid for the merge; every retry of the stage reuses it and fails again |

Four more behaviours that the properties had to be written around: an accepted
reorder is re-sorted by priority at once (`workstation_queue.py:86`), so
`ReorderIsHonoured` speaks of tasks of one priority; a cancellation inside the
ASR stage leaves its pipeline run `running` (`task_runner.py:469`), which
`RunAgreement` exempts; a clip export that fails shows the task as failed although
its job and its last run succeeded, or although it waits in the queue
(`clip_export.py:76`), so that `TerminalAgreement`, `ScreensAgree` and
`HistoryStands` allow "failed" beside the status of the job, `RunAgreement` and
`OutcomeIsFinal` speak of the job, and `CheckpointIsAccurate` leaves the export
stage out; and a query whose refetch fails stays as it is until the
user or another event asks again (`App.tsx:8`), which `NewsIsActedUpon` and
`EventuallyFresh` exempt, as they do a browser that slept until an event was
expired and outside the retained window.

Further behaviours met while modelling.  They are faithful in the models; the
properties are worded around them.

* A worker that dies between `Popen` and the recording of the process group
  (`pipeline_support.py:191`) leaves a child nobody can kill, and a retry starts a
  second one beside it (`SpawnChild`, `Crash`).  `OneAsrChild` is therefore
  checked and proved without crashes.
* Two requests for one link that both search before either takes the writer lock
  both create a task (`repositories/tasks.py:311` to `331`); nobody looks again
  after the lock.  The test of duplicates (`tests/test_tasks_api.py:97`) submits
  one after the other.
* A retry that is refused because the queue entry still runs has already deleted
  the files of the translation (`repositories/tasks.py:456`, `storage.py:126`).
  This is the only way announced subtitles lose their files, which is what
  `OnlyARefusedRetryUnpublishes` says and the proof confirms.
* The highlight stage then falls back to the raw transcript
  (`highlights.py:170`), although `operator-manual.md:291` speaks of validated
  bilingual artifacts only.  The candidates are still of the transcript of this
  run (`CandidatesAreOfTheTranscript`).
* The scenes in `work/` are used whenever they are there (`highlights.py:193`);
  no retry removes them, so after a change of the source they are those of the
  old one.  `ResolveScenes` does the same, and no property denies it.
* The results of ASR chunks are found by position (`asr_whisperx.py:210`): after
  a change of the source with a retry from `ingest`, chunks recognised in the old
  source are reused.  `AsrSuccessIsVerifiable` asks that the merge is a merge,
  not that it is of the source at hand.
* A child that outlives a crashed worker may change a result after the stage has
  merged it; `AsrSuccessIsVerifiable` is about lives without a crash.
* A clip export that fails marks task and stage as failed, a later one that
  succeeds marks the stage only: the task stays failed with no failed stage, and
  the recovery panel has nothing to offer (`clip_export.py:76`).
  `FailedTaskOffersRetry` exempts a task that has an exported clip.
* The retry that the panel offers is refused with 409 while the queue entry runs
  (`workstation_queue.py:138`): for a moment after every failure, and for ever after
  the crash of the run `lost_slot`.  `FailedTaskOffersRetry` says that a stage is
  offered and not that the endpoint accepts it.
* A highlight stage that fails when it writes `highlight-candidates.json` has
  replaced the candidates, and the failure handler commits them
  (`task_runner.py:472`, without a rollback); `FailReview` keeps or replaces them.
  No candidate at all is a success of the stage (`highlights.py:97`).
* The overview expects `prepared_audio` and `clip_video` (`repositories/workstation.py:57`)
  where media preparation and export persist `asr_audio_chunk` and `clip_export`,
  so these two stages are never "ready".  `ExpectedKinds` has the kinds of the code.
* The parent looks for the failure report of a child at `work/asr-result.json`
  (`task_runner.py:737`), the child of a chunk writes it in the directory of the
  chunk; the reason is lost and the failure is not.
* Without any race a source has two open tasks after a creation through the
  library, which does not look for one (`workstation_tasks.py:217`), after a retry
  of a closed task that was submitted again in the meantime, and when a download
  finds the video of an open task.  `TwinsCameAfterTheSearch` allows what came
  after the search, races included, and nothing else.
* The name of an exported clip rounds its bounds to milliseconds
  (`clip_export.py:202`), so two clips within one millisecond share a file.

### Fairness

`FairSpec` of `TaskPipeline` asks three things.  `WF(WorkerStep(w))`: `worker_loop` is a
`while True` that catches what it runs, a crashed worker is restarted by its
supervisor, and every step of it terminates.  A poll that never finds a stale
job stale is no unfairness in the safety runs; under `WF` a worker that can do
nothing but recover (the claim refuses while a job is running) does recover at
last, which is the 300-second clock.  `WF(WriteStopRequest(t))`: an HTTP
handler that has passed its checks finishes.  `WF(\E c : ChildExits(c))`: a
child ends by itself or by the signal (the code escalates to `SIGKILL`).
Nothing is assumed of the API: nobody is obliged to retry, cancel or resume.

`FairSpec` of `EventStream`: timers fire and event loops run (`Open`,
`Reconnect`, `Receive`, `Settle`, `Unlock`), `iter_events` polls for ever
(`SendPage`), the API answers (`FetchReads`, the answers of a mutation), each
weakly fair.  `FetchArrives` is strongly fair: a poll may supersede a request
before its answer arrives, but not every time, as polls are 15 seconds apart.
Failures are bounded by `MaxFaults`, which is the assumption that they cease.
Nobody is obliged to publish, poll, retry or reorder.

`FairSpec` of `MediaStages`: `WF(WorkerStep)`, as above, and
`WF(\E c : ChildStep(c))`, as above.  A provider either answers or fails: every
request has a timeout.  The user, the source and the encoder owe nothing.

## 4. Proofs

All theorems hold for every value of the constants that satisfies the named
assumptions, not only for the instances above.

* `GpuSlotProofs!SlotIsExclusive` - at most one running entry.  `Exclusive` is
  inductive once the slot has its type: only `Acquire` adds a running entry and
  its guard says that there is none; `Release(T)` only removes them.
* `WorkQueueProofs!TypeCorrect`, `QueueImplementsGpuSlot`, `QueueIsExclusive` -
  the queue keeps its type, each mutation is a step of the slot (normalisation
  changes positions and never a state: lemma on `Normalized`), and exclusivity
  follows from the refinement.
* `WorkQueueProofs!RevisionTestIsSufficient` - a client with the current
  revision has seen the current queue, *although it reads in two statements*.
  The property is not inductive: a client that has read only the revision could
  later read entries of another revision.  The strengthening adds that no view
  carries a revision greater than the current one; the code reads the revision
  first, so entries read later under an older revision never look current.
* `WorkQueueProofs!PositionsRank`, `NewcomersGoToTheBack`, `LineKeepsItsOrder`,
  `ReorderIsKept` - the positions.  `Precedes`, the sort of
  `_normalize_positions`, is a strict order, total because no two rows are
  equally old; the position of a row is then one more than the number of rows
  before it, and n rows have the positions 1..n by the pigeonhole principle
  (`RanksAreOneToN`).  The inductive invariant `Settled` says that every position
  is the rank its row would be given again: renumbering does not change the order
  it numbers (`NormalizedOrder`), so a mutation moves only what it writes.  A
  newcomer's position is a count of the waiting rows; it is at the back because a
  queued row has only queued rows and at most one running row before it
  (`QueuedPositionIsBounded`, which uses `QueueIsExclusive`), and a tie goes to
  the older row.
* `TaskPipelineProofs!TypeCorrect` - the types of all rows, memories and
  children, one step per action.
* `TaskPipelineProofs!PipelineImplementsGpuSlot` - every action of every worker
  and handler, and every crash, is a step of the slot or leaves it alone.
  `CreateTask` is the step that needs help: it must not overwrite an entry.  The
  strengthening `NoEntryBeforeCreation` says a task that was never created has
  no queue entry.
* `TaskPipelineProofs!PipelineIsExclusive` - the exclusivity of the slot,
  inherited, so it holds for any number of workers.
* `TaskPipelineProofs!EveryClaimGetsShorter`, `ClaimsAreBounded` - from the claim
  to the release every step of a worker lowers `StepsLeft`, nobody else's step
  raises it, and it starts at most at 3 for each stage, 4 for each chunk and 5:
  no sequence of outcomes, cached chunks, stop requests, bulk requeues, takeovers
  and crashes keeps `run_task_pipeline` in its loops.
* `OneWorkerProofs` - the pipeline with the one worker of the documented
  deployment (`SoleWorker`; "Do not scale `worker` horizontally",
  `operator-manual.md:175`), for any number of tasks, stages, chunks and runs.
  Its inductive invariant ties `pc` to the rows, in parts that are added as their
  assumptions are:
  * `SlotInv` (`RunningJobsHoldTheSlot`): from the claim to the release the entry
    of the worker's task is running, so nobody can retry or delete it; while it
    executes its token is current; when it leaves, the job has ended.  `AbandonStale`,
    `TaskVanished` and `KillStaleChild` are therefore never taken
    (`NothingIsTakenOver`): they are there for a second worker.
  * `StopInv` (`StopCostsOneStage`): an execution that began a stage after
    its flag was set is still in that stage and the flag is still set, so the end
    of the stage sees it and no other stage follows.
  * `ChildInv` (`ChildrenAreSequential`), without crashes (`NoCrash`): a child is
    the one its worker waits for.
  * `StageInv` (`CheckpointsAreAccurate`, `OutcomesAgree`,
    `PendingTasksAreScheduled`), without bulk requeues (`NoBulkRequeue`): no stage
    beyond the checkpoint was touched but the export stage, the checkpoint is the
    stage of the worker, and what it leaves has one outcome, which the task shows
    unless it shows "failed".  The run `lost_requeue` shows why a bulk requeue is
    excluded.
  * `RunInv` (`RunsAgree`), likewise without bulk requeues: runs are numbered
    without gaps, the last run of a waiting task is pending, the worker remembers
    the last run, and recovery finds it active; a bulk requeue would put a run
    after the one the worker ends.
  * `OwnerInv` (`SlotsAreOwned`), without either: the worker never leaves its task
    without an outcome, so `ClosePipeline` always goes on to `FinishEntry`.
  * `JobInv` (`OutcomesAreFinal`), crashes and bulk requeues included: a task that
    waits has a pending job, and the job of a claimed task runs, or was made
    pending by a bulk requeue, until the worker commits its outcome.  So nobody who
    writes an outcome finds another one: recovery fails running jobs only, the
    worker settles a job that is open, and requests only reopen or delete.
  * `PipelineImplementsTaskLife`, without bulk requeues, from `JobInv`, `StageInv`
    and `ScreensAgree`, action by action: an API request is a step of `TaskLife` or
    a stutter (`ApiIsLifeStep`), and so are a clip export, the claim, what happens
    inside the pipeline, and leaving it.  `ScreensAgree` is inductive for `TaskLife`
    alone (`LifeKeepsAgreement`); `ScreensNeverDisagree` and `HistoryOfTasksStands`
    are inherited.
  * `WorkInv` (`LiveJobsAreNotRecovered`), without crashes, bulk requeues included: a
    running job has a worker at work, so the 300 seconds of
    `_recover_stale_running_jobs` never fail a live one.
  * `RunsWait` (`WorkersAreNeverStuck`): whatever it has claimed, the worker has a
    next step (`CanStep` spells the guards of `WorkerStep` out) or waits for a child
    that is alive; through crashes and bulk requeues.  A run waits for every
    execution that has not started, and the latest one exists by well-founded
    induction.
* `EventStreamProofs!ReplayLeavesNoGap` - what lies before a browser's cursor it
  has received, or it slept through the retention.  The strengthening is the
  shape of the stream: the wire holds exactly the last `Len(wire)` identifiers up
  to the server's cursor, and whatever lies between the browser and the wire was
  pruned; pruning takes only what may be pruned, and what may be pruned once may
  be pruned for ever (`PruneableForEver`).
* `EventStreamProofs!NoNewsIsLost` - `NewsIsActedUpon` is inductive, given that
  nothing is received before it is committed: a commit makes its event the
  latest one of its projection, which the browser cannot have received.
* `EventStreamProofs!OptimismIsRolledBack`, `BannerTellsTheTruth`, `TypeCorrect` -
  the rollback of a reorder is a confirmed order because a reorder starts from
  one; the banner and the timer both follow the count of failures, so the
  invariant ties the three together.
* `EventStreamProofs!QuietIsFresh` - a browser at rest (an open stream that has sent
  what it has, no request and no mutation under way) shows the database, or says
  that reading failed, or slept until its event was pruned.  It joins
  `NewsIsActedUpon` with a sharper form of `NoEventSkipped` (`SkippedIsPruned`: what was
  skipped is no longer in the table), and it is the safety half of
  `EventuallyFresh`: fairness only has to bring the browser to rest.
* `CaptionsProofs` - for every duration and chunk length: the plan that is built
  passes the validation it will be loaded with (`BuiltPlanIsValid`, from the
  lemma that a chunk is inner exactly when it has a successor); captions that the
  merge accepts lie inside their chunk in source time
  (`MergedCaptionsStayInTheirChunk`); translation therefore refuses an accepted
  transcript only for an empty caption (`OnlyEmptyCaptionsAreRefused`); the
  shares of the chunks take every caption once (`SharesPartition`), and where no
  caption is empty the share of a chunk is exactly what recognition returned for it
  (`SharesAreTheTakes`: merging and taking apart again is a round trip, through
  absolute times alone); and the running numbers follow time without an overlap
  (`NumbersFollowTime`, by counting the places before a caption).
* `MediaStagesProofs` - every safety property of the `media` run, for all
  recordings, takes, providers and bounds.  The invariants build on one another:
  * `TypeInv`, `StepInv`: types; the step of the worker belongs to the stage of
    the checkpoint, it holds the entry while it works, and remembers nothing
    between runs.
  * `StatusInv` (`FailureIsRecoverable`, `AnnouncedIsSuccessful`): no stage from
    the checkpoint on has succeeded while a run is under way, and a failed task
    has a failed stage; every failure writes both.
  * `SubtitleInv` (`TextsBelongToTheirCaptions`, `CommittedPairsAgree`,
    `SubtitlesAreOfTheTranscript`, `UnpublishingIsRefusal`): while translating,
    the worker holds exactly the translations of the captions in the chunks
    before its index, which with `SharesPartition` makes the texts complete at
    the end; and a run that starts at or before translation has no final files,
    which is what allows the transcript to be replaced.
  * `PreparationInv` (`PreparationIsCurrent`): while cutting, the worker
    holds the duration of the source at hand and every chunk before the index has
    a WAV of its length, new or kept; so all have one when the plan is written.
  * `ReviewInv` (`CandidatesAreCurrent`): the captions held between finding the
    scenes and the commit are the transcript, and so are those of the candidates
    whenever the highlight stage has succeeded.
  * `AsrInv` (`AsrLeavesAMerge`): without crashes there is at most one child, it
    is the one awaited, so nothing writes a result while the merge is under way;
    an overwritten result invalidates the merge only in a stage that has not
    succeeded yet.
  * `RankInv` (`RunsGetShorter`): from the claim to the release each step of the
    worker leaves less, lexicographically in stages, steps of the stage, chunks or
    captions, and requests for the batch, and no child, export, retry or change of
    the source sends it back.  A proofread loop ends because the captions of a
    merge are finite (`MergeIsFinite`).  `AwaitedChildrenLive`: the worker waits only
    for a child that is alive, orphans of a crashed worker or not.  Both definitions,
    `EveryStepLeavesLess` and `AwaitedChildLives`, are in `MediaStages`; TLC agrees with
    them on the instance of the `media` run.
* `TaskCreationProofs!DoubledOnlyByRaces` - a task that `create_task` made has an
  open twin only if the twin came after the search.  `SearchedInVain` strengthens
  it: what a request has searched for without success consists of tasks that came
  after its search; then each action is either a step of one request that changes
  no task, or changes one row and records what this brings to light
  (`RecordedIsExplained`).  `TypeCorrect` gives the types.

Only model-checked: the five liveness properties (`EveryClaimReleases`,
`CrashedJobIsRecovered`, `EventuallyFresh`, `MutationEnds`, `EveryRunEnds`), because
fairness and ENABLED are out of the prover's reach.  Their safety halves are
theorems: a claim gets shorter with every step (`EveryClaimGetsShorter`,
`RunsGetShorter`), its worker is never without a next step or a living child
(`WorkersAreNeverStuck`, `AwaitedChildrenLive`), and a browser at rest is up to date
(`QuietIsFresh`).  What is left to TLC is that a fair system takes the steps that
are there.  `CanStep` is written out rather than as ENABLED; on the instances of
`retry` and `release` TLC finds it equal to `ENABLED WorkerStep(w)`.

Every other property of a passing run is a theorem.  Those of `OneWorkerProofs`
hold under its named assumptions, which the `retry`, `bulk` and `release` runs
meet where they check the property.  `OneRunningEntry` and
`PendingTaskIsScheduled` follow from the refinements `ImplementsGpuSlot` and
`ImplementsTaskLife`, which the passing runs check in their place.

## 5. Faults

Each property of a passing run is checked against a plausible bug: an operator
marked "Fault" stands before the definition it would replace (a guard dropped, a
reset forgotten, a key swapped), and with it the property fails.  They are kept
in the modules because they say what the property is for.

## 6. Plan

In the order of importance:

1. `GpuSlot`, `WorkQueue`, `TaskPipeline` and their proofs (done).
2. `EventStream`: publishing, pruning, cursors, reconnects, fallback polling and
   the mutations of the queue page, and its proofs (done).
3. `Captions`, `MediaStages`, `TaskView`: chunks, recognition, merge,
   translation, publication, highlights, exports and what the screens say of
   them, and its proofs (done).
4. The invariants of `TaskPipeline` for one worker and the positions of
   `WorkQueue` (done, `OneWorkerProofs`, `WorkQueueProofs`); the refinement of
   `TaskLife` and the measures behind the liveness properties (done).
5. `ProcessGroup`: the control loop of one child in detail (grace period,
   escalation, heartbeat errors), refining the four child actions of
   `TaskPipeline`.
6. `TaskCreation`: duplicate detection against concurrent requests, and its
   proofs (done).
7. Fault injection at commits (a locked database) in the pipeline.

## 7. Not modelled

* Sources that are referenced and not copied; the directory is the same from
  media preparation on.
* A crash of the API between the unlinks and the commit of a retry: to the worker
  it is the refused retry that is modelled.
* The progress numbers of stages; log lines; the redaction of secrets.
* The inside of recognition, of the translation models and of HTTP requests;
  the encoder choice of an export and its fallback from AMF; formatting of cues;
  the scores of candidates.
* A second export of the same task at the same time (in `MediaStages`), edits of candidates by the user, and the
  check of a clip's bounds.
* Cleanup of old tasks and of cookies; the source catalog (path containment on
  the host); database errors other than the conflicts of section 3.
* The overview with its stage runs, current stage and readiness: it shows rows
  of the selected `PipelineRun`, which mirror the stage rows of its time.
* Paging, sorting, text search and tags of the library; titles and archiving.
* Runtime diagnostics (probes of the host), settings, migrations, the React
  screens, the legacy pages and their `taskState.ts`, scripts and containers.
* `complete_job`, used by tests to run a worker with a custom processor, and the
  preflight summary of the worker.

---------------------------- MODULE TaskPipeline ----------------------------
(***************************************************************************)
(* The life of a task between the API and the worker.                      *)
(*                                                                         *)
(* The shared state is the SQLite database: Task, TaskJob, TaskStage,       *)
(* QueueEntry, TaskExecutionControl and PipelineRun rows.  The API handlers *)
(* (create, pause, cancel, force-kill, retry, bulk requeue, delete, export  *)
(* a clip) and the worker process (app/worker.py driving                    *)
(* services/task_runner.py) change it in separate transactions.  One action *)
(* below is one transaction, or one external event between two              *)
(* transactions.  A worker may crash between any two of its transactions    *)
(* and starts again from an empty memory; ASR children run in their own     *)
(* process group and outlive their worker.                                  *)
(*                                                                         *)
(* Queue ordering is left to WorkQueue: a claim takes any queued entry.    *)
(* Wall-clock staleness of a job (300 s without a stage transition) is a    *)
(* nondeterministic choice of the recovering worker.                        *)
(***************************************************************************)
EXTENDS Naturals, FiniteSets

CONSTANTS
    Tasks,       \* task identifiers
    Highlighted, \* tasks created with highlight_filtering_enabled
    Workers,     \* worker processes (the documented deployment has one)
    NoTask,      \* what an idle worker works on
    NumStages,   \* length of the canonical stage list
    AsrStage,    \* the stage that runs in child processes
    Chunks,      \* media chunks of every task, one ASR child each
    MaxRuns,     \* bound: pipeline runs per task
    MaxCrashes,  \* bound: worker crashes
    MaxBulk      \* bound: bulk requeue requests

ASSUME StagesAssumption == NumStages \in Nat \ {0} /\ AsrStage \in 1..NumStages
\* ASR comes before highlight, export and report, the last three stages, which
\* a short list without highlighted tasks may lack.
ASSUME HighlightedAssumption ==
    Highlighted \subseteq Tasks /\ (Highlighted # {} => AsrStage < NumStages - 2)
ASSUME BoundsAssumption ==
    Chunks \in Nat /\ MaxRuns \in Nat \ {0} /\ MaxCrashes \in Nat /\ MaxBulk \in Nat
ASSUME NoTaskAssumption == NoTask \notin Tasks

VARIABLES
    task,      \* Task.status, or "none" before creation, "deleted" after
    job,       \* TaskJob: status and stage_name
    stages,    \* TaskStage.status of every canonical stage
    entry,     \* QueueEntry.state, or "absent"
    control,   \* TaskExecutionControl
    runs,      \* PipelineRun.status in order of creation
    pc,        \* where each worker is between its transactions
    ctx,       \* what each worker remembers of its claim
    asking,    \* tasks whose cancel request passed its checks, not yet written
    clips,     \* tasks that have clip candidates
    exporting, \* tasks of which the API is exporting a clip
    children,  \* live ASR child processes
    issued,    \* execution tokens issued so far per task (stands for uuid4)
    crashes,   \* worker crashes so far
    bulks      \* bulk requeues so far

database == <<task, job, stages, entry, control, runs>>
environment == <<asking, clips, exporting, children, issued, crashes, bulks>>
vars == <<task, job, stages, entry, control, runs, pc, ctx,
          asking, clips, exporting, children, issued, crashes, bulks>>

-----------------------------------------------------------------------------
(* State *)

Stages == 1..NumStages
Highlight == NumStages - 2
Export == NumStages - 1
RunIds == 1..MaxRuns
Terminal == {"success", "failed", "cancelled"}
Done == {"success", "skipped"}
TaskStates == {"none", "pending", "running", "deleted"} \cup Terminal
JobStates == {"pending", "running"} \cup Terminal
StageStates == {"pending", "running", "skipped"} \cup Terminal
RunStates == {"none", "pending", "running"} \cup Terminal
EntryStates == {"absent", "queued", "paused", "running", "finished"}
WaitingEntry == {"queued", "paused"}

\* token 0 stands for a NULL execution_token; stop is cancel_requested or
\* force_kill_requested; tracked says that active_process_group_id is set.
Control == [exists : BOOLEAN, token : Nat, stop : BOOLEAN, tracked : BOOLEAN]
NoControl == [exists |-> FALSE, token |-> 0, stop |-> FALSE, tracked |-> FALSE]
Cleared(c) == [c EXCEPT !.token = 0, !.stop = FALSE, !.tracked = FALSE]

PcStates == {"idle", "claim", "activate", "start", "check", "mark", "exec", "spawned",
             "child", "signalled", "failing", "load", "final", "close", "finish"}

\* overrun counts the stages an execution began after its stop flag was set.
Context == [task : Tasks \cup {NoTask}, stage : Stages, run : RunIds, token : Nat,
            chunk : 0..Chunks, overrun : Nat, raised : BOOLEAN]
NoContext == [task |-> NoTask, stage |-> 1, run |-> 1, token |-> 0,
              chunk |-> 0, overrun |-> 0, raised |-> FALSE]

Child == [task : Tasks, token : Nat]
TrackedChild(t) == {c \in children : c.task = t /\ control[t].tracked /\ c.token = control[t].token}

Exists(t) == task[t] \notin {"none", "deleted"}

\* Fault: recovery goes by the queue entry instead of the job.
JobsInTheSlot == {t \in Tasks : Exists(t) /\ entry[t] = "running"}

\* The jobs that recovery looks at.
RunningJobs == {t \in Tasks : Exists(t) /\ job[t].status = "running"}

MyTask(w) == ctx[w].task
MyStage(w) == ctx[w].stage
IsCurrent(w) == control[MyTask(w)].token = ctx[w].token
\* Fault: the stop flag counts only while a child is tracked.
StopRequestedOfChild(t) == control[t].stop /\ control[t].tracked

StopRequested(t) == control[t].stop

\* get_pending_pipeline_run and get_active_pipeline_run: the latest run of a
\* task whose status is in S.
IsLatestRun(t, S, r) ==
    /\ runs[t][r] \in S
    /\ \A q \in RunIds : q > r => runs[t][q] \notin S
\* create_pipeline_run takes the next identifier.
IsNewRun(t, r) ==
    /\ runs[t][r] = "none"
    /\ \A q \in RunIds : q < r => runs[t][q] # "none"

Init ==
    /\ task = [t \in Tasks |-> "none"]
    /\ job = [t \in Tasks |-> [status |-> "pending", stage |-> 1]]
    /\ stages = [t \in Tasks |-> [s \in Stages |-> "pending"]]
    /\ entry = [t \in Tasks |-> "absent"]
    /\ control = [t \in Tasks |-> NoControl]
    /\ runs = [t \in Tasks |-> [r \in RunIds |-> "none"]]
    /\ pc = [w \in Workers |-> "idle"]
    /\ ctx = [w \in Workers |-> NoContext]
    /\ asking = {}
    /\ clips = {}
    /\ exporting = {}
    /\ children = {}
    /\ issued = [t \in Tasks |-> 0]
    /\ crashes = 0
    /\ bulks = 0

-----------------------------------------------------------------------------
(* API handlers *)

CreateTask(t) ==
    /\ task[t] = "none"
    /\ task' = [task EXCEPT ![t] = "pending"]
    /\ entry' = [entry EXCEPT ![t] = "queued"]
    /\ runs' = [runs EXCEPT ![t][1] = "pending"]
    /\ UNCHANGED <<job, stages, control, pc, ctx, environment>>

SetQueueState(t, s) ==
    /\ entry[t] \in WaitingEntry
    /\ entry' = [entry EXCEPT ![t] = s]
    /\ UNCHANGED <<task, job, stages, control, runs, pc, ctx, environment>>

\* is_actively_cancellable, with a control row.
Cancellable(t) ==
    /\ control[t].exists
    /\ task[t] = "running"
    /\ job[t].status = "running"
    /\ stages[t][job[t].stage] = "running"

\* can_force_kill: a tracked process group of a running ASR stage.
ForceKillable(t) ==
    /\ Exists(t)
    /\ control[t].tracked
    /\ job[t] = [status |-> "running", stage |-> AsrStage]
    /\ stages[t][AsrStage] = "running"

\* The cancel and force-kill handlers read their conditions first ...
CheckStopRequest(t) ==
    /\ Cancellable(t) \/ ForceKillable(t)
    /\ asking' = asking \cup {t}
    /\ UNCHANGED <<database, pc, ctx, clips, exporting, children, issued, crashes, bulks>>

\* ... and set the flag in a later write, on the row as it then is.
WriteStopRequest(t) ==
    /\ t \in asking
    /\ asking' = asking \ {t}
    /\ control' = IF control[t].exists THEN [control EXCEPT ![t].stop = TRUE] ELSE control
    /\ UNCHANGED <<task, job, stages, entry, runs, pc, ctx, clips, exporting, children, issued,
                   crashes, bulks>>

RetryIsAllowed(t, s) == task[t] \in Terminal \/ stages[t][s] \in {"failed", "cancelled"}

\* Fault: only the stage to retry is reset, the later ones keep their outcome.
ResetOnly(t, s) ==
    /\ task' = [task EXCEPT ![t] = "pending"]
    /\ job' = [job EXCEPT ![t] = [status |-> "pending", stage |-> s]]
    /\ stages' = [stages EXCEPT ![t][s] = "pending"]
    /\ \E r \in RunIds : IsNewRun(t, r) /\ runs' = [runs EXCEPT ![t][r] = "pending"]

\* The writes of retry_task_from_stage that come before requeue_task.
ResetFrom(t, s) ==
    /\ task' = [task EXCEPT ![t] = "pending"]
    /\ job' = [job EXCEPT ![t] = [status |-> "pending", stage |-> s]]
    /\ stages' = [stages EXCEPT ![t] =
                     [q \in Stages |-> IF q >= s THEN "pending" ELSE stages[t][q]]]
    /\ \E r \in RunIds : IsNewRun(t, r) /\ runs' = [runs EXCEPT ![t][r] = "pending"]

\* Fault: a queue conflict is answered without a rollback.
RetryKeepingConflict(t, s) ==
    /\ Exists(t)
    /\ RetryIsAllowed(t, s)
    /\ ResetFrom(t, s)
    /\ entry' = IF entry[t] = "running" THEN entry ELSE [entry EXCEPT ![t] = "queued"]
    /\ UNCHANGED <<control, pc, ctx, environment>>

\* POST /tasks/{id}/retry: a queue conflict rolls everything back.
RetryTask(t, s) ==
    /\ Exists(t)
    /\ RetryIsAllowed(t, s)
    /\ entry[t] # "running"
    /\ ResetFrom(t, s)
    /\ entry' = [entry EXCEPT ![t] = "queued"]
    /\ UNCHANGED <<control, pc, ctx, environment>>

\* The stage _requeue_task restarts from.
IsRestartStage(t, s) ==
    IF \E q \in Stages : stages[t][q] \in {"failed", "cancelled"}
    THEN /\ stages[t][s] \in {"failed", "cancelled"}
         /\ \A q \in Stages : q < s => stages[t][q] \notin {"failed", "cancelled"}
    ELSE s = 1

\* POST /v2/tasks/bulk, operation requeue: a queue conflict is reported as
\* "rejected", and what was written before it is committed with the batch.
BulkRequeue(t, s) ==
    /\ bulks < MaxBulk
    /\ bulks' = bulks + 1
    /\ Exists(t)
    /\ IsRestartStage(t, s)
    /\ RetryIsAllowed(t, s)
    /\ ResetFrom(t, s)
    /\ entry' = IF entry[t] = "running" THEN entry ELSE [entry EXCEPT ![t] = "queued"]
    /\ UNCHANGED <<control, pc, ctx, asking, clips, exporting, children, issued, crashes>>

\* Fault: only the task's status protects it from deletion, not its entry.
DeleteHoldingSlot(t) ==
    /\ Exists(t)
    /\ task[t] # "running"
    /\ task' = [task EXCEPT ![t] = "deleted"]
    /\ job' = [job EXCEPT ![t] = [status |-> "pending", stage |-> 1]]
    /\ stages' = [stages EXCEPT ![t] = [s \in Stages |-> "pending"]]
    /\ entry' = [entry EXCEPT ![t] = "absent"]
    /\ control' = [control EXCEPT ![t] = NoControl]
    /\ runs' = [runs EXCEPT ![t] = [r \in RunIds |-> "none"]]
    /\ clips' = clips \ {t}
    /\ UNCHANGED <<pc, ctx, asking, exporting, children, issued, crashes, bulks>>

\* POST /v2/tasks/bulk, operation delete.
DeleteTask(t) ==
    /\ Exists(t)
    /\ task[t] # "running"
    /\ entry[t] # "running"
    /\ task' = [task EXCEPT ![t] = "deleted"]
    /\ job' = [job EXCEPT ![t] = [status |-> "pending", stage |-> 1]]
    /\ stages' = [stages EXCEPT ![t] = [s \in Stages |-> "pending"]]
    /\ entry' = [entry EXCEPT ![t] = "absent"]
    /\ control' = [control EXCEPT ![t] = NoControl]
    /\ runs' = [runs EXCEPT ![t] = [r \in RunIds |-> "none"]]
    /\ clips' = clips \ {t}
    /\ UNCHANGED <<pc, ctx, asking, exporting, children, issued, crashes, bulks>>

Api(t) ==
    \/ CreateTask(t)
    \/ \E s \in WaitingEntry : SetQueueState(t, s)
    \/ CheckStopRequest(t)
    \/ WriteStopRequest(t)
    \/ \E s \in Stages : RetryTask(t, s)
    \/ \E s \in Stages : BulkRequeue(t, s)
    \/ DeleteTask(t)

\* POST /tasks/{id}/clips: export_confirmed_clip reads a candidate, cuts the clip ...
StartExport(t) ==
    /\ t \in clips
    /\ exporting' = exporting \cup {t}
    /\ UNCHANGED <<database, pc, ctx, asking, clips, children, issued, crashes, bulks>>

SucceedExport(t) ==
    /\ Exists(t)
    /\ stages' = [stages EXCEPT ![t][Export] = "success"]
    /\ UNCHANGED task

FailExport(t) ==
    /\ Exists(t)
    /\ stages' = [stages EXCEPT ![t][Export] = "failed"]
    /\ task' = [task EXCEPT ![t] = "failed"]

\* ... and writes the outcome, whatever the task has come to meanwhile, with no
\* look at job, run, entry or token.  Any other error leaves no trace.
EndExport(t) ==
    /\ t \in exporting
    /\ exporting' = exporting \ {t}
    /\ \/ SucceedExport(t)
       \/ FailExport(t)
       \/ UNCHANGED <<task, stages>>
    /\ UNCHANGED <<job, entry, control, runs, pc, ctx, asking, clips, children, issued, crashes, bulks>>

ExportClip(t) == StartExport(t) \/ EndExport(t)

-----------------------------------------------------------------------------
(* The worker: claiming.  Transaction 1 of claim_next_job recovers stale    *)
(* jobs; transaction 2 claims a queue entry.                                *)

\* _recover_stale_running_jobs for the stale jobs T, then commit.  A job that
\* stays running makes claim_next_job return None.
RecoverStaleRunningJobs(w, T) ==
    LET inAsr == {t \in T : job[t].stage = AsrStage}
    IN  /\ pc[w] = "idle"
        /\ T # {} /\ T \subseteq RunningJobs
        /\ children' = children \ UNION {TrackedChild(t) : t \in inAsr}
        /\ control' = [t \in Tasks |-> IF t \in inAsr THEN Cleared(control[t]) ELSE control[t]]
        /\ job' = [t \in Tasks |-> IF t \in T THEN [job[t] EXCEPT !.status = "failed"] ELSE job[t]]
        /\ task' = [t \in Tasks |-> IF t \in T THEN "failed" ELSE task[t]]
        /\ stages' = [t \in Tasks |-> IF t \in T
                                      THEN [stages[t] EXCEPT ![job[t].stage] = "failed"]
                                      ELSE stages[t]]
        /\ runs' = [t \in Tasks |-> [r \in RunIds |->
                       IF t \in T /\ IsLatestRun(t, {"pending", "running"}, r)
                       THEN "failed" ELSE runs[t][r]]]
        /\ entry' = [t \in Tasks |-> IF t \in T /\ entry[t] # "absent"
                                     THEN "finished" ELSE entry[t]]
        /\ pc' = [pc EXCEPT ![w] = IF RunningJobs \subseteq T THEN "claim" ELSE "idle"]
        /\ UNCHANGED <<ctx, asking, clips, exporting, issued, crashes, bulks>>

\* Fault: a job that is not stale yet does not stop the claim.
PassOverRunningJobs(w) ==
    /\ pc[w] = "idle"
    /\ pc' = [pc EXCEPT ![w] = "claim"]
    /\ UNCHANGED <<database, ctx, environment>>

\* No job is running: go on to the claim.
PassRecovery(w) ==
    /\ pc[w] = "idle"
    /\ RunningJobs = {}
    /\ pc' = [pc EXCEPT ![w] = "claim"]
    /\ UNCHANGED <<database, ctx, environment>>

SlotIsFree == \A t \in Tasks : entry[t] # "running"

\* claim_next_queue_entry and the status writes of claim_next_job.
ClaimNextJob(w, t) ==
    /\ pc[w] = "claim"
    /\ SlotIsFree
    /\ entry[t] = "queued"
    /\ entry' = [entry EXCEPT ![t] = "running"]
    /\ task' = [task EXCEPT ![t] = "running"]
    /\ job' = [job EXCEPT ![t].status = "running"]
    /\ stages' = [stages EXCEPT ![t][job[t].stage] = "running"]
    /\ pc' = [pc EXCEPT ![w] = "activate"]
    /\ ctx' = [ctx EXCEPT ![w] = [NoContext EXCEPT !.task = t, !.stage = job[t].stage]]
    /\ UNCHANGED <<control, runs, environment>>

\* Nothing to claim, or the slot is held: sleep and poll again.
ClaimNothing(w) ==
    /\ pc[w] = "claim"
    /\ ~SlotIsFree \/ \A t \in Tasks : entry[t] # "queued"
    /\ pc' = [pc EXCEPT ![w] = "idle"]
    /\ UNCHANGED <<database, ctx, environment>>

\* activate_execution: a new token, and a control row reset to no requests.
ActivateExecution(w) ==
    LET t == MyTask(w)
    IN  /\ pc[w] = "activate"
        /\ issued' = [issued EXCEPT ![t] = issued[t] + 1]
        /\ control' = [control EXCEPT ![t] = [exists |-> TRUE, token |-> issued[t] + 1,
                                              stop |-> FALSE, tracked |-> FALSE]]
        /\ ctx' = [ctx EXCEPT ![w].token = issued[t] + 1]
        /\ pc' = [pc EXCEPT ![w] = "start"]
        /\ UNCHANGED <<task, job, stages, entry, runs, asking, clips, exporting, children,
                       crashes, bulks>>

-----------------------------------------------------------------------------
(* The worker: run_task_pipeline                                            *)

\* Fault: finalize_cancelled leaves the job as it is.
CancelWithoutJob(t, st) ==
    /\ task' = [task EXCEPT ![t] = "cancelled"]
    /\ UNCHANGED job
    /\ stages' = [stages EXCEPT ![t] =
                     IF st[job[t].stage] = "running"
                     THEN [st EXCEPT ![job[t].stage] = "cancelled"] ELSE st]
    /\ control' = [control EXCEPT ![t] = Cleared(control[t])]

\* The database writes of finalize_cancelled, over the stage rows st.
FinalizeCancelled(t, st) ==
    /\ task' = [task EXCEPT ![t] = "cancelled"]
    /\ job' = [job EXCEPT ![t].status = "cancelled"]
    /\ stages' = [stages EXCEPT ![t] =
                     IF st[job[t].stage] = "running"
                     THEN [st EXCEPT ![job[t].stage] = "cancelled"] ELSE st]
    /\ control' = [control EXCEPT ![t] = Cleared(control[t])]

GoTo(w, label) == pc' = [pc EXCEPT ![w] = label] /\ UNCHANGED ctx

\* The run a pipeline works for: the latest pending one, or a new "legacy" one.
IsPipelineRun(t, r) ==
    IF \E q \in RunIds : runs[t][q] = "pending"
    THEN IsLatestRun(t, {"pending"}, r)
    ELSE IsNewRun(t, r)

\* Fault: the pipeline does not remember which run it started.
StartForgettingRun(w, r) ==
    LET t == MyTask(w)
    IN  /\ pc[w] = "start"
        /\ Exists(t) /\ IsCurrent(w) /\ ~StopRequested(t)
        /\ IsPipelineRun(t, r)
        /\ runs' = [runs EXCEPT ![t][r] = "running"]
        /\ task' = [task EXCEPT ![t] = "running"]
        /\ job' = [job EXCEPT ![t] = [status |-> "running", stage |-> MyStage(w)]]
        /\ stages' = [stages EXCEPT ![t][MyStage(w)] = "running"]
        /\ GoTo(w, "exec")
        /\ UNCHANGED <<entry, control, environment>>

\* From bind_execution_context to the start of the first executor: nothing is
\* committed in between, and the first flush takes SQLite's write lock.
StartPipeline(w, r) ==
    LET t == MyTask(w)
    IN  /\ pc[w] = "start"
        /\ Exists(t) /\ IsCurrent(w) /\ ~StopRequested(t)
        /\ IsPipelineRun(t, r)
        /\ runs' = [runs EXCEPT ![t][r] = "running"]
        /\ task' = [task EXCEPT ![t] = "running"]
        /\ job' = [job EXCEPT ![t] = [status |-> "running", stage |-> MyStage(w)]]
        /\ stages' = [stages EXCEPT ![t][MyStage(w)] = "running"]
        /\ ctx' = [ctx EXCEPT ![w].run = r]
        /\ pc' = [pc EXCEPT ![w] = "exec"]
        /\ UNCHANGED <<entry, control, environment>>

\* The stop flag is seen before the first stage: the run is cancelled.
CancelAtStart(w, r) ==
    LET t == MyTask(w)
    IN  /\ pc[w] = "start"
        /\ Exists(t) /\ IsCurrent(w) /\ StopRequested(t)
        /\ IsPipelineRun(t, r)
        /\ runs' = [runs EXCEPT ![t][r] = "cancelled"]
        /\ FinalizeCancelled(t, stages[t])
        /\ GoTo(w, "close")
        /\ UNCHANGED <<entry, environment>>

\* Before every later stage: token and stop flag are read ...
CheckBeforeStage(w) ==
    /\ pc[w] = "check"
    /\ IsCurrent(w) /\ ~StopRequested(MyTask(w))
    /\ GoTo(w, "mark")
    /\ UNCHANGED <<database, environment>>

CancelBeforeStage(w) ==
    LET t == MyTask(w)
    IN  /\ pc[w] = "check"
        /\ IsCurrent(w) /\ StopRequested(t)
        /\ FinalizeCancelled(t, stages[t])
        /\ runs' = [runs EXCEPT ![t][ctx[w].run] = "cancelled"]
        /\ GoTo(w, "close")
        /\ UNCHANGED <<entry, environment>>

\* ... and _mark_stage_running commits in a transaction of its own.
MarkStageRunning(w) ==
    LET t == MyTask(w)
    IN  /\ pc[w] = "mark"
        /\ Exists(t)
        /\ task' = [task EXCEPT ![t] = "running"]
        /\ job' = [job EXCEPT ![t] = [status |-> "running", stage |-> MyStage(w)]]
        /\ stages' = [stages EXCEPT ![t][MyStage(w)] = "running"]
        /\ ctx' = [ctx EXCEPT ![w].chunk = 0,
                              ![w].overrun = IF control[t].stop THEN @ + 1 ELSE @]
        /\ pc' = [pc EXCEPT ![w] = "exec"]
        /\ UNCHANGED <<entry, control, runs, environment>>

\* The executor returned: every ASR chunk was handled.
ExecutorIsDone(w) == MyStage(w) = AsrStage => ctx[w].chunk = Chunks

\* The stage rows once the executor's outcome is applied.
WithOutcome(w, outcome) == [stages[MyTask(w)] EXCEPT ![MyStage(w)] = outcome]

\* analyze_task_highlights replaces the clip candidates, at times by none.
ReplaceCandidates(w) ==
    clips' \in IF MyStage(w) = Highlight /\ MyTask(w) \in Highlighted
               THEN {clips \cup {MyTask(w)}, clips \ {MyTask(w)}}
               ELSE {clips}

\* Success or skip, the stop flag is not set: checkpoint the next stage.
CompleteStage(w, outcome) ==
    LET t == MyTask(w)
        last == MyStage(w) = NumStages
    IN  /\ pc[w] = "exec"
        /\ ExecutorIsDone(w)
        /\ IsCurrent(w) /\ ~StopRequested(t)
        /\ stages' = [stages EXCEPT ![t] = WithOutcome(w, outcome)]
        /\ job' = [job EXCEPT ![t].stage = IF last THEN NumStages ELSE MyStage(w) + 1]
        /\ task' = [task EXCEPT ![t] = IF last THEN "success" ELSE "running"]
        /\ pc' = [pc EXCEPT ![w] = IF last THEN "load" ELSE "check"]
        /\ ctx' = [ctx EXCEPT ![w].stage = IF last THEN NumStages ELSE MyStage(w) + 1]
        /\ ReplaceCandidates(w)
        /\ UNCHANGED <<entry, control, runs, asking, exporting, children, issued, crashes, bulks>>

\* Success or skip, but the stop flag is set: the outcome is kept, the run ends.
CompleteCancelled(w, outcome) ==
    LET t == MyTask(w)
    IN  /\ pc[w] = "exec"
        /\ ExecutorIsDone(w)
        /\ IsCurrent(w) /\ StopRequested(t)
        /\ FinalizeCancelled(t, WithOutcome(w, outcome))
        /\ runs' = [runs EXCEPT ![t][ctx[w].run] = "cancelled"]
        /\ GoTo(w, "close")
        /\ ReplaceCandidates(w)
        /\ UNCHANGED <<entry, asking, exporting, children, issued, crashes, bulks>>

\* Most executors commit a failed stage and task before they raise.
ReportFailure(w) ==
    LET t == MyTask(w)
    IN  /\ pc[w] = "exec"
        /\ MyStage(w) # AsrStage
        /\ IsCurrent(w)
        /\ task' = [task EXCEPT ![t] = "failed"]
        /\ stages' = [stages EXCEPT ![t][MyStage(w)] = "failed"]
        /\ GoTo(w, "failing")
        /\ UNCHANGED <<job, entry, control, runs, environment>>

\* Fault: the failed stage's job stays running.
FailStageOnly(w) ==
    LET t == MyTask(w)
    IN  /\ pc[w] \in {"exec", "failing"}
        /\ Exists(t)
        /\ task' = [task EXCEPT ![t] = "failed"]
        /\ stages' = [stages EXCEPT ![t][MyStage(w)] = "failed"]
        /\ runs' = [runs EXCEPT ![t][ctx[w].run] = "failed"]
        /\ pc' = [pc EXCEPT ![w] = "close"]
        /\ ctx' = [ctx EXCEPT ![w].raised = TRUE]
        /\ UNCHANGED <<job, entry, control, environment>>

\* The executor raised: _mark_stage_failed, with no look at the token, commits
\* what the executor had flushed as well.
FailStage(w) ==
    LET t == MyTask(w)
    IN  /\ pc[w] \in {"exec", "failing"}
        /\ Exists(t)
        /\ task' = [task EXCEPT ![t] = "failed"]
        /\ job' = [job EXCEPT ![t] = [status |-> "failed", stage |-> MyStage(w)]]
        /\ stages' = [stages EXCEPT ![t][MyStage(w)] = "failed"]
        /\ runs' = [runs EXCEPT ![t][ctx[w].run] = "failed"]
        /\ pc' = [pc EXCEPT ![w] = "close"]
        /\ ctx' = [ctx EXCEPT ![w].raised = TRUE]
        /\ IF pc[w] = "exec" THEN ReplaceCandidates(w) ELSE UNCHANGED clips
        /\ UNCHANGED <<entry, control, asking, exporting, children, issued, crashes, bulks>>

\* After the last checkpoint the stage rows are read again ...
LoadFinalStage(w) ==
    /\ pc[w] = "load"
    /\ Exists(MyTask(w))
    /\ GoTo(w, IF stages[MyTask(w)][NumStages] \in Done THEN "final" ELSE "close")
    /\ UNCHANGED <<database, environment>>

\* ... and job, task and run succeed in one transaction.
CommitSuccess(w) ==
    LET t == MyTask(w)
    IN  /\ pc[w] = "final"
        /\ Exists(t)
        /\ job' = [job EXCEPT ![t] = [status |-> "success", stage |-> NumStages]]
        /\ task' = [task EXCEPT ![t] = "success"]
        /\ runs' = [runs EXCEPT ![t][ctx[w].run] = "success"]
        /\ GoTo(w, "close")
        /\ UNCHANGED <<stages, entry, control, environment>>

\* StaleExecutionTokenError: roll back and leave the task as others made it.
AbandonStale(w) ==
    /\ pc[w] \in {"start", "check", "exec"}
    /\ Exists(MyTask(w)) \/ pc[w] # "start"
    /\ ~IsCurrent(w)
    /\ GoTo(w, "close")
    /\ UNCHANGED <<database, environment>>

\* The task's rows were deleted under the pipeline: its next write raises.
TaskVanished(w) ==
    /\ pc[w] \in {"start", "mark", "failing", "load", "final"}
    /\ ~Exists(MyTask(w))
    /\ pc' = [pc EXCEPT ![w] = "close"]
    /\ ctx' = [ctx EXCEPT ![w].raised = TRUE]
    /\ UNCHANGED <<database, environment>>

-----------------------------------------------------------------------------
(* The worker: the chunk loop of the ASR stage and its child processes      *)

HasChunkLeft(w) == pc[w] = "exec" /\ MyStage(w) = AsrStage /\ ctx[w].chunk < Chunks
MyChild(w) == [task |-> MyTask(w), token |-> ctx[w].token]

\* A chunk with a valid cached manifest is not run again.
ReuseChunk(w) ==
    /\ HasChunkLeft(w)
    /\ IsCurrent(w) /\ ~StopRequested(MyTask(w))
    /\ ctx' = [ctx EXCEPT ![w].chunk = @ + 1]
    /\ UNCHANGED <<database, pc, environment>>

\* The stop flag is seen between chunks or before a launch: the task is
\* cancelled and StaleExecutionTokenError unwinds the pipeline.
CancelBetweenChunks(w) ==
    /\ HasChunkLeft(w)
    /\ IsCurrent(w) /\ StopRequested(MyTask(w))
    /\ FinalizeCancelled(MyTask(w), stages[MyTask(w)])
    /\ GoTo(w, "close")
    /\ UNCHANGED <<entry, runs, environment>>

\* Fault: the chunk loop does not move on from a chunk it ran.
SpawnSameChunk(w) ==
    /\ HasChunkLeft(w)
    /\ IsCurrent(w) /\ ~StopRequested(MyTask(w))
    /\ children' = children \cup {MyChild(w)}
    /\ GoTo(w, "spawned")
    /\ UNCHANGED <<database, asking, clips, exporting, issued, crashes, bulks>>

\* Popen: the child runs, the database does not know its process group yet.
SpawnChild(w) ==
    /\ HasChunkLeft(w)
    /\ IsCurrent(w) /\ ~StopRequested(MyTask(w))
    /\ children' = children \cup {MyChild(w)}
    /\ pc' = [pc EXCEPT ![w] = "spawned"]
    /\ ctx' = [ctx EXCEPT ![w].chunk = @ + 1]
    /\ UNCHANGED <<database, asking, clips, exporting, issued, crashes, bulks>>

\* _set_active_process_group; a stale token leaves the child alone.
TrackChild(w) ==
    /\ pc[w] = "spawned"
    /\ IF IsCurrent(w)
       THEN /\ control' = [control EXCEPT ![MyTask(w)].tracked = TRUE]
            /\ GoTo(w, "child")
       ELSE control' = control /\ GoTo(w, "close")
    /\ UNCHANGED <<task, job, stages, entry, runs, environment>>

\* The child exited by itself: forget its group and look at its result.
ReapChild(w) ==
    /\ pc[w] = "child"
    /\ MyChild(w) \notin children
    /\ IF IsCurrent(w)
       THEN /\ control' = [control EXCEPT ![MyTask(w)].tracked = FALSE]
            /\ GoTo(w, "exec")
       ELSE control' = control /\ GoTo(w, "close")
    /\ UNCHANGED <<task, job, stages, entry, runs, environment>>

\* The control loop saw the flag: SIGTERM, or SIGKILL when forced or too late.
SignalChild(w) ==
    /\ pc[w] = "child"
    /\ StopRequested(MyTask(w))
    /\ GoTo(w, "signalled")
    /\ UNCHANGED <<database, environment>>

\* Fault: the task is cancelled as soon as the signal is sent.
CancelWithoutWaiting(w) ==
    /\ pc[w] = "signalled"
    /\ IF IsCurrent(w)
       THEN FinalizeCancelled(MyTask(w), stages[MyTask(w)])
       ELSE UNCHANGED <<task, job, stages, control>>
    /\ GoTo(w, "close")
    /\ UNCHANGED <<entry, runs, environment>>

\* A signalled child is waited for; then the task is cancelled.  The pipeline
\* is left through StaleExecutionTokenError, past finish_pipeline_run.
CancelChild(w) ==
    /\ pc[w] = "signalled"
    /\ MyChild(w) \notin children
    /\ IF IsCurrent(w)
       THEN FinalizeCancelled(MyTask(w), stages[MyTask(w)])
       ELSE UNCHANGED <<task, job, stages, control>>
    /\ GoTo(w, "close")
    /\ UNCHANGED <<entry, runs, environment>>

\* The heartbeat found a foreign token: kill the child and give up.
KillStaleChild(w) ==
    /\ pc[w] \in {"child", "signalled"}
    /\ ~IsCurrent(w)
    /\ children' = children \ {MyChild(w)}
    /\ GoTo(w, "close")
    /\ UNCHANGED <<database, asking, clips, exporting, issued, crashes, bulks>>

\* Any child ends at last, on a signal or by itself, watched or orphaned.
ChildExits(c) ==
    /\ c \in children
    /\ children' = children \ {c}
    /\ UNCHANGED <<database, pc, ctx, asking, clips, exporting, issued, crashes, bulks>>

-----------------------------------------------------------------------------
(* The worker: leaving the pipeline, and crashing                           *)

\* Fault: a cancelled task is not counted among the final statuses.
CloseForgettingCancelled(w) ==
    LET t == MyTask(w)
    IN  /\ pc[w] = "close"
        /\ control' = IF IsCurrent(w) THEN [control EXCEPT ![t] = Cleared(@)] ELSE control
        /\ IF ctx[w].raised \/ task[t] \in {"success", "failed"}
           THEN GoTo(w, "finish")
           ELSE /\ pc' = [pc EXCEPT ![w] = "idle"]
                /\ ctx' = [ctx EXCEPT ![w] = NoContext]
        /\ UNCHANGED <<task, job, stages, entry, runs, environment>>

\* The final status is read, then finalize_execution clears a current control
\* row.  Only a terminal status or an exception releases the queue entry.
ClosePipeline(w) ==
    LET t == MyTask(w)
    IN  /\ pc[w] = "close"
        /\ control' = IF IsCurrent(w) THEN [control EXCEPT ![t] = Cleared(@)] ELSE control
        /\ IF ctx[w].raised \/ task[t] \in Terminal
           THEN GoTo(w, "finish")
           ELSE /\ pc' = [pc EXCEPT ![w] = "idle"]
                /\ ctx' = [ctx EXCEPT ![w] = NoContext]
        /\ UNCHANGED <<task, job, stages, entry, runs, environment>>

\* Fault: the entry is given the task's status instead of an entry state.
FinishWithTaskStatus(w) ==
    LET t == MyTask(w)
    IN  /\ pc[w] = "finish"
        /\ entry' = IF entry[t] = "absent" THEN entry ELSE [entry EXCEPT ![t] = task[t]]
        /\ pc' = [pc EXCEPT ![w] = "idle"]
        /\ ctx' = [ctx EXCEPT ![w] = NoContext]
        /\ UNCHANGED <<task, job, stages, control, runs, environment>>

\* finish_queue_entry, in the worker's last transaction.
FinishEntry(w) ==
    LET t == MyTask(w)
    IN  /\ pc[w] = "finish"
        /\ entry' = IF entry[t] = "absent" THEN entry ELSE [entry EXCEPT ![t] = "finished"]
        /\ pc' = [pc EXCEPT ![w] = "idle"]
        /\ ctx' = [ctx EXCEPT ![w] = NoContext]
        /\ UNCHANGED <<task, job, stages, control, runs, environment>>

\* The process dies between two transactions and is started again.
Crash(w) ==
    /\ pc[w] # "idle"
    /\ crashes < MaxCrashes
    /\ crashes' = crashes + 1
    /\ pc' = [pc EXCEPT ![w] = "idle"]
    /\ ctx' = [ctx EXCEPT ![w] = NoContext]
    /\ UNCHANGED <<database, asking, clips, exporting, children, issued, bulks>>

-----------------------------------------------------------------------------
Claim(w) ==
    \/ \E T \in SUBSET Tasks : RecoverStaleRunningJobs(w, T)
    \/ PassRecovery(w)
    \/ \E t \in Tasks : ClaimNextJob(w, t)
    \/ ClaimNothing(w)

RunStages(w) ==
    \/ ActivateExecution(w)
    \/ \E r \in RunIds : StartPipeline(w, r)
    \/ \E r \in RunIds : CancelAtStart(w, r)
    \/ CheckBeforeStage(w)
    \/ CancelBeforeStage(w)
    \/ MarkStageRunning(w)
    \/ \E outcome \in Done : CompleteStage(w, outcome)
    \/ \E outcome \in Done : CompleteCancelled(w, outcome)
    \/ ReportFailure(w)
    \/ FailStage(w)
    \/ LoadFinalStage(w)
    \/ CommitSuccess(w)
    \/ AbandonStale(w)
    \/ TaskVanished(w)

RunChunks(w) ==
    \/ ReuseChunk(w)
    \/ CancelBetweenChunks(w)
    \/ SpawnChild(w)
    \/ TrackChild(w)
    \/ ReapChild(w)
    \/ SignalChild(w)
    \/ CancelChild(w)
    \/ KillStaleChild(w)

Leave(w) ==
    \/ ClosePipeline(w)
    \/ FinishEntry(w)

WorkerStep(w) == Claim(w) \/ RunStages(w) \/ RunChunks(w) \/ Leave(w)

Next ==
    \/ \E t \in Tasks : Api(t) \/ ExportClip(t)
    \/ \E w \in Workers : WorkerStep(w) \/ Crash(w)
    \/ \E c \in children : ChildExits(c)

Spec == Init /\ [][Next]_vars

\* The worker loop never stops, a stale job is recovered at last, every child
\* ends at last, and a request that passed its checks is written.
Fairness ==
    /\ \A w \in Workers : WF_vars(WorkerStep(w))
    /\ \A t \in Tasks : WF_vars(WriteStopRequest(t))
    /\ WF_vars(\E c \in children : ChildExits(c))

FairSpec == Spec /\ Fairness

-----------------------------------------------------------------------------
(* Properties *)

DatabaseOK ==
    /\ task \in [Tasks -> TaskStates]
    /\ job \in [Tasks -> [status : JobStates, stage : Stages]]
    /\ stages \in [Tasks -> [Stages -> StageStates]]
    /\ entry \in [Tasks -> EntryStates]
    /\ control \in [Tasks -> Control]
    /\ runs \in [Tasks -> [RunIds -> RunStates]]

WorkersOK ==
    /\ pc \in [Workers -> PcStates]
    /\ ctx \in [Workers -> Context]
    /\ \A w \in Workers : pc[w] \notin {"idle", "claim"} => MyTask(w) \in Tasks

EnvironmentOK ==
    /\ asking \subseteq Tasks
    /\ clips \subseteq Tasks
    /\ exporting \subseteq Tasks
    /\ children \subseteq Child
    /\ issued \in [Tasks -> Nat]
    /\ crashes \in 0..MaxCrashes
    /\ bulks \in 0..MaxBulk

TypeOK == DatabaseOK /\ WorkersOK /\ EnvironmentOK

Slot == INSTANCE GpuSlot WITH slot <- entry

(* The tasks of the pipeline use the queue as GpuSlot allows, with any      *)
(* number of workers, crashes, recoveries and racing requests: the sole GPU *)
(* is never claimed while a queue entry is running.                         *)
ImplementsGpuSlot == Slot!Spec

(* At most one queue entry is running: of two workers that race for the     *)
(* queue, and whatever is cancelled, retried or deleted meanwhile, one      *)
(* alone holds the GPU.                                                     *)
OneRunningEntry == Slot!Exclusive

(* A running job always has the running queue entry, through crashes,       *)
(* retries and cancellations: _recover_stale_running_jobs, which looks only *)
(* at jobs, therefore frees the slot of every job it fails, and a running   *)
(* job of another task never lets claim_next_queue_entry succeed.           *)
RunningJobHoldsSlot ==
    \A t \in Tasks : Exists(t) /\ job[t].status = "running" => entry[t] = "running"

(* A task shown as pending still has its turn ahead of it: its queue entry  *)
(* has not become history (retry_task_from_stage writes task, job and queue *)
(* entry together or not at all).                                           *)
PendingTaskIsScheduled ==
    \A t \in Tasks : task[t] = "pending" => entry[t] # "finished"

(* Once the queue entry is history, the task has an outcome, that of its    *)
(* job, whichever of success, failure, cancellation between or inside       *)
(* stages, or stale recovery ended the execution.  Only a clip export that  *)
(* fails sets them apart, and then the task is shown as failed              *)
(* (set_stage_status marks the task, and not the job).                      *)
TerminalAgreement ==
    \A t \in Tasks :
        entry[t] = "finished" => job[t].status \in Terminal /\ task[t] \in {job[t].status, "failed"}

(* While a worker is between the stages or inside one, the job row names    *)
(* the stage it is at, and no later stage was touched but that of exports,  *)
(* which a clip of an earlier run may mark: what cancellation and stale     *)
(* recovery mark, and what a retry resumes from, is the stage that was      *)
(* interrupted (_advance_job_checkpoint, _mark_stage_running).              *)
CheckpointIsAccurate ==
    \A w \in Workers : pc[w] \in {"check", "mark", "exec", "spawned", "child", "signalled"} =>
        LET t == MyTask(w)
        IN  /\ job[t] = [status |-> "running", stage |-> MyStage(w)]
            /\ \A s \in Stages \ {Export} : s > MyStage(w) => stages[t][s] = "pending"

(* A cancel request costs at most one more stage: only the stage whose      *)
(* boundary check ran just before the flag was written starts after it.     *)
AtMostOneStageAfterStop == \A w \in Workers : ctx[w].overrun <= 1

(* A running queue entry always has the worker that will finish it, as long *)
(* as no worker crashes: every path out of run_task_pipeline releases the   *)
(* slot, by a terminal status or by an exception.                           *)
SlotIsOwned ==
    \A t \in Tasks :
        entry[t] = "running" => \E w \in Workers : pc[w] \notin {"idle", "claim"} /\ MyTask(w) = t

(* The single active GPU job: at most one ASR child is alive, so no chunk   *)
(* is started while a cancelled or abandoned child still holds the GPU.     *)
OneAsrChild == Cardinality(children) <= 1

(* Every claim of the slot is released in the end.                          *)
EveryClaimReleases == \A t \in Tasks : entry[t] = "running" ~> entry[t] # "running"

(* A job that a dead worker left running does not stay running: a later     *)
(* poll finds it stale and fails it.                                        *)
CrashedJobIsRecovered ==
    \A t \in Tasks : job[t].status = "running" ~> job[t].status # "running"

(* A cancel request written while the task is actively cancellable reaches  *)
(* an execution that will look at it: activate_execution, which resets the  *)
(* requests of the control row, is behind it already.                       *)
CancelReachesExecution ==
    [][\A t \in Tasks : WriteStopRequest(t) /\ Cancellable(t) =>
          \E w \in Workers : MyTask(w) = t /\ pc[w] # "activate"]_vars

(* When a job has succeeded or failed, the run the user sees last says the  *)
(* same, whichever stage, recovery or retry ended it, and whatever a clip   *)
(* export made of the task since (finish_pipeline_run, "Finalize the        *)
(* user-visible run after the legacy task reaches a terminal state").  A    *)
(* task cancelled inside the ASR stage is the exception: it leaves its run  *)
(* running.                                                                 *)
RunAgreement ==
    \A t \in Tasks, r \in RunIds :
        /\ entry[t] = "finished" /\ job[t].status \in {"success", "failed"}
        /\ IsLatestRun(t, RunStates \ {"none"}, r)
        => runs[t][r] = job[t].status

Life == INSTANCE TaskLife WITH
            status <- task, work <- [t \in Tasks |-> job[t].status], turn <- entry

(* Status, job and queue entry of a task go through their states as         *)
(* TaskLife says, although API, worker and recovery write them in separate  *)
(* transactions, and through crashes: one claim comes to one outcome, only  *)
(* a failed clip export makes the status differ from it, and task list and  *)
(* queue contradict each other in no other way.                             *)
ImplementsTaskLife == Life!Spec

(* When the worker polls, nothing is running, as long as it never crashed:  *)
(* the 300 seconds of _recover_stale_running_jobs never fail a job whose    *)
(* worker is alive, however long its stages take.                           *)
NothingIsMistakenForStale == \A w \in Workers : pc[w] = "idle" => RunningJobs = {}

(* The outcome of a job is final until a retry or a deletion: the writes    *)
(* that follow it (the close, the release, recovery after a crash, a clip   *)
(* export that fails) do not touch it.                                      *)
OutcomeIsFinal ==
    [][\A t \in Tasks : job[t].status \in Terminal =>
          \/ job'[t].status = job[t].status
          \/ job'[t].status = "pending" /\ task'[t] \in {"pending", "deleted"}]_vars

\* What a worker at p, in stage s and after c of its chunks, still has to do at
\* most: three steps for each stage, four for each chunk, and some to leave.
ChunkStepsFrom(p, s, c) ==
    IF s < AsrStage \/ (s = AsrStage /\ p \in {"activate", "start", "check", "mark"})
    THEN 4 * Chunks
    ELSE IF s = AsrStage THEN 4 * (Chunks - c) ELSE 0

StepsFrom(p, s, c) ==
    CASE p \in {"idle", "claim"} -> 0
      [] p = "finish" -> 1
      [] p = "close" -> 2
      [] p \in {"failing", "final"} -> 3
      [] p = "load" -> 4
      [] p = "exec" -> 3 * (NumStages - s) + ChunkStepsFrom(p, s, c) + 5
      [] p \in {"mark", "signalled"} -> 3 * (NumStages - s) + ChunkStepsFrom(p, s, c) + 6
      [] p \in {"start", "check", "child"} -> 3 * (NumStages - s) + ChunkStepsFrom(p, s, c) + 7
      [] p \in {"activate", "spawned"} -> 3 * (NumStages - s) + ChunkStepsFrom(p, s, c) + 8

StepsLeft(w) == StepsFrom(pc[w], MyStage(w), ctx[w].chunk)

(* Every step a worker takes on a claim brings the end of the claim nearer, *)
(* and nothing that others do moves it away: no sequence of outcomes,       *)
(* cached chunks, stop requests and races keeps run_task_pipeline in its    *)
(* loops over stages and chunks.                                            *)
EveryStepCounts ==
    [][\A w \in Workers : pc[w] \notin {"idle", "claim"} =>
          /\ StepsLeft(w)' <= StepsLeft(w)
          /\ WorkerStep(w) => StepsLeft(w)' < StepsLeft(w)]_vars

(* How many steps are left is known when the claim is made.                 *)
ClaimIsBounded == \A w \in Workers : StepsLeft(w) \in 0..(3 * NumStages + 4 * Chunks + 5)

\* A worker that waits, waits for a child that is alive.
AwaitsChild(w) == pc[w] \in {"child", "signalled"} /\ MyChild(w) \in children

\* The guards of the steps of a worker that is not taken over, by its place.
CanStep(w) ==
    LET t == MyTask(w)
    IN  \/ pc[w] \in {"idle", "claim", "activate", "spawned", "close", "finish"}
        \/ pc[w] = "start" /\ Exists(t) /\ IsCurrent(w) /\ \E r \in RunIds : IsPipelineRun(t, r)
        \/ pc[w] = "check" /\ IsCurrent(w)
        \/ pc[w] = "exec" /\ IsCurrent(w) /\ Exists(t)
        \/ pc[w] \in {"mark", "failing", "load", "final"} /\ Exists(t)
        \/ pc[w] \in {"child", "signalled"} /\ MyChild(w) \notin children
        \/ pc[w] = "child" /\ StopRequested(t)

(* A worker is never stuck: its next transaction can be taken, its rows and *)
(* its token being there, or it waits for a child that is alive.            *)
NeverStuck == \A w \in Workers : CanStep(w) \/ AwaitsChild(w)

=============================================================================

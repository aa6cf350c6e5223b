------------------------- MODULE TaskPipelineProofs -------------------------
(***************************************************************************)
(* Proofs about TaskPipeline, for any tasks, workers, stages and bounds:   *)
(* type correctness, the refinement of GpuSlot, and the exclusivity of the *)
(* GPU that follows from it through crashes, recoveries and retries.       *)
(***************************************************************************)
EXTENDS TaskPipeline, TLAPS

SlotFacts == INSTANCE GpuSlotProofs WITH slot <- entry

-----------------------------------------------------------------------------
(* The helpers keep the types *)

(* clear_execution_control leaves a control row.                           *)
LEMMA ClearedIsTyped == \A c \in Control : Cleared(c) \in Control
BY DEF Cleared, Control

(* So does noting or forgetting the process group.                         *)
LEMMA TrackedIsTyped == \A c \in Control, b \in BOOLEAN : [c EXCEPT !.tracked = b] \in Control
BY DEF Control

(* finalize_cancelled leaves typed task, job, stage and control rows.      *)
LEMMA FinalizeCancelledIsTyped ==
    ASSUME DatabaseOK, NEW t \in Tasks, NEW st \in [Stages -> StageStates],
           FinalizeCancelled(t, st)
    PROVE  /\ task' \in [Tasks -> TaskStates]
           /\ job' \in [Tasks -> [status : JobStates, stage : Stages]]
           /\ stages' \in [Tasks -> [Stages -> StageStates]]
           /\ control' \in [Tasks -> Control]
<1>1. task' \in [Tasks -> TaskStates]
  BY DEF FinalizeCancelled, DatabaseOK, TaskStates, Terminal
<1>2. job' \in [Tasks -> [status : JobStates, stage : Stages]]
  BY DEF FinalizeCancelled, DatabaseOK, JobStates, Terminal
<1>3. stages' \in [Tasks -> [Stages -> StageStates]]
  BY DEF FinalizeCancelled, DatabaseOK, StageStates, Terminal
<1>4. control' \in [Tasks -> Control]
  BY ClearedIsTyped DEF FinalizeCancelled, DatabaseOK
<1> QED  BY <1>1, <1>2, <1>3, <1>4

(* The writes of retry_task_from_stage leave typed rows.                   *)
LEMMA ResetIsTyped ==
    ASSUME DatabaseOK, NEW t \in Tasks, NEW s \in Stages, ResetFrom(t, s)
    PROVE  /\ task' \in [Tasks -> TaskStates]
           /\ job' \in [Tasks -> [status : JobStates, stage : Stages]]
           /\ stages' \in [Tasks -> [Stages -> StageStates]]
           /\ runs' \in [Tasks -> [RunIds -> RunStates]]
BY DEF ResetFrom, DatabaseOK, TaskStates, JobStates, StageStates, RunStates

-----------------------------------------------------------------------------
(* A clip export is one task's business: it marks the export stage of an    *)
(* existing task, and its status when it fails, and touches nothing else.   *)
LEMMA ExportMarks ==
    ASSUME DatabaseOK, NEW t \in Tasks, ExportClip(t)
    PROVE  /\ UNCHANGED <<job, entry, control, runs, pc, ctx, asking, clips, children, issued,
                          crashes, bulks>>
           /\ exporting' \in {exporting \cup {t}, exporting \ {t}}
           /\ task' \in [Tasks -> TaskStates] /\ stages' \in [Tasks -> [Stages -> StageStates]]
           /\ \A u \in Tasks : \A s \in Stages \ {Export} : stages'[u][s] = stages[u][s]
           /\ \A u \in Tasks : task'[u] = task[u] \/ (Exists(u) /\ task'[u] = "failed")
<1>1. /\ UNCHANGED <<job, entry, control, runs, pc, ctx, asking, clips, children, issued,
                     crashes, bulks>>
      /\ exporting' \in {exporting \cup {t}, exporting \ {t}}
  BY DEF ExportClip, StartExport, EndExport, database
<1>2. UNCHANGED stages \/ \E x \in {"success", "failed"} : stages' = [stages EXCEPT ![t][Export] = x]
  BY DEF ExportClip, StartExport, EndExport, SucceedExport, FailExport, database
<1>3. UNCHANGED task \/ (Exists(t) /\ task' = [task EXCEPT ![t] = "failed"])
  BY DEF ExportClip, StartExport, EndExport, SucceedExport, FailExport, database
<1>4. stages' \in [Tasks -> [Stages -> StageStates]]
  <2>1. CASE UNCHANGED stages
    BY <2>1 DEF DatabaseOK
  <2>2. ASSUME NEW x \in {"success", "failed"}, stages' = [stages EXCEPT ![t][Export] = x]
        PROVE  stages' \in [Tasks -> [Stages -> StageStates]]
    <3>1. x \in StageStates
      BY DEF StageStates, Terminal
    <3>2. [stages[t] EXCEPT ![Export] = x] \in [Stages -> StageStates]
      BY <3>1 DEF DatabaseOK
    <3> QED  BY <2>2, <3>2 DEF DatabaseOK
  <2> QED  BY <1>2, <2>1, <2>2
<1>5. \A u \in Tasks : \A s \in Stages \ {Export} : stages'[u][s] = stages[u][s]
  BY <1>2 DEF DatabaseOK
<1>6. ASSUME NEW u \in Tasks
      PROVE  task'[u] = task[u] \/ (Exists(u) /\ task'[u] = "failed")
  <2>1. CASE UNCHANGED task
    BY <2>1
  <2>2. CASE Exists(t) /\ task' = [task EXCEPT ![t] = "failed"]
    BY <2>2 DEF DatabaseOK, Exists
  <2> QED  BY <1>3, <2>1, <2>2
<1>7. task' \in [Tasks -> TaskStates]
  <2>1. CASE UNCHANGED task
    BY <2>1 DEF DatabaseOK
  <2>2. CASE task' = [task EXCEPT ![t] = "failed"]
    BY <2>2 DEF DatabaseOK, TaskStates, Terminal
  <2> QED  BY <1>3, <2>1, <2>2
<1> QED  BY <1>1, <1>4, <1>5, <1>6, <1>7

-----------------------------------------------------------------------------
(* Type correctness *)

(* Every step keeps the tables typed.                                      *)
LEMMA DatabaseStaysTyped ==
    ASSUME TypeOK, [Next]_vars
    PROVE  DatabaseOK'
<1> USE StagesAssumption, BoundsAssumption
<1> USE DEF TypeOK, DatabaseOK, MyTask, MyStage, TaskStates, JobStates,
            StageStates, RunStates, EntryStates, WaitingEntry, Terminal, Done, Stages
<1>0. \A w \in Workers : /\ pc[w] \notin {"idle", "claim"} => MyTask(w) \in Tasks
                         /\ MyStage(w) \in Stages
                         /\ ctx[w].run \in RunIds
  BY DEF WorkersOK, Context
<1>00. NumStages \in Stages
  OBVIOUS
<1>1. ASSUME NEW t \in Tasks, CreateTask(t) PROVE DatabaseOK'
  BY <1>1 DEF CreateTask, RunIds
<1>2. ASSUME NEW t \in Tasks, NEW s \in WaitingEntry, SetQueueState(t, s) PROVE DatabaseOK'
  BY <1>2 DEF SetQueueState
<1>3. ASSUME NEW t \in Tasks, WriteStopRequest(t) PROVE DatabaseOK'
  BY <1>3 DEF WriteStopRequest, Control, NoControl
<1>4. ASSUME NEW t \in Tasks, NEW s \in Stages, RetryTask(t, s) PROVE DatabaseOK'
  BY <1>4, ResetIsTyped DEF RetryTask
<1>5. ASSUME NEW t \in Tasks, NEW s \in Stages, BulkRequeue(t, s) PROVE DatabaseOK'
  BY <1>5, ResetIsTyped DEF BulkRequeue
<1>6. ASSUME NEW t \in Tasks, DeleteTask(t) PROVE DatabaseOK'
  BY <1>6 DEF DeleteTask, Control, NoControl
<1>7. ASSUME NEW w \in Workers, NEW T \in SUBSET Tasks, RecoverStaleRunningJobs(w, T)
      PROVE  DatabaseOK'
  <2>1. task' \in [Tasks -> TaskStates]
    BY <1>7 DEF RecoverStaleRunningJobs
  <2>2. job' \in [Tasks -> [status : JobStates, stage : Stages]]
    BY <1>7 DEF RecoverStaleRunningJobs
  <2>3. stages' \in [Tasks -> [Stages -> StageStates]]
    BY <1>7 DEF RecoverStaleRunningJobs
  <2>4. entry' \in [Tasks -> EntryStates]
    BY <1>7 DEF RecoverStaleRunningJobs
  <2>5. control' \in [Tasks -> Control]
    BY <1>7, ClearedIsTyped DEF RecoverStaleRunningJobs
  <2>6. runs' \in [Tasks -> [RunIds -> RunStates]]
    BY <1>7 DEF RecoverStaleRunningJobs
  <2> QED  BY <2>1, <2>2, <2>3, <2>4, <2>5, <2>6
<1>8. ASSUME NEW w \in Workers, NEW t \in Tasks, ClaimNextJob(w, t) PROVE DatabaseOK'
  BY <1>0, <1>8 DEF ClaimNextJob
<1>9. ASSUME NEW w \in Workers, ActivateExecution(w) PROVE DatabaseOK'
  <2>1. MyTask(w) \in Tasks
    BY <1>0, <1>9 DEF ActivateExecution
  <2>2. issued[MyTask(w)] + 1 \in Nat
    BY <2>1 DEF EnvironmentOK
  <2>3. control' \in [Tasks -> Control]
    BY <1>9, <2>1, <2>2 DEF ActivateExecution, Control
  <2> QED  BY <1>9, <2>3 DEF ActivateExecution
<1>10. ASSUME NEW w \in Workers, NEW r \in RunIds, StartPipeline(w, r) PROVE DatabaseOK'
  BY <1>0, <1>10 DEF StartPipeline
<1>11. ASSUME NEW w \in Workers, NEW r \in RunIds, CancelAtStart(w, r) PROVE DatabaseOK'
  BY <1>0, <1>11, FinalizeCancelledIsTyped DEF CancelAtStart
<1>12. ASSUME NEW w \in Workers, CancelBeforeStage(w) PROVE DatabaseOK'
  BY <1>0, <1>12, FinalizeCancelledIsTyped DEF CancelBeforeStage
<1>13. ASSUME NEW w \in Workers, MarkStageRunning(w) PROVE DatabaseOK'
  BY <1>0, <1>13 DEF MarkStageRunning
<1>14. ASSUME NEW w \in Workers, NEW outcome \in Done, CompleteStage(w, outcome)
      PROVE  DatabaseOK'
  <2>1. MyTask(w) \in Tasks /\ MyStage(w) \in Stages
    BY <1>0, <1>14 DEF CompleteStage
  <2>2. MyStage(w) # NumStages => MyStage(w) + 1 \in Stages
    BY <2>1
  <2>3. WithOutcome(w, outcome) \in [Stages -> StageStates]
    BY <2>1 DEF WithOutcome
  <2>4. task' \in [Tasks -> TaskStates] /\ stages' \in [Tasks -> [Stages -> StageStates]]
    BY <1>14, <2>1, <2>3 DEF CompleteStage
  <2>5. job' \in [Tasks -> [status : JobStates, stage : Stages]]
    <3>1. PICK next \in Stages : job' = [job EXCEPT ![MyTask(w)].stage = next]
      BY <1>14, <1>00, <2>2 DEF CompleteStage
    <3> QED  BY <2>1, <3>1
  <2> QED  BY <1>14, <2>4, <2>5 DEF CompleteStage
<1>15. ASSUME NEW w \in Workers, NEW outcome \in Done, CompleteCancelled(w, outcome)
      PROVE  DatabaseOK'
  BY <1>0, <1>15, FinalizeCancelledIsTyped DEF CompleteCancelled, WithOutcome
<1>16. ASSUME NEW w \in Workers, ReportFailure(w) PROVE DatabaseOK'
  BY <1>0, <1>16 DEF ReportFailure
<1>17. ASSUME NEW w \in Workers, FailStage(w) PROVE DatabaseOK'
  BY <1>0, <1>17 DEF FailStage
<1>18. ASSUME NEW w \in Workers, CommitSuccess(w) PROVE DatabaseOK'
  <2>1. MyTask(w) \in Tasks /\ ctx[w].run \in RunIds
    BY <1>0, <1>18 DEF CommitSuccess
  <2>2. [status |-> "success", stage |-> NumStages] \in [status : JobStates, stage : Stages]
    BY <1>00
  <2> QED  BY <1>18, <2>1, <2>2 DEF CommitSuccess
<1>19. ASSUME NEW w \in Workers, CancelBetweenChunks(w) PROVE DatabaseOK'
  <2>1. MyTask(w) \in Tasks
    BY <1>0, <1>19 DEF CancelBetweenChunks, HasChunkLeft
  <2> QED  BY <1>19, <2>1, FinalizeCancelledIsTyped DEF CancelBetweenChunks
<1>20. ASSUME NEW w \in Workers, TrackChild(w) PROVE DatabaseOK'
  <2>1. control' \in [Tasks -> Control]
    <3>1. MyTask(w) \in Tasks
      BY <1>0, <1>20 DEF TrackChild
    <3>2. control' = control \/ control' = [control EXCEPT ![MyTask(w)] =
                                         [control[MyTask(w)] EXCEPT !.tracked = TRUE]]
      BY <1>20 DEF TrackChild
    <3>3. control[MyTask(w)] \in Control
      BY <3>1
    <3>4. [control[MyTask(w)] EXCEPT !.tracked = TRUE] \in Control
      BY <3>3, TrackedIsTyped
    <3> QED  BY <3>2, <3>4
  <2> QED  BY <1>20, <2>1 DEF TrackChild
<1>21. ASSUME NEW w \in Workers, ReapChild(w) PROVE DatabaseOK'
  <2>1. control' \in [Tasks -> Control]
    <3>1. MyTask(w) \in Tasks
      BY <1>0, <1>21 DEF ReapChild
    <3>2. control' = control \/ control' = [control EXCEPT ![MyTask(w)] =
                                         [control[MyTask(w)] EXCEPT !.tracked = FALSE]]
      BY <1>21 DEF ReapChild
    <3>3. control[MyTask(w)] \in Control
      BY <3>1
    <3>4. [control[MyTask(w)] EXCEPT !.tracked = FALSE] \in Control
      BY <3>3, TrackedIsTyped
    <3> QED  BY <3>2, <3>4
  <2> QED  BY <1>21, <2>1 DEF ReapChild
<1>22. ASSUME NEW w \in Workers, CancelChild(w) PROVE DatabaseOK'
  BY <1>0, <1>22, FinalizeCancelledIsTyped DEF CancelChild
<1>23. ASSUME NEW w \in Workers, ClosePipeline(w) PROVE DatabaseOK'
  <2>1. control' \in [Tasks -> Control]
    <3>1. MyTask(w) \in Tasks
      BY <1>0, <1>23 DEF ClosePipeline
    <3>2. control' = control \/ control' = [control EXCEPT ![MyTask(w)] = Cleared(control[MyTask(w)])]
      BY <1>23 DEF ClosePipeline
    <3>3. Cleared(control[MyTask(w)]) \in Control
      BY <3>1, ClearedIsTyped
    <3> QED  BY <3>2, <3>3
  <2> QED  BY <1>23, <2>1 DEF ClosePipeline
<1>24. ASSUME NEW w \in Workers, FinishEntry(w) PROVE DatabaseOK'
  BY <1>0, <1>24 DEF FinishEntry
<1>25. CASE UNCHANGED database
  BY <1>25 DEF database
<1>26. ASSUME NEW t \in Tasks, Api(t) PROVE DatabaseOK'
  BY <1>1, <1>2, <1>3, <1>4, <1>5, <1>6, <1>25,
     <1>26 DEF Api, CheckStopRequest, environment, database
<1>27. ASSUME NEW w \in Workers, Claim(w) PROVE DatabaseOK'
  BY <1>7, <1>8, <1>25, <1>27 DEF Claim, PassRecovery, ClaimNothing, database
<1>28. ASSUME NEW w \in Workers, RunStages(w) PROVE DatabaseOK'
  BY <1>9, <1>10, <1>11, <1>12, <1>13, <1>14, <1>15, <1>16, <1>17, <1>18, <1>25,
     <1>28
  DEF RunStages, CheckBeforeStage, LoadFinalStage, AbandonStale, TaskVanished, database
<1>29. ASSUME NEW w \in Workers, RunChunks(w) PROVE DatabaseOK'
  BY <1>19, <1>20, <1>21, <1>22, <1>25, <1>29
  DEF RunChunks, ReuseChunk, SpawnChild, SignalChild, KillStaleChild, database
<1>30. ASSUME NEW w \in Workers, Leave(w) PROVE DatabaseOK'
  BY <1>23, <1>24, <1>30 DEF Leave
<1>31. ASSUME NEW w \in Workers, Crash(w) PROVE DatabaseOK'
  BY <1>25, <1>31 DEF Crash, database
<1>32. ASSUME NEW c \in children, ChildExits(c) PROVE DatabaseOK'
  BY <1>25, <1>32 DEF ChildExits, database
<1>33. ASSUME NEW t \in Tasks, ExportClip(t) PROVE DatabaseOK'
  BY <1>33, ExportMarks
<1>34. CASE UNCHANGED vars
  BY <1>34 DEF vars
<1> QED  BY <1>26, <1>27, <1>28, <1>29, <1>30, <1>31, <1>32, <1>33, <1>34 DEF Next, WorkerStep

-----------------------------------------------------------------------------
(* One worker goes to a label of the program with a typed memory, which    *)
(* names a task unless the worker is between two claims.                   *)
Moves(w) ==
    \E l \in PcStates, c \in Context :
        /\ pc' = [pc EXCEPT ![w] = l]
        /\ ctx' = [ctx EXCEPT ![w] = c]
        /\ l \in {"idle", "claim"} \/ c.task \in Tasks

(* A move of one worker leaves every worker typed.                         *)
LEMMA MovesAreTyped ==
    ASSUME WorkersOK, NEW w \in Workers, Moves(w)
    PROVE  WorkersOK'
<1>1. PICK l \in PcStates, c \in Context :
        /\ pc' = [pc EXCEPT ![w] = l]
        /\ ctx' = [ctx EXCEPT ![w] = c]
        /\ l \in {"idle", "claim"} \/ c.task \in Tasks
  BY DEF Moves
<1>2. pc' \in [Workers -> PcStates] /\ ctx' \in [Workers -> Context]
  BY <1>1 DEF WorkersOK
<1>3. ASSUME NEW v \in Workers, pc'[v] \notin {"idle", "claim"} PROVE ctx'[v].task \in Tasks
  <2>1. CASE v = w
    BY <1>1, <1>3, <2>1 DEF WorkersOK
  <2>2. CASE v # w
    BY <1>1, <1>3, <2>2 DEF WorkersOK, MyTask
  <2> QED  BY <2>1, <2>2
<1> QED  BY <1>2, <1>3 DEF WorkersOK, MyTask

(* Moving on with the same memory.                                         *)
LEMMA GoToMoves ==
    ASSUME WorkersOK, NEW w \in Workers, NEW l \in PcStates, GoTo(w, l),
           MyTask(w) \in Tasks \/ l \in {"idle", "claim"}
    PROVE  Moves(w)
<1>1. ctx' = [ctx EXCEPT ![w] = ctx[w]] /\ ctx[w] \in Context
  BY DEF WorkersOK, GoTo
<1> QED  BY <1>1 DEF Moves, GoTo, MyTask

(* The memory of a worker that starts afresh is typed.                     *)
LEMMA NoContextIsTyped == NoContext \in Context
BY StagesAssumption, BoundsAssumption DEF NoContext, Context, Stages, RunIds

(* Every step of a worker is such a move.                                  *)
LEMMA WorkersMove ==
    ASSUME TypeOK, NEW w \in Workers, WorkerStep(w) \/ Crash(w)
    PROVE  Moves(w)
<1> USE StagesAssumption, BoundsAssumption DEF TypeOK, PcStates
<1>1. /\ WorkersOK
      /\ ctx[w] \in Context
      /\ pc[w] \notin {"idle", "claim"} => MyTask(w) \in Tasks
  BY DEF WorkersOK
<1>2. ASSUME NEW l \in {"idle", "claim"}, pc' = [pc EXCEPT ![w] = l], UNCHANGED ctx
      PROVE  Moves(w)
  BY <1>1, <1>2, GoToMoves DEF GoTo
<1>3. CASE Claim(w)
  <2>1. ASSUME NEW T \in SUBSET Tasks, RecoverStaleRunningJobs(w, T) PROVE Moves(w)
    BY <1>2, <2>1 DEF RecoverStaleRunningJobs
  <2>2. CASE PassRecovery(w)
    BY <1>2, <2>2 DEF PassRecovery
  <2>3. CASE ClaimNothing(w)
    BY <1>2, <2>3 DEF ClaimNothing
  <2>4. ASSUME NEW t \in Tasks, ClaimNextJob(w, t) PROVE Moves(w)
    <3>1. [NoContext EXCEPT !.task = t, !.stage = job[t].stage] \in Context
      BY NoContextIsTyped DEF DatabaseOK, Context
    <3> QED  BY <2>4, <3>1, NoContextIsTyped DEF ClaimNextJob, Moves, Context
  <2> QED  BY <1>3, <2>1, <2>2, <2>3, <2>4 DEF Claim
<1>4. CASE RunStages(w)
  <2>1. CASE ActivateExecution(w)
    <3> DEFINE memory == [ctx[w] EXCEPT !.token = issued[MyTask(w)] + 1]
    <3>1. memory \in Context /\ memory.task \in Tasks
      BY <1>1, <2>1 DEF ActivateExecution, Context, MyTask, MyStage, Stages, EnvironmentOK
    <3>2. ctx' = [ctx EXCEPT ![w] = memory]
      BY <1>1, <2>1 DEF ActivateExecution, MyTask, MyStage
    <3>3. pc' = [pc EXCEPT ![w] = "start"]
      BY <1>1, <2>1 DEF ActivateExecution, GoTo, WorkersOK
    <3> HIDE DEF memory
    <3> QED  BY <1>1, <3>1, <3>2, <3>3 DEF Moves, WorkersOK
  <2>2. ASSUME NEW r \in RunIds, StartPipeline(w, r) PROVE Moves(w)
    <3> DEFINE memory == [ctx[w] EXCEPT !.run = r]
    <3>1. memory \in Context /\ memory.task \in Tasks
      BY <1>1, <2>2 DEF StartPipeline, Context, MyTask, MyStage, Stages
    <3>2. ctx' = [ctx EXCEPT ![w] = memory]
      BY <1>1, <2>2 DEF StartPipeline, MyTask, MyStage
    <3>3. pc' = [pc EXCEPT ![w] = "exec"]
      BY <1>1, <2>2 DEF StartPipeline, GoTo, WorkersOK
    <3> HIDE DEF memory
    <3> QED  BY <1>1, <3>1, <3>2, <3>3 DEF Moves, WorkersOK
  <2>3. ASSUME NEW r \in RunIds, CancelAtStart(w, r) PROVE Moves(w)
    BY <1>1, <2>3, GoToMoves DEF CancelAtStart
  <2>4. CASE CheckBeforeStage(w)
    BY <1>1, <2>4, GoToMoves DEF CheckBeforeStage
  <2>5. CASE CancelBeforeStage(w)
    BY <1>1, <2>5, GoToMoves DEF CancelBeforeStage
  <2>6. CASE MarkStageRunning(w)
    <3> DEFINE memory == [ctx[w] EXCEPT !.chunk = 0, !.overrun = IF control[MyTask(w)].stop THEN @ + 1 ELSE @]
    <3>0. 0 \in 0..Chunks /\ ctx[w].overrun \in Nat /\ ctx[w].overrun + 1 \in Nat
      BY <1>1 DEF Context
    <3>1. memory \in Context /\ memory.task \in Tasks
      <4>1. PICK n \in Nat : memory = [ctx[w] EXCEPT !.chunk = 0, !.overrun = n]
        BY <3>0
      <4>2. MyTask(w) \in Tasks
        BY <1>1, <2>6 DEF MarkStageRunning
      <4> HIDE DEF memory
      <4> QED  BY <1>1, <3>0, <4>1, <4>2 DEF Context, MyTask
    <3>2. ctx' = [ctx EXCEPT ![w] = memory]
      BY <1>1, <2>6 DEF MarkStageRunning, MyTask, MyStage
    <3>3. pc' = [pc EXCEPT ![w] = "exec"]
      BY <1>1, <2>6 DEF MarkStageRunning, GoTo, WorkersOK
    <3> HIDE DEF memory
    <3> QED  BY <1>1, <3>1, <3>2, <3>3 DEF Moves, WorkersOK
  <2>7. ASSUME NEW outcome \in Done, CompleteStage(w, outcome) PROVE Moves(w)
    <3> DEFINE memory == [ctx[w] EXCEPT !.stage = IF MyStage(w) = NumStages THEN NumStages ELSE MyStage(w) + 1]
    <3>1. memory \in Context /\ memory.task \in Tasks
      BY <1>1, <2>7 DEF CompleteStage, Context, MyTask, MyStage, Stages
    <3>2. ctx' = [ctx EXCEPT ![w] = memory]
      BY <1>1, <2>7 DEF CompleteStage, MyTask, MyStage
    <3>3. pc' = [pc EXCEPT ![w] = IF MyStage(w) = NumStages THEN "load" ELSE "check"]
      BY <1>1, <2>7 DEF CompleteStage, GoTo, WorkersOK
    <3> HIDE DEF memory
    <3> QED  BY <1>1, <3>1, <3>2, <3>3 DEF Moves, WorkersOK
  <2>8. ASSUME NEW outcome \in Done, CompleteCancelled(w, outcome) PROVE Moves(w)
    BY <1>1, <2>8, GoToMoves DEF CompleteCancelled
  <2>9. CASE ReportFailure(w)
    BY <1>1, <2>9, GoToMoves DEF ReportFailure
  <2>10. CASE FailStage(w)
    <3> DEFINE memory == [ctx[w] EXCEPT !.raised = TRUE]
    <3>1. memory \in Context /\ memory.task \in Tasks
      BY <1>1, <2>10 DEF FailStage, Context, MyTask, MyStage, Stages
    <3>2. ctx' = [ctx EXCEPT ![w] = memory]
      BY <1>1, <2>10 DEF FailStage, MyTask, MyStage
    <3>3. pc' = [pc EXCEPT ![w] = "close"]
      BY <1>1, <2>10 DEF FailStage, GoTo, WorkersOK
    <3> HIDE DEF memory
    <3> QED  BY <1>1, <3>1, <3>2, <3>3 DEF Moves, WorkersOK
  <2>11. CASE LoadFinalStage(w)
    BY <1>1, <2>11, GoToMoves DEF LoadFinalStage
  <2>12. CASE CommitSuccess(w)
    BY <1>1, <2>12, GoToMoves DEF CommitSuccess
  <2>13. CASE AbandonStale(w)
    BY <1>1, <2>13, GoToMoves DEF AbandonStale
  <2>14. CASE TaskVanished(w)
    <3> DEFINE memory == [ctx[w] EXCEPT !.raised = TRUE]
    <3>1. memory \in Context /\ memory.task \in Tasks
      BY <1>1, <2>14 DEF TaskVanished, Context, MyTask, MyStage, Stages
    <3>2. ctx' = [ctx EXCEPT ![w] = memory]
      BY <1>1, <2>14 DEF TaskVanished, MyTask, MyStage
    <3>3. pc' = [pc EXCEPT ![w] = "close"]
      BY <1>1, <2>14 DEF TaskVanished, GoTo, WorkersOK
    <3> HIDE DEF memory
    <3> QED  BY <1>1, <3>1, <3>2, <3>3 DEF Moves, WorkersOK
  <2> QED  BY <1>4, <2>1, <2>2, <2>3, <2>4, <2>5, <2>6, <2>7, <2>8, <2>9, <2>10, <2>11, <2>12, <2>13, <2>14 DEF RunStages
<1>5. CASE RunChunks(w)
  <2>1. CASE ReuseChunk(w)
    <3> DEFINE memory == [ctx[w] EXCEPT !.chunk = ctx[w].chunk + 1]
    <3>1. memory \in Context /\ memory.task \in Tasks
      BY <1>1, <2>1 DEF ReuseChunk, Context, MyTask, MyStage, Stages, HasChunkLeft
    <3>2. ctx' = [ctx EXCEPT ![w] = memory]
      BY <1>1, <2>1 DEF ReuseChunk, MyTask, MyStage
    <3>3. pc' = [pc EXCEPT ![w] = pc[w]]
      BY <1>1, <2>1 DEF ReuseChunk, GoTo, WorkersOK
    <3> HIDE DEF memory
    <3> QED  BY <1>1, <3>1, <3>2, <3>3 DEF Moves, WorkersOK
  <2>2. CASE CancelBetweenChunks(w)
    BY <1>1, <2>2, GoToMoves DEF CancelBetweenChunks, HasChunkLeft
  <2>3. CASE SpawnChild(w)
    <3> DEFINE memory == [ctx[w] EXCEPT !.chunk = ctx[w].chunk + 1]
    <3>1. memory \in Context /\ memory.task \in Tasks
      BY <1>1, <2>3 DEF SpawnChild, Context, MyTask, MyStage, Stages, HasChunkLeft
    <3>2. ctx' = [ctx EXCEPT ![w] = memory]
      BY <1>1, <2>3 DEF SpawnChild, MyTask, MyStage
    <3>3. pc' = [pc EXCEPT ![w] = "spawned"]
      BY <1>1, <2>3 DEF SpawnChild, GoTo, WorkersOK
    <3> HIDE DEF memory
    <3> QED  BY <1>1, <3>1, <3>2, <3>3 DEF Moves, WorkersOK
  <2>4. CASE TrackChild(w)
    BY <1>1, <2>4, GoToMoves DEF TrackChild
  <2>5. CASE ReapChild(w)
    BY <1>1, <2>5, GoToMoves DEF ReapChild
  <2>6. CASE SignalChild(w)
    BY <1>1, <2>6, GoToMoves DEF SignalChild
  <2>7. CASE CancelChild(w)
    BY <1>1, <2>7, GoToMoves DEF CancelChild
  <2>8. CASE KillStaleChild(w)
    BY <1>1, <2>8, GoToMoves DEF KillStaleChild
  <2> QED  BY <1>5, <2>1, <2>2, <2>3, <2>4, <2>5, <2>6, <2>7, <2>8 DEF RunChunks
<1>6. CASE Leave(w)
  <2>1. CASE ClosePipeline(w)
    <3>1. CASE GoTo(w, "finish")
      BY <1>1, <2>1, <3>1, GoToMoves DEF ClosePipeline
    <3>2. CASE pc' = [pc EXCEPT ![w] = "idle"] /\ ctx' = [ctx EXCEPT ![w] = NoContext]
      BY <3>2, NoContextIsTyped DEF Moves
    <3> QED  BY <2>1, <3>1, <3>2 DEF ClosePipeline
  <2>2. CASE FinishEntry(w)
    BY <2>2, NoContextIsTyped DEF FinishEntry, Moves
  <2> QED  BY <1>6, <2>1, <2>2 DEF Leave
<1>7. CASE Crash(w)
  BY <1>7, NoContextIsTyped DEF Crash, Moves
<1> QED  BY <1>3, <1>4, <1>5, <1>6, <1>7 DEF WorkerStep

(* Every step keeps the workers typed.                                     *)
LEMMA WorkersStayTyped ==
    ASSUME TypeOK, [Next]_vars
    PROVE  WorkersOK'
<1>1. ASSUME NEW w \in Workers, WorkerStep(w) \/ Crash(w) PROVE WorkersOK'
  BY <1>1, WorkersMove, MovesAreTyped DEF TypeOK
<1>2. CASE UNCHANGED <<pc, ctx>>
  BY <1>2 DEF TypeOK, WorkersOK, MyTask
<1>3. ASSUME NEW t \in Tasks, Api(t) PROVE UNCHANGED <<pc, ctx>>
  BY <1>3 DEF Api, CreateTask, SetQueueState, CheckStopRequest, WriteStopRequest,
              RetryTask, BulkRequeue, DeleteTask
<1>4. ASSUME NEW c \in children, ChildExits(c) PROVE UNCHANGED <<pc, ctx>>
  BY <1>4 DEF ChildExits
<1>5. ASSUME NEW t \in Tasks, ExportClip(t) PROVE UNCHANGED <<pc, ctx>>
  BY <1>5, ExportMarks DEF TypeOK
<1>6. CASE UNCHANGED vars
  BY <1>2, <1>6 DEF vars
<1> QED  BY <1>1, <1>2, <1>3, <1>4, <1>5, <1>6 DEF Next

(* Every step keeps requests, children and counters typed.                 *)
LEMMA EnvironmentStaysTyped ==
    ASSUME TypeOK, [Next]_vars
    PROVE  EnvironmentOK'
<1> USE BoundsAssumption DEF TypeOK, EnvironmentOK
<1>0. \A w \in Workers : /\ pc[w] \notin {"idle", "claim"} => MyTask(w) \in Tasks
                         /\ ctx[w].token \in Nat
  BY DEF WorkersOK, Context
<1>1. CASE UNCHANGED environment
  BY <1>1 DEF environment
<1>2. ASSUME NEW t \in Tasks, CheckStopRequest(t) PROVE EnvironmentOK'
  BY <1>2 DEF CheckStopRequest
<1>3. ASSUME NEW t \in Tasks, WriteStopRequest(t) PROVE EnvironmentOK'
  BY <1>3 DEF WriteStopRequest
<1>4. ASSUME NEW t \in Tasks, NEW s \in Stages, BulkRequeue(t, s) PROVE EnvironmentOK'
  BY <1>4 DEF BulkRequeue
<1>5. ASSUME NEW w \in Workers, NEW T \in SUBSET Tasks, RecoverStaleRunningJobs(w, T)
      PROVE  EnvironmentOK'
  BY <1>5 DEF RecoverStaleRunningJobs
<1>6. ASSUME NEW w \in Workers, ActivateExecution(w) PROVE EnvironmentOK'
  <2>1. MyTask(w) \in Tasks
    BY <1>0, <1>6 DEF ActivateExecution
  <2>2. issued[MyTask(w)] + 1 \in Nat
    BY <2>1
  <2>3. issued' \in [Tasks -> Nat]
    BY <1>6, <2>2 DEF ActivateExecution
  <2> QED  BY <1>6, <2>3 DEF ActivateExecution
<1>7. ASSUME NEW w \in Workers, SpawnChild(w) PROVE EnvironmentOK'
  <2>1. MyChild(w) \in Child
    BY <1>0, <1>7 DEF SpawnChild, HasChunkLeft, MyChild, Child
  <2> QED  BY <1>7, <2>1 DEF SpawnChild
<1>8. ASSUME NEW w \in Workers, KillStaleChild(w) PROVE EnvironmentOK'
  BY <1>8 DEF KillStaleChild
<1>9. ASSUME NEW w \in Workers, Crash(w) PROVE EnvironmentOK'
  BY <1>9 DEF Crash
<1>10. ASSUME NEW c \in children, ChildExits(c) PROVE EnvironmentOK'
  BY <1>10 DEF ChildExits
<1>11. ASSUME NEW t \in Tasks, Api(t) PROVE EnvironmentOK'
  <2>1. DeleteTask(t) => EnvironmentOK'
    BY DEF DeleteTask
  <2> QED
    BY <1>1, <1>2, <1>3, <1>4, <1>11, <2>1 DEF Api, CreateTask, SetQueueState, RetryTask
<1>12. ASSUME NEW w \in Workers, Claim(w) PROVE EnvironmentOK'
  BY <1>1, <1>5, <1>12 DEF Claim, PassRecovery, ClaimNextJob, ClaimNothing
<1>13. ASSUME NEW w \in Workers, RunStages(w) PROVE EnvironmentOK'
  <2>1. ASSUME clips' = clips \/ ReplaceCandidates(w), pc[w] = "exec" \/ clips' = clips,
               UNCHANGED <<asking, exporting, children, issued, crashes, bulks>>
        PROVE  EnvironmentOK'
    <3>1. clips' \subseteq Tasks
      BY <1>0, <2>1 DEF ReplaceCandidates
    <3> QED  BY <2>1, <3>1
  <2>2. \A outcome \in Done :
            CompleteStage(w, outcome) \/ CompleteCancelled(w, outcome) => EnvironmentOK'
    BY <2>1 DEF CompleteStage, CompleteCancelled
  <2>3. FailStage(w) => EnvironmentOK'
    BY <2>1 DEF FailStage
  <2> QED
    BY <1>1, <1>6, <1>13, <2>2, <2>3
    DEF RunStages, StartPipeline, CancelAtStart, CheckBeforeStage, CancelBeforeStage,
        MarkStageRunning, ReportFailure, LoadFinalStage, CommitSuccess, AbandonStale, TaskVanished
<1>14. ASSUME NEW w \in Workers, RunChunks(w) PROVE EnvironmentOK'
  BY <1>1, <1>7, <1>8, <1>14
  DEF RunChunks, ReuseChunk, CancelBetweenChunks, TrackChild, ReapChild, SignalChild, CancelChild
<1>15. ASSUME NEW w \in Workers, Leave(w) PROVE EnvironmentOK'
  BY <1>1, <1>15 DEF Leave, ClosePipeline, FinishEntry
<1>16. ASSUME NEW t \in Tasks, ExportClip(t) PROVE EnvironmentOK'
  BY <1>16, ExportMarks
<1>17. CASE UNCHANGED vars
  BY <1>1, <1>17 DEF vars, environment
<1> QED
  BY <1>9, <1>10, <1>11, <1>12, <1>13, <1>14, <1>15, <1>16, <1>17 DEF Next, WorkerStep

(* The type invariant of the pipeline holds for any number of tasks,       *)
(* workers, stages, chunks, crashes and requests.                          *)
THEOREM TypeCorrect == Spec => []TypeOK
<1>1. Init => TypeOK
  <2> SUFFICES ASSUME Init PROVE TypeOK
    OBVIOUS
  <2> USE StagesAssumption, BoundsAssumption DEF Init
  <2>1. DatabaseOK
    BY DEF DatabaseOK, TaskStates, JobStates, StageStates, EntryStates, Control, NoControl,
           RunStates, Stages, RunIds
  <2>2. WorkersOK
    BY NoContextIsTyped DEF WorkersOK, PcStates
  <2>3. EnvironmentOK
    BY DEF EnvironmentOK
  <2> QED  BY <2>1, <2>2, <2>3 DEF TypeOK
<1>2. TypeOK /\ [Next]_vars => TypeOK'
  BY DatabaseStaysTyped, WorkersStayTyped, EnvironmentStaysTyped DEF TypeOK
<1> QED  BY <1>1, <1>2, PTL DEF Spec

-----------------------------------------------------------------------------
(* The pipeline implements the GPU slot *)

(* A task that was never created has no queue entry: the strengthening     *)
(* that shows that a new task cannot take an entry away from the GPU.      *)
NoEntryBeforeCreation == \A t \in Tasks : task[t] = "none" => entry[t] = "absent"

(* No step takes a task back to where it was before its creation.          *)
LEMMA CreationIsFinal ==
    ASSUME TypeOK, [Next]_vars, NEW u \in Tasks, task'[u] = "none"
    PROVE  task[u] = "none"
<1> USE DEF TypeOK, DatabaseOK
<1>1. CASE UNCHANGED task
  BY <1>1
<1>2. ASSUME NEW t \in Tasks, Api(t) PROVE task[u] = "none"
  BY <1>2 DEF Api, CreateTask, SetQueueState, CheckStopRequest, WriteStopRequest,
              RetryTask, BulkRequeue, DeleteTask, ResetFrom, database
<1>3. ASSUME NEW w \in Workers, Claim(w) PROVE task[u] = "none"
  BY <1>3 DEF Claim, RecoverStaleRunningJobs, PassRecovery, ClaimNextJob, ClaimNothing, database
<1>4. ASSUME NEW w \in Workers, RunStages(w) PROVE task[u] = "none"
  <2>1. \A r \in RunIds : StartPipeline(w, r) \/ CancelAtStart(w, r) => task[u] = "none"
    BY DEF StartPipeline, CancelAtStart, FinalizeCancelled
  <2>2. \A outcome \in Done :
            CompleteStage(w, outcome) \/ CompleteCancelled(w, outcome) => task[u] = "none"
    BY DEF CompleteStage, CompleteCancelled, FinalizeCancelled
  <2>3. CancelBeforeStage(w) \/ MarkStageRunning(w) => task[u] = "none"
    BY DEF CancelBeforeStage, FinalizeCancelled, MarkStageRunning
  <2>4. ReportFailure(w) \/ FailStage(w) \/ CommitSuccess(w) => task[u] = "none"
    BY DEF ReportFailure, FailStage, CommitSuccess
  <2> QED
    BY <1>1, <1>4, <2>1, <2>2, <2>3, <2>4
    DEF RunStages, ActivateExecution, CheckBeforeStage, LoadFinalStage, AbandonStale,
        TaskVanished, database
<1>5. ASSUME NEW w \in Workers, RunChunks(w) PROVE task[u] = "none"
  <2>1. CancelBetweenChunks(w) \/ CancelChild(w) => task[u] = "none"
    BY DEF CancelBetweenChunks, CancelChild, FinalizeCancelled
  <2> QED
    BY <1>1, <1>5, <2>1
    DEF RunChunks, ReuseChunk, SpawnChild, TrackChild, ReapChild, SignalChild,
        KillStaleChild, database
<1>6. ASSUME NEW w \in Workers, Leave(w) \/ Crash(w) PROVE task[u] = "none"
  BY <1>6 DEF Leave, ClosePipeline, FinishEntry, Crash, database
<1>7. ASSUME NEW c \in children, ChildExits(c) PROVE task[u] = "none"
  BY <1>7 DEF ChildExits, database
<1>8. ASSUME NEW t \in Tasks, ExportClip(t) PROVE task[u] = "none"
  BY <1>8, ExportMarks
<1>9. CASE UNCHANGED vars
  BY <1>1, <1>9 DEF vars
<1> QED  BY <1>2, <1>3, <1>4, <1>5, <1>6, <1>7, <1>8, <1>9 DEF Next, WorkerStep

(* A request to the API changes the slot as GpuSlot allows.                *)
LEMMA ApiIsSlotStep ==
    ASSUME TypeOK, NoEntryBeforeCreation, NEW t \in Tasks, Api(t)
    PROVE  Slot!Next \/ UNCHANGED entry
<1> USE DEF TypeOK, DatabaseOK
<1>1. ASSUME entry[t] # "running", entry' = [entry EXCEPT ![t] = "queued"]
      PROVE  Slot!Next
  BY <1>1 DEF Slot!Next, Slot!Admit
<1>2. CASE CreateTask(t)
  BY <1>1, <1>2 DEF CreateTask, NoEntryBeforeCreation
<1>3. ASSUME NEW s \in WaitingEntry, SetQueueState(t, s) PROVE Slot!Next
  BY <1>3 DEF SetQueueState, WaitingEntry, Slot!Next, Slot!Park, Slot!Waiting
<1>4. ASSUME NEW s \in Stages, RetryTask(t, s) PROVE Slot!Next
  BY <1>1, <1>4 DEF RetryTask
<1>5. ASSUME NEW s \in Stages, BulkRequeue(t, s) PROVE Slot!Next \/ UNCHANGED entry
  BY <1>1, <1>5 DEF BulkRequeue
<1>6. CASE DeleteTask(t)
  <2>1. CASE entry[t] = "absent"
    BY <1>6, <2>1 DEF DeleteTask
  <2>2. CASE entry[t] # "absent"
    BY <1>6, <2>2 DEF DeleteTask, EntryStates, WaitingEntry, Slot!Next, Slot!Drop, Slot!Waiting
  <2> QED  BY <2>1, <2>2
<1>7. CASE CheckStopRequest(t) \/ WriteStopRequest(t)
  BY <1>7 DEF CheckStopRequest, WriteStopRequest, database
<1> QED  BY <1>2, <1>3, <1>4, <1>5, <1>6, <1>7 DEF Api

(* So does a step of a worker: it claims the free slot, or makes entries   *)
(* history, those of stale jobs or the one it worked on.                   *)
LEMMA WorkerIsSlotStep ==
    ASSUME TypeOK, NEW w \in Workers, WorkerStep(w) \/ Crash(w)
    PROVE  Slot!Next \/ UNCHANGED entry
<1> USE DEF TypeOK, DatabaseOK
<1>1. ASSUME NEW T \in SUBSET Tasks,
             entry' = [t \in Tasks |-> IF t \in T /\ entry[t] # "absent"
                                       THEN "finished" ELSE entry[t]]
      PROVE  Slot!Next
  <2> DEFINE R == {t \in T : entry[t] \notin {"absent", "finished"}}
  <2>1. R \in SUBSET Tasks /\ \A t \in R : entry[t] \in Slot!Waiting \cup {"running"}
    BY DEF EntryStates, WaitingEntry, Slot!Waiting
  <2>2. entry' = [t \in Tasks |-> IF t \in R THEN "finished" ELSE entry[t]]
    BY <1>1
  <2> HIDE DEF R
  <2> QED  BY <2>1, <2>2 DEF Slot!Next, Slot!Release
<1>2. ASSUME NEW T \in SUBSET Tasks, RecoverStaleRunningJobs(w, T) PROVE Slot!Next
  BY <1>1, <1>2 DEF RecoverStaleRunningJobs
<1>3. ASSUME NEW t \in Tasks, ClaimNextJob(w, t) PROVE Slot!Next
  BY <1>3 DEF ClaimNextJob, SlotIsFree, Slot!Next, Slot!Acquire
<1>4. CASE FinishEntry(w)
  <2>1. MyTask(w) \in Tasks
    BY <1>4 DEF FinishEntry, WorkersOK
  <2>2. CASE entry[MyTask(w)] = "absent"
    BY <1>4, <2>2 DEF FinishEntry
  <2>3. CASE entry[MyTask(w)] # "absent"
    <3> DEFINE T == {MyTask(w)}
    <3>1. entry' = [entry EXCEPT ![MyTask(w)] = "finished"]
      BY <1>4, <2>3 DEF FinishEntry
    <3>2. entry' = [t \in Tasks |-> IF t \in T /\ entry[t] # "absent"
                                    THEN "finished" ELSE entry[t]]
      BY <2>1, <2>3, <3>1
    <3>3. T \in SUBSET Tasks
      BY <2>1
    <3> HIDE DEF T
    <3> QED  BY <1>1, <3>2, <3>3
  <2> QED  BY <2>2, <2>3
<1>5. CASE Claim(w)
  BY <1>2, <1>3, <1>5 DEF Claim, PassRecovery, ClaimNothing, database
<1>6. CASE RunStages(w)
  BY <1>6
  DEF RunStages, ActivateExecution, StartPipeline, CancelAtStart, CheckBeforeStage,
      CancelBeforeStage, MarkStageRunning, CompleteStage, CompleteCancelled, ReportFailure,
      FailStage, LoadFinalStage, CommitSuccess, AbandonStale, TaskVanished, database
<1>7. CASE RunChunks(w)
  BY <1>7
  DEF RunChunks, ReuseChunk, CancelBetweenChunks, SpawnChild, TrackChild, ReapChild,
      SignalChild, CancelChild, KillStaleChild, database
<1>8. CASE Leave(w) \/ Crash(w)
  BY <1>4, <1>8 DEF Leave, ClosePipeline, Crash, database
<1> QED  BY <1>5, <1>6, <1>7, <1>8 DEF WorkerStep

(* Every step of the pipeline is a step of the slot or leaves it alone.    *)
LEMMA NextIsSlotStep ==
    ASSUME TypeOK, NoEntryBeforeCreation, [Next]_vars
    PROVE  [Slot!Next]_entry
<1>1. ASSUME NEW c \in children, ChildExits(c) PROVE UNCHANGED entry
  BY <1>1 DEF ChildExits, database
<1>2. ASSUME NEW t \in Tasks, ExportClip(t) PROVE UNCHANGED entry
  BY <1>2, ExportMarks DEF TypeOK
<1>3. CASE UNCHANGED vars
  BY <1>3 DEF vars
<1> QED  BY <1>1, <1>2, <1>3, ApiIsSlotStep, WorkerIsSlotStep DEF Next

(* A slot step gives an entry only to a task that is being created, or has *)
(* one already.                                                            *)
LEMMA StepKeepsNoEntryBeforeCreation ==
    ASSUME TypeOK, NoEntryBeforeCreation, [Next]_vars
    PROVE  NoEntryBeforeCreation'
<1> USE DEF TypeOK, DatabaseOK
<1> SUFFICES ASSUME NEW u \in Tasks, task'[u] = "none" PROVE entry'[u] = "absent"
  BY DEF NoEntryBeforeCreation
<1>1. task[u] = "none" /\ entry[u] = "absent"
  BY CreationIsFinal DEF NoEntryBeforeCreation
<1>2. CASE UNCHANGED entry
  BY <1>1, <1>2
<1>3. ASSUME NEW t \in Tasks, Api(t) PROVE entry'[u] = "absent"
  <2>1. CASE t = u
    BY <1>1, <1>3, <2>1
    DEF Api, CreateTask, SetQueueState, CheckStopRequest, WriteStopRequest, RetryTask,
        BulkRequeue, DeleteTask, Exists, WaitingEntry, database
  <2>2. CASE t # u
    BY <1>1, <1>3, <2>2
    DEF Api, CreateTask, SetQueueState, CheckStopRequest, WriteStopRequest, RetryTask,
        BulkRequeue, DeleteTask, database
  <2> QED  BY <2>1, <2>2
<1>4. ASSUME NEW w \in Workers, WorkerStep(w) \/ Crash(w) PROVE entry'[u] = "absent"
  <2>1. \A T \in SUBSET Tasks : RecoverStaleRunningJobs(w, T) => entry'[u] = "absent"
    BY <1>1 DEF RecoverStaleRunningJobs
  <2>2. \A t \in Tasks : ClaimNextJob(w, t) => entry'[u] = "absent"
    BY <1>1 DEF ClaimNextJob
  <2>3. FinishEntry(w) => entry'[u] = "absent"
    BY <1>1 DEF FinishEntry
  <2>4. CASE Claim(w)
    BY <1>2, <2>1, <2>2, <2>4 DEF Claim, PassRecovery, ClaimNothing, database
  <2>5. CASE RunStages(w)
    BY <1>2, <2>5
    DEF RunStages, ActivateExecution, StartPipeline, CancelAtStart, CheckBeforeStage,
        CancelBeforeStage, MarkStageRunning, CompleteStage, CompleteCancelled, ReportFailure,
        FailStage, LoadFinalStage, CommitSuccess, AbandonStale, TaskVanished, database
  <2>6. CASE RunChunks(w)
    BY <1>2, <2>6
    DEF RunChunks, ReuseChunk, CancelBetweenChunks, SpawnChild, TrackChild, ReapChild,
        SignalChild, CancelChild, KillStaleChild, database
  <2>7. CASE Leave(w) \/ Crash(w)
    BY <1>2, <2>3, <2>7 DEF Leave, ClosePipeline, Crash, database
  <2> QED  BY <1>4, <2>4, <2>5, <2>6, <2>7 DEF WorkerStep
<1>5. ASSUME NEW c \in children, ChildExits(c) PROVE entry'[u] = "absent"
  BY <1>2, <1>5 DEF ChildExits, database
<1>6. ASSUME NEW t \in Tasks, ExportClip(t) PROVE entry'[u] = "absent"
  BY <1>2, <1>6, ExportMarks
<1>7. CASE UNCHANGED vars
  BY <1>2, <1>7 DEF vars
<1> QED  BY <1>3, <1>4, <1>5, <1>6, <1>7 DEF Next

(* The pipeline uses the queue as GpuSlot allows, with any number of tasks *)
(* and workers, crashes, recoveries and racing requests.                   *)
THEOREM PipelineImplementsGpuSlot == Spec => ImplementsGpuSlot
<1>1. Init => Slot!Init /\ NoEntryBeforeCreation
  BY DEF Init, Slot!Init, NoEntryBeforeCreation
<1>2. TypeOK /\ NoEntryBeforeCreation /\ [Next]_vars
        => [Slot!Next]_entry /\ NoEntryBeforeCreation'
  BY NextIsSlotStep, StepKeepsNoEntryBeforeCreation
<1> QED  BY <1>1, <1>2, TypeCorrect, PTL DEF Spec, ImplementsGpuSlot, Slot!Spec

(* At most one queue entry is running, whoever crashes, recovers, cancels, *)
(* retries or deletes: what GpuSlot promises, the pipeline keeps.          *)
THEOREM PipelineIsExclusive == Spec => []OneRunningEntry
<1>1. Slot!Init <=> SlotFacts!Init
  BY DEF Slot!Init, SlotFacts!Init
<1>2. Slot!Next <=> SlotFacts!Next
  BY DEF Slot!Next, SlotFacts!Next, Slot!Admit, SlotFacts!Admit, Slot!Park, SlotFacts!Park,
         Slot!Acquire, SlotFacts!Acquire, Slot!Release, SlotFacts!Release,
         Slot!Drop, SlotFacts!Drop, Slot!Waiting, SlotFacts!Waiting
<1>3. Slot!Exclusive <=> SlotFacts!Exclusive
  BY DEF Slot!Exclusive, SlotFacts!Exclusive
<1> QED
  BY <1>1, <1>2, <1>3, SlotFacts!SlotIsExclusive, PipelineImplementsGpuSlot, PTL
  DEF ImplementsGpuSlot, OneRunningEntry, Slot!Spec, SlotFacts!Spec

-----------------------------------------------------------------------------
(* Every step of a claim counts *)

\* Only the recognition stage has children.
ChildrenAreOfAsr == \A w \in Workers : pc[w] \in {"spawned", "child", "signalled"} => MyStage(w) = AsrStage

StepsInv == TypeOK /\ ChildrenAreOfAsr

\* The measure at each place, without the case distinction.
LEMMA StepsAt ==
    ASSUME NEW s, NEW c
    PROVE  /\ StepsFrom("close", s, c) = 2 /\ StepsFrom("finish", s, c) = 1
           /\ StepsFrom("idle", s, c) = 0 /\ StepsFrom("claim", s, c) = 0
           /\ StepsFrom("failing", s, c) = 3 /\ StepsFrom("final", s, c) = 3
           /\ StepsFrom("load", s, c) = 4
           /\ \A p \in {"activate", "spawned"} :
                  StepsFrom(p, s, c) = 3 * (NumStages - s) + ChunkStepsFrom(p, s, c) + 8
           /\ \A p \in {"start", "check", "child"} :
                  StepsFrom(p, s, c) = 3 * (NumStages - s) + ChunkStepsFrom(p, s, c) + 7
           /\ \A p \in {"mark", "signalled"} :
                  StepsFrom(p, s, c) = 3 * (NumStages - s) + ChunkStepsFrom(p, s, c) + 6
           /\ StepsFrom("exec", s, c) = 3 * (NumStages - s) + ChunkStepsFrom("exec", s, c) + 5
BY DEF StepsFrom

\* What is left of a stage: to go in, to come out or to leave costs a step each.
LEMMA StepsFall ==
    ASSUME NEW s \in Stages, NEW c \in 0..Chunks
    PROVE  /\ StepsFrom("start", s, c) < StepsFrom("activate", s, c)
           /\ StepsFrom("exec", s, c) < StepsFrom("start", s, c)
           /\ StepsFrom("mark", s, c) < StepsFrom("check", s, c)
           /\ StepsFrom("exec", s, 0) < StepsFrom("mark", s, c)
           /\ s < NumStages => StepsFrom("check", s + 1, c) < StepsFrom("exec", s, c)
           /\ StepsFrom("load", NumStages, c) < StepsFrom("exec", s, c)
           /\ StepsFrom("failing", s, c) < StepsFrom("exec", s, c)
           /\ StepsFrom("final", s, c) < StepsFrom("load", s, c)
           /\ StepsFrom("child", s, c) < StepsFrom("spawned", s, c)
           /\ StepsFrom("exec", s, c) < StepsFrom("child", s, c)
           /\ StepsFrom("signalled", s, c) < StepsFrom("child", s, c)
           /\ s = AsrStage /\ c < Chunks =>
                  /\ StepsFrom("exec", s, c + 1) < StepsFrom("exec", s, c)
                  /\ StepsFrom("spawned", s, c + 1) < StepsFrom("exec", s, c)
BY StepsAt, StagesAssumption, BoundsAssumption DEF ChunkStepsFrom, Stages

LEMMA LeavingIsShort ==
    ASSUME NEW s \in Stages, NEW c \in 0..Chunks, NEW p \in PcStates \ {"idle", "claim", "close", "finish"}
    PROVE  2 < StepsFrom(p, s, c)
BY StepsAt, StagesAssumption, BoundsAssumption DEF ChunkStepsFrom, Stages, PcStates

LEMMA StepsAreBounded ==
    ASSUME NEW s \in Stages, NEW c \in 0..Chunks, NEW p \in PcStates
    PROVE  StepsFrom(p, s, c) \in 0..(3 * NumStages + 4 * Chunks + 5)
BY StepsAt, StagesAssumption, BoundsAssumption DEF ChunkStepsFrom, Stages, PcStates

\* The steps of a claim: out of the pipeline, on with the same memory, or on
\* with the memory moved to the next stage or chunk.
LEMMA StepFalls ==
    ASSUME StepsInv, NEW w \in Workers, WorkerStep(w), pc[w] \notin {"idle", "claim"}
    PROVE  /\ StepsLeft(w)' < StepsLeft(w)
           /\ pc'[w] \in {"spawned", "child", "signalled"} => MyStage(w)' = AsrStage
<1> DEFINE s == MyStage(w)
           c == ctx[w].chunk
           Falls == /\ StepsFrom(pc'[w], ctx'[w].stage, ctx'[w].chunk) < StepsFrom(pc[w], s, c)
                    /\ pc'[w] \in {"spawned", "child", "signalled"} => ctx'[w].stage = AsrStage
<1>0. /\ pc \in [Workers -> PcStates] /\ ctx \in [Workers -> Context]
      /\ s \in Stages /\ c \in 0..Chunks /\ ctx[w].stage = s
      /\ pc[w] \in {"spawned", "child", "signalled"} => s = AsrStage
  BY DEF StepsInv, TypeOK, WorkersOK, Context, ChildrenAreOfAsr, MyStage
<1>1. ASSUME pc'[w] = "close", pc[w] \notin {"close", "finish"}
      PROVE  Falls
  <2>1. pc[w] \in PcStates \ {"idle", "claim", "close", "finish"}
    BY <1>0, <1>1
  <2> QED
    BY <1>0, <1>1, <2>1, LeavingIsShort, StepsAt
<1>2. ASSUME ctx'[w] = ctx[w],
             <<pc[w], pc'[w]>> \in {<<"check", "mark">>, <<"exec", "failing">>, <<"load", "final">>,
                 <<"spawned", "child">>, <<"child", "exec">>, <<"child", "signalled">>}
      PROVE  Falls
  BY <1>0, <1>2, StepsFall
<1>3. ASSUME Claim(w)
      PROVE  Falls
  BY <1>3 DEF Claim, RecoverStaleRunningJobs, PassRecovery, ClaimNextJob, ClaimNothing
<1>4. ASSUME ActivateExecution(w)
      PROVE  Falls
  <2>1. pc[w] = "activate" /\ pc'[w] = "start" /\ ctx'[w].stage = s /\ ctx'[w].chunk = c
    BY <1>0, <1>4 DEF ActivateExecution, Context
  <2> QED
    BY <1>0, <2>1, StepsFall
<1>5. ASSUME NEW r \in RunIds, StartPipeline(w, r)
      PROVE  Falls
  <2>1. pc[w] = "start" /\ pc'[w] = "exec" /\ ctx'[w].stage = s /\ ctx'[w].chunk = c
    BY <1>0, <1>5 DEF StartPipeline, Context
  <2> QED
    BY <1>0, <2>1, StepsFall
<1>6. ASSUME MarkStageRunning(w)
      PROVE  Falls
  <2>1. pc[w] = "mark" /\ pc'[w] = "exec" /\ ctx'[w].stage = s /\ ctx'[w].chunk = 0
    BY <1>0, <1>6 DEF MarkStageRunning, Context
  <2> QED
    BY <1>0, <2>1, StepsFall
<1>7. ASSUME NEW outcome \in Done, CompleteStage(w, outcome)
      PROVE  Falls
  <2>1. /\ pc[w] = "exec" /\ ctx'[w].chunk = c
        /\ IF s = NumStages THEN pc'[w] = "load" /\ ctx'[w].stage = NumStages
                            ELSE pc'[w] = "check" /\ ctx'[w].stage = s + 1
    BY <1>0, <1>7 DEF CompleteStage, Context
  <2>2. s # NumStages => s < NumStages
    BY <1>0, StagesAssumption DEF Stages
  <2> QED
    BY <1>0, <2>1, <2>2, StepsFall
<1>8. ASSUME ReuseChunk(w) \/ SpawnChild(w)
      PROVE  Falls
  <2>1. /\ pc[w] = "exec" /\ pc'[w] \in {"exec", "spawned"} /\ ctx'[w].stage = s /\ ctx'[w].chunk = c + 1
        /\ s = AsrStage /\ c < Chunks
    BY <1>0, <1>8 DEF ReuseChunk, SpawnChild, HasChunkLeft, Context
  <2> QED
    BY <1>0, <2>1, StepsFall
<1>9. ASSUME CheckBeforeStage(w) \/ ReportFailure(w) \/ SignalChild(w)
      PROVE  Falls
  <2>1. /\ ctx' = ctx
        /\ <<pc[w], pc'[w]>> \in {<<"check", "mark">>, <<"exec", "failing">>, <<"child", "signalled">>}
    BY <1>0, <1>9 DEF CheckBeforeStage, ReportFailure, SignalChild, GoTo
  <2> QED
    BY <1>2, <2>1
<1>10. ASSUME LoadFinalStage(w) \/ TrackChild(w) \/ ReapChild(w)
      PROVE  Falls
  <2>1. /\ ctx' = ctx
        /\ \/ pc'[w] = "close" /\ pc[w] \notin {"close", "finish"}
           \/ <<pc[w], pc'[w]>> \in {<<"load", "final">>, <<"spawned", "child">>, <<"child", "exec">>}
    BY <1>0, <1>10 DEF LoadFinalStage, TrackChild, ReapChild, GoTo
  <2> QED
    BY <1>1, <1>2, <2>1
<1>11. ASSUME \/ \E r \in RunIds : CancelAtStart(w, r)
              \/ \E outcome \in Done : CompleteCancelled(w, outcome)
              \/ CancelBeforeStage(w) \/ FailStage(w) \/ CommitSuccess(w) \/ AbandonStale(w)
              \/ TaskVanished(w) \/ CancelBetweenChunks(w) \/ CancelChild(w) \/ KillStaleChild(w)
       PROVE  Falls
  <2>1. pc'[w] = "close" /\ pc[w] \notin {"close", "finish"}
    BY <1>0, <1>11
    DEF CancelAtStart, CompleteCancelled, CancelBeforeStage, FailStage, CommitSuccess, AbandonStale,
        TaskVanished, CancelBetweenChunks, HasChunkLeft, CancelChild, KillStaleChild, GoTo
  <2> QED
    BY <1>1, <2>1
<1>12. ASSUME Leave(w)
      PROVE  Falls
  <2>1. \/ pc[w] = "close" /\ pc'[w] \in {"finish", "idle"}
        \/ pc[w] = "finish" /\ pc'[w] = "idle"
    BY <1>0, <1>12 DEF Leave, ClosePipeline, FinishEntry, GoTo
  <2> QED
    BY <2>1, StepsAt
<1>13. Falls
  <2> HIDE DEF Falls
  <2> QED
    BY <1>3, <1>4, <1>5, <1>6, <1>7, <1>8, <1>9, <1>10, <1>11, <1>12 DEF WorkerStep, RunStages, RunChunks
<1> QED
  BY <1>13 DEF StepsLeft, MyStage

\* A step of a worker moves no other worker.
LEMMA WorkerIsAlone ==
    ASSUME TypeOK, NEW w \in Workers, WorkerStep(w) \/ Crash(w), NEW v \in Workers, v # w
    PROVE  pc'[v] = pc[v] /\ ctx'[v] = ctx[v]
BY WorkersMove DEF Moves, TypeOK, WorkersOK

\* Requests, clip exports and children move no worker.
LEMMA OthersMoveNoWorker ==
    ASSUME \/ \E t \in Tasks : Api(t) \/ ExportClip(t)
           \/ \E c \in children : ChildExits(c)
           \/ UNCHANGED vars
    PROVE  UNCHANGED <<pc, ctx>>
BY DEF Api, CreateTask, SetQueueState, CheckStopRequest, WriteStopRequest, RetryTask, BulkRequeue,
       DeleteTask, ExportClip, StartExport, EndExport, ChildExits, vars

\* What a step does to one worker: nothing, a step of its own, or a crash.
LEMMA WorkerIsMovedByItself ==
    ASSUME TypeOK, [Next]_vars, NEW w \in Workers
    PROVE  \/ pc'[w] = pc[w] /\ ctx'[w] = ctx[w]
           \/ WorkerStep(w)
           \/ pc'[w] = "idle"
<1>1. ASSUME NEW v \in Workers, WorkerStep(v) \/ Crash(v), v # w
      PROVE  pc'[w] = pc[w] /\ ctx'[w] = ctx[w]
  BY <1>1, WorkerIsAlone
<1>2. Crash(w) => pc'[w] = "idle"
  BY DEF Crash, TypeOK, WorkersOK
<1>3. CASE UNCHANGED <<pc, ctx>>
  BY <1>3
<1> QED
  BY <1>1, <1>2, <1>3, OthersMoveNoWorker DEF Next

LEMMA StepsStep ==
    ASSUME StepsInv, [Next]_vars
    PROVE  /\ StepsInv'
           /\ \A w \in Workers : pc[w] \notin {"idle", "claim"} =>
                  /\ StepsLeft(w)' <= StepsLeft(w)
                  /\ WorkerStep(w) => StepsLeft(w)' < StepsLeft(w)
<1>1. TypeOK'
  BY DatabaseStaysTyped, WorkersStayTyped, EnvironmentStaysTyped DEF StepsInv, TypeOK
<1>2. ASSUME NEW w \in Workers
      PROVE  pc'[w] \in {"spawned", "child", "signalled"} => MyStage(w)' = AsrStage
  <2>1. CASE pc'[w] = pc[w] /\ ctx'[w] = ctx[w]
    BY <2>1 DEF StepsInv, ChildrenAreOfAsr, MyStage
  <2>2. WorkerStep(w) /\ pc[w] \in {"idle", "claim"} => pc'[w] \notin {"spawned", "child", "signalled"}
    <3>1. Claim(w) => pc'[w] \notin {"spawned", "child", "signalled"}
      BY DEF Claim, RecoverStaleRunningJobs, PassRecovery, ClaimNextJob, ClaimNothing, StepsInv, TypeOK,
             WorkersOK
    <3>2. pc[w] \in {"idle", "claim"} => ~RunStages(w)
      BY DEF RunStages, ActivateExecution, StartPipeline, CancelAtStart, CheckBeforeStage,
             CancelBeforeStage, MarkStageRunning, CompleteStage, CompleteCancelled, ReportFailure,
             FailStage, LoadFinalStage, CommitSuccess, AbandonStale, TaskVanished
    <3>3. pc[w] \in {"idle", "claim"} => ~RunChunks(w) /\ ~Leave(w)
      BY DEF RunChunks, HasChunkLeft, ReuseChunk, CancelBetweenChunks, SpawnChild, TrackChild, ReapChild,
             SignalChild, CancelChild, KillStaleChild, Leave, ClosePipeline, FinishEntry
    <3> QED
      BY <3>1, <3>2, <3>3 DEF WorkerStep
  <2> QED
    BY <2>1, <2>2, StepFalls, WorkerIsMovedByItself DEF StepsInv
<1>3. ASSUME NEW w \in Workers, pc[w] \notin {"idle", "claim"}
      PROVE  /\ StepsLeft(w)' <= StepsLeft(w)
             /\ WorkerStep(w) => StepsLeft(w)' < StepsLeft(w)
  <2>1. StepsLeft(w) \in 0..(3 * NumStages + 4 * Chunks + 5) /\ StepsLeft(w)' \in Nat
    BY <1>1, StepsAreBounded, StagesAssumption, BoundsAssumption
    DEF StepsInv, TypeOK, WorkersOK, Context, StepsLeft, MyStage
  <2>2. CASE pc'[w] = pc[w] /\ ctx'[w] = ctx[w]
    BY <1>3, <2>1, <2>2, StepFalls DEF StepsLeft, MyStage
  <2>3. pc'[w] = "idle" => StepsLeft(w)' = 0
    BY StepsAt DEF StepsLeft
  <2> QED
    BY <1>3, <2>1, <2>2, <2>3, StepFalls, WorkerIsMovedByItself, StagesAssumption, BoundsAssumption
    DEF StepsInv
<1> QED
  BY <1>1, <1>2, <1>3 DEF StepsInv, ChildrenAreOfAsr

LEMMA StepsInvariant == Spec => []StepsInv
<1>1. Init => ChildrenAreOfAsr
  BY DEF Init, ChildrenAreOfAsr
<1>2. StepsInv /\ [Next]_vars => ChildrenAreOfAsr'
  BY StepsStep DEF StepsInv
<1> QED
  BY <1>1, <1>2, TypeCorrect, PTL DEF Spec, StepsInv

\* A claim takes no more than 3 steps a stage, 4 a chunk and 5: the measure is never
\* above that, for any number of workers and whatever they run into.
THEOREM ClaimsAreBounded == Spec => []ClaimIsBounded
<1>1. TypeOK => ClaimIsBounded
  BY StepsAreBounded DEF TypeOK, WorkersOK, Context, ClaimIsBounded, StepsLeft, MyStage
<1> QED
  BY <1>1, TypeCorrect, PTL

\* Every step of run_task_pipeline brings the worker nearer to the release of its claim,
\* and neither a request, nor a child, nor another worker pushes it back.
THEOREM EveryClaimGetsShorter == Spec => EveryStepCounts
<1>1. StepsInv /\ [Next]_vars =>
          [\A w \in Workers : pc[w] \notin {"idle", "claim"} =>
              /\ StepsLeft(w)' <= StepsLeft(w)
              /\ WorkerStep(w) => StepsLeft(w)' < StepsLeft(w)]_vars
  BY StepsStep
<1> QED
  BY <1>1, StepsInvariant, PTL DEF Spec, EveryStepCounts

=============================================================================

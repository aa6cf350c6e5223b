-------------------------- MODULE OneWorkerProofs --------------------------
(***************************************************************************)
(* Proofs about TaskPipeline as it is deployed, with one worker: running    *)
(* jobs and the queue, stop requests, and, as long as no bulk requeue       *)
(* overwrites the rows of a running task, checkpoints, outcomes and runs;   *)
(* children and the owner of the slot, when the worker does not crash; and  *)
(* that the pipeline implements TaskLife and its worker is never stuck.     *)
(***************************************************************************)
EXTENDS TaskPipelineProofs, FiniteSetTheorems, WellFoundedInduction

\* "Do not scale worker horizontally" (operator-manual.md:175).
SoleWorker == \A v, w \in Workers : v = w

\* No bulk requeue, which commits what it wrote before a queue conflict.
NoBulkRequeue == MaxBulk = 0

NoCrash == MaxCrashes = 0

-----------------------------------------------------------------------------
(* The worker and its rows *)

\* Where a worker is once it has a token.
Executing == {"start", "check", "mark", "exec", "spawned", "child", "signalled",
              "failing", "load", "final"}
Leaving == {"close", "finish"}

\* A task has an entry as long as it exists.
EntryExists == \A t \in Tasks : entry[t] = "absent" <=> ~Exists(t)

\* A running job has the running entry, that of a deleted task included.
JobHoldsEntry == \A t \in Tasks : job[t].status = "running" => entry[t] = "running"

\* From the claim to the release the entry runs, so nobody can delete or retry.
ClaimHoldsEntry(w) == pc[w] \notin {"idle", "claim"} => entry[MyTask(w)] = "running"

\* While it executes, nobody else issues or clears a token.
TokenIsCurrent(w) == pc[w] \in Executing => IsCurrent(w)

\* A worker that leaves its task has ended the job, or found it requeued.
JobHasEnded(w) == pc[w] \in Leaving => job[MyTask(w)].status # "running"

\* At the end of the stage list a job that still runs has done its last stage.
LastStageIsDone(w) ==
    pc[w] = "load" =>
        stages[MyTask(w)][NumStages] \in Done \/ job[MyTask(w)].status # "running"

HolderInv(w) ==
    ClaimHoldsEntry(w) /\ TokenIsCurrent(w) /\ JobHasEnded(w) /\ LastStageIsDone(w)

SlotInv == EntryExists /\ JobHoldsEntry /\ \A w \in Workers : HolderInv(w)

LEMMA TypeStep == TypeOK /\ [Next]_vars => TypeOK'
BY DatabaseStaysTyped, WorkersStayTyped, EnvironmentStaysTyped DEF TypeOK

\* A clip export changes no job, entry, run or token, and no stage but its own; a task
\* that it marks exists as before.
LEMMA ExportLeavesAlone ==
    ASSUME TypeOK, NEW t \in Tasks, ExportClip(t)
    PROVE  /\ UNCHANGED <<job, entry, control, runs, pc, ctx, children>>
           /\ \A u \in Tasks : \A s \in Stages \ {Export} : stages'[u][s] = stages[u][s]
           /\ \A u \in Tasks : Exists(u)' <=> Exists(u)
           /\ \A u \in Tasks : task'[u] \in {task[u], "failed"}
           /\ \A u \in Tasks : task'[u] = "none" <=> task[u] = "none"
BY ExportMarks DEF TypeOK, Exists

\* A worker that holds a claim works on a task that exists.
LEMMA ClaimedExists ==
    ASSUME TypeOK, SlotInv, NEW w \in Workers, pc[w] \notin {"idle", "claim"}
    PROVE  /\ MyTask(w) \in Tasks /\ Exists(MyTask(w)) /\ entry[MyTask(w)] = "running"
           /\ MyStage(w) \in Stages
BY DEF TypeOK, WorkersOK, Context, SlotInv, HolderInv, EntryExists, ClaimHoldsEntry, MyTask, MyStage

\* The ways out for a task that others took over are never taken.
LEMMA NothingIsTakenOver ==
    ASSUME TypeOK, SlotInv, NEW w \in Workers
    PROVE  ~AbandonStale(w) /\ ~TaskVanished(w) /\ ~KillStaleChild(w)
<1>1. ~TaskVanished(w)
  BY ClaimedExists DEF TaskVanished
<1>2. pc[w] \in Executing => IsCurrent(w)
  BY DEF SlotInv, HolderInv, TokenIsCurrent
<1> QED
  BY <1>1, <1>2 DEF AbandonStale, KillStaleChild, Executing

LEMMA InitSlot == Init => SlotInv
BY DEF Init, SlotInv, EntryExists, JobHoldsEntry, HolderInv, ClaimHoldsEntry, TokenIsCurrent,
       JobHasEnded, LastStageIsDone, Exists, Executing, Leaving

\* Requests leave the claims alone: their guards look at the entry.
LEMMA ApiKeepsSlot ==
    ASSUME TypeOK, SlotInv, NEW t \in Tasks, Api(t)
    PROVE  SlotInv'
<1> USE DEF TypeOK, DatabaseOK
<1>0. \A w \in Workers : pc[w] \notin {"idle", "claim"} =>
          MyTask(w) \in Tasks /\ Exists(MyTask(w)) /\ entry[MyTask(w)] = "running"
  BY ClaimedExists
<1>00. UNCHANGED <<pc, ctx>>
  BY DEF Api, CreateTask, SetQueueState, CheckStopRequest, WriteStopRequest, RetryTask, BulkRequeue,
         DeleteTask
<1>1. EntryExists'
  BY DEF Api, CreateTask, SetQueueState, CheckStopRequest, WriteStopRequest, RetryTask, BulkRequeue,
         DeleteTask, ResetFrom, database, SlotInv, EntryExists, Exists, WaitingEntry, Terminal
<1>2. JobHoldsEntry'
  <2> SUFFICES ASSUME NEW u \in Tasks, job'[u].status = "running"
               PROVE  entry'[u] = "running"
    BY DEF JobHoldsEntry
  <2> USE DEF SlotInv, JobHoldsEntry
  <2>1. CASE CreateTask(t)
    BY <2>1 DEF CreateTask, EntryExists, Exists
  <2>2. CASE DeleteTask(t)
    BY <2>2 DEF DeleteTask
  <2>3. ASSUME NEW s \in Stages, RetryTask(t, s)
        PROVE  u # t /\ entry'[u] = "running"
    BY <2>3 DEF RetryTask, ResetFrom
  <2>4. ASSUME NEW s \in Stages, BulkRequeue(t, s)
        PROVE  u # t /\ entry'[u] = "running"
    BY <2>4 DEF BulkRequeue, ResetFrom
  <2>5. ASSUME NEW s \in WaitingEntry, SetQueueState(t, s)
        PROVE  entry'[u] = "running"
    BY <2>5 DEF SetQueueState, WaitingEntry
  <2>6. CASE CheckStopRequest(t) \/ WriteStopRequest(t)
    BY <2>6 DEF CheckStopRequest, WriteStopRequest, database
  <2> QED
    BY <2>1, <2>2, <2>3, <2>4, <2>5, <2>6 DEF Api
<1>3. ASSUME NEW w \in Workers PROVE ClaimHoldsEntry(w)'
  BY <1>0, <1>00
  DEF Api, CreateTask, SetQueueState, CheckStopRequest, WriteStopRequest, RetryTask, BulkRequeue,
      DeleteTask, database, ClaimHoldsEntry, Exists, WaitingEntry, MyTask
<1>4. ASSUME NEW w \in Workers PROVE TokenIsCurrent(w)'
  <2>1. \A u \in Tasks : Exists(u) /\ entry[u] = "running" => control'[u].token = control[u].token
    <3>1. CASE WriteStopRequest(t)
      BY <3>1 DEF WriteStopRequest, Control
    <3>2. CASE DeleteTask(t)
      BY <3>2 DEF DeleteTask
    <3> QED
      BY <3>1, <3>2 DEF Api, CreateTask, SetQueueState, CheckStopRequest, RetryTask, BulkRequeue, database
  <2> QED
    BY <1>0, <1>00, <2>1 DEF SlotInv, HolderInv, TokenIsCurrent, IsCurrent, MyTask, Executing
<1>5. \A u \in Tasks : job'[u].status = "running" =>
          job[u].status = "running" /\ (u # t \/ UNCHANGED stages)
  BY DEF Api, CreateTask, SetQueueState, CheckStopRequest, WriteStopRequest, RetryTask, BulkRequeue,
         DeleteTask, ResetFrom, database
<1>6. \A u \in Tasks : u # t => stages'[u] = stages[u]
  BY DEF Api, CreateTask, SetQueueState, CheckStopRequest, WriteStopRequest, RetryTask, BulkRequeue,
         DeleteTask, ResetFrom, database
<1>7. ASSUME NEW w \in Workers PROVE JobHasEnded(w)' /\ LastStageIsDone(w)'
  BY <1>0, <1>00, <1>5, <1>6 DEF SlotInv, HolderInv, JobHasEnded, LastStageIsDone, MyTask, Leaving
<1> QED
  BY <1>1, <1>2, <1>3, <1>4, <1>7 DEF SlotInv, HolderInv

\* The last stage is not that of exports.
LEMMA ExportKeepsSlot ==
    ASSUME TypeOK, SlotInv, NEW t \in Tasks, ExportClip(t)
    PROVE  SlotInv'
<1>1. /\ UNCHANGED <<job, entry, control, pc, ctx>>
      /\ \A u \in Tasks : \A s \in Stages \ {Export} : stages'[u][s] = stages[u][s]
      /\ \A u \in Tasks : Exists(u)' <=> Exists(u)
  BY ExportLeavesAlone
<1>2. NumStages \in Stages \ {Export}
  BY StagesAssumption DEF Stages, Export
<1>3. EntryExists' /\ JobHoldsEntry'
  BY <1>1 DEF SlotInv, EntryExists, JobHoldsEntry
<1>4. ASSUME NEW w \in Workers PROVE HolderInv(w)'
  <2>1. pc[w] = "load" => MyTask(w) \in Tasks
    BY ClaimedExists
  <2> QED
    BY <1>1, <1>2, <2>1
    DEF SlotInv, HolderInv, ClaimHoldsEntry, TokenIsCurrent, JobHasEnded, LastStageIsDone, IsCurrent, MyTask
<1> QED
  BY <1>3, <1>4 DEF SlotInv

\* With a sole worker its own part is the whole.
LEMMA OneHolder ==
    ASSUME SoleWorker, NEW w \in Workers, EntryExists', JobHoldsEntry', HolderInv(w)'
    PROVE  SlotInv'
<1>1. \A v \in Workers : HolderInv(v)'
  BY DEF SoleWorker
<1> QED
  BY <1>1 DEF SlotInv

\* What an existing task that runs may become under its worker.
LEMMA RunningTaskKeepsTables ==
    ASSUME TypeOK, SlotInv, NEW t \in Tasks, Exists(t), entry[t] = "running", UNCHANGED entry,
           \A u \in Tasks \ {t} : task'[u] = task[u] /\ job'[u] = job[u],
           task'[t] \notin {"none", "deleted"}
    PROVE  EntryExists' /\ JobHoldsEntry'
<1>1. \A u \in Tasks : Exists(u) <=> Exists(u)'
  BY DEF Exists
<1> QED
  BY <1>1 DEF SlotInv, EntryExists, JobHoldsEntry

LEMMA ClaimKeepsSlot ==
    ASSUME SoleWorker, TypeOK, SlotInv, NEW w \in Workers, Claim(w)
    PROVE  SlotInv'
<1> USE DEF TypeOK, DatabaseOK, WorkersOK
<1>1. ASSUME NEW T \in SUBSET Tasks, RecoverStaleRunningJobs(w, T)
      PROVE  SlotInv'
  <2>1. \A t \in T : Exists(t) /\ entry[t] = "running"
    BY <1>1 DEF RecoverStaleRunningJobs, RunningJobs, SlotInv, JobHoldsEntry
  <2>2. \A t \in Tasks : /\ Exists(t)' <=> Exists(t)
                         /\ entry'[t] = IF t \in T THEN "finished" ELSE entry[t]
    BY <1>1, <2>1 DEF RecoverStaleRunningJobs, Exists
  <2>3. EntryExists'
    BY <2>1, <2>2 DEF SlotInv, EntryExists
  <2>4. \A t \in Tasks : IF t \in T THEN job'[t].status = "failed" ELSE job'[t] = job[t]
    BY <1>1 DEF RecoverStaleRunningJobs
  <2>5. JobHoldsEntry'
    BY <2>2, <2>4 DEF SlotInv, JobHoldsEntry
  <2>6. pc'[w] \in {"idle", "claim"}
    BY <1>1 DEF RecoverStaleRunningJobs
  <2> QED
    BY <2>3, <2>5, <2>6, OneHolder
    DEF HolderInv, ClaimHoldsEntry, TokenIsCurrent, JobHasEnded, LastStageIsDone, Executing, Leaving
<1>2. ASSUME NEW t \in Tasks, ClaimNextJob(w, t)
      PROVE  SlotInv'
  <2>1. EntryExists'
    BY <1>2 DEF ClaimNextJob, SlotInv, EntryExists, Exists
  <2>2. JobHoldsEntry'
    BY <1>2 DEF ClaimNextJob, SlotInv, JobHoldsEntry
  <2>3. pc'[w] = "activate" /\ MyTask(w)' = t /\ entry'[t] = "running"
    BY <1>2 DEF ClaimNextJob, MyTask, NoContext
  <2> QED
    BY <2>1, <2>2, <2>3, OneHolder
    DEF HolderInv, ClaimHoldsEntry, TokenIsCurrent, JobHasEnded, LastStageIsDone, Executing, Leaving
<1>3. CASE PassRecovery(w) \/ ClaimNothing(w)
  <2>1. pc'[w] \in {"idle", "claim"} /\ UNCHANGED database
    BY <1>3 DEF PassRecovery, ClaimNothing
  <2>2. EntryExists' /\ JobHoldsEntry'
    BY <2>1 DEF database, SlotInv, EntryExists, JobHoldsEntry, Exists
  <2> QED
    BY <2>1, <2>2, OneHolder
    DEF HolderInv, ClaimHoldsEntry, TokenIsCurrent, JobHasEnded, LastStageIsDone, Executing, Leaving
<1> QED
  BY <1>1, <1>2, <1>3 DEF Claim

\* The steps of a running task, without those for a task that others took over.
Inside(w) ==
    \/ \E r \in RunIds : StartPipeline(w, r) \/ CancelAtStart(w, r)
    \/ CheckBeforeStage(w) \/ CancelBeforeStage(w) \/ MarkStageRunning(w)
    \/ \E outcome \in Done : CompleteStage(w, outcome) \/ CompleteCancelled(w, outcome)
    \/ ReportFailure(w) \/ FailStage(w) \/ LoadFinalStage(w) \/ CommitSuccess(w)
    \/ ReuseChunk(w) \/ CancelBetweenChunks(w) \/ SpawnChild(w)
    \/ TrackChild(w) \/ ReapChild(w) \/ SignalChild(w) \/ CancelChild(w)

LEMMA InsideSteps ==
    ASSUME TypeOK, SlotInv, NEW w \in Workers, RunStages(w) \/ RunChunks(w)
    PROVE  ActivateExecution(w) \/ Inside(w)
BY NothingIsTakenOver DEF RunStages, RunChunks, Inside

LEMMA InsideIsExecuting ==
    ASSUME NEW w \in Workers, Inside(w)
    PROVE  pc[w] \in Executing
BY DEF Inside, StartPipeline, CancelAtStart, CheckBeforeStage, CancelBeforeStage, MarkStageRunning,
       CompleteStage, CompleteCancelled, ReportFailure, FailStage, LoadFinalStage, CommitSuccess,
       HasChunkLeft, ReuseChunk, CancelBetweenChunks, SpawnChild, TrackChild, ReapChild, SignalChild,
       CancelChild, Executing

\* They change the rows of their own task only, which goes on to exist.
LEMMA InsideIsLocal ==
    ASSUME TypeOK, SlotInv, NEW w \in Workers, Inside(w)
    PROVE  /\ UNCHANGED entry
           /\ \A u \in Tasks \ {MyTask(w)} :
                  /\ task'[u] = task[u] /\ job'[u] = job[u] /\ stages'[u] = stages[u]
                  /\ control'[u] = control[u] /\ runs'[u] = runs[u]
           /\ task'[MyTask(w)] \notin {"none", "deleted"}
           /\ MyTask(w)' = MyTask(w) /\ ctx'[w].token = ctx[w].token
<1> DEFINE Local ==
    /\ UNCHANGED entry
    /\ \A u \in Tasks \ {MyTask(w)} :
        /\ task'[u] = task[u] /\ job'[u] = job[u] /\ stages'[u] = stages[u]
        /\ control'[u] = control[u] /\ runs'[u] = runs[u]
    /\ task'[MyTask(w)] \notin {"none", "deleted"}
<1> USE DEF TypeOK, DatabaseOK, WorkersOK, Context
<1>0. MyTask(w) \in Tasks /\ Exists(MyTask(w))
  BY ClaimedExists, InsideIsExecuting DEF Executing
<1>1. ASSUME NEW r \in RunIds, StartPipeline(w, r) \/ CancelAtStart(w, r)
      PROVE  Local
  BY <1>0, <1>1 DEF StartPipeline, CancelAtStart, FinalizeCancelled
<1>2. ASSUME NEW outcome \in Done, CompleteStage(w, outcome) \/ CompleteCancelled(w, outcome)
      PROVE  Local
  BY <1>0, <1>2 DEF CompleteStage, CompleteCancelled, FinalizeCancelled
<1>3. ASSUME CancelBeforeStage(w) \/ MarkStageRunning(w) \/ ReportFailure(w) \/ FailStage(w)
           \/ CommitSuccess(w)
      PROVE  Local
  BY <1>0, <1>3
  DEF CancelBeforeStage, MarkStageRunning, ReportFailure, FailStage, CommitSuccess,
      FinalizeCancelled, MyTask, GoTo
<1>4. ASSUME CheckBeforeStage(w) \/ LoadFinalStage(w) \/ ReuseChunk(w) \/ SpawnChild(w) \/ SignalChild(w)
      PROVE  Local
  BY <1>0, <1>4
  DEF CheckBeforeStage, LoadFinalStage, ReuseChunk, SpawnChild, SignalChild, database, Exists, MyTask, GoTo
<1>5. ASSUME CancelBetweenChunks(w) \/ TrackChild(w) \/ ReapChild(w) \/ CancelChild(w)
      PROVE  Local
  BY <1>0, <1>5
  DEF CancelBetweenChunks, TrackChild, ReapChild, CancelChild, FinalizeCancelled, Exists, MyTask, GoTo
<1>6. MyTask(w)' = MyTask(w) /\ ctx'[w].token = ctx[w].token
  <2>1. ASSUME NEW r \in RunIds, StartPipeline(w, r) \/ CancelAtStart(w, r)
        PROVE  MyTask(w)' = MyTask(w) /\ ctx'[w].token = ctx[w].token
    BY <2>1 DEF StartPipeline, CancelAtStart, GoTo, MyTask
  <2>2. ASSUME NEW outcome \in Done, CompleteStage(w, outcome) \/ CompleteCancelled(w, outcome)
        PROVE  MyTask(w)' = MyTask(w) /\ ctx'[w].token = ctx[w].token
    BY <2>2 DEF CompleteStage, CompleteCancelled, GoTo, MyTask
  <2>3. CASE MarkStageRunning(w) \/ FailStage(w) \/ ReuseChunk(w) \/ SpawnChild(w)
    BY <2>3 DEF MarkStageRunning, FailStage, ReuseChunk, SpawnChild, MyTask
  <2> QED
    BY <2>1, <2>2, <2>3
    DEF Inside, CheckBeforeStage, CancelBeforeStage, ReportFailure, LoadFinalStage, CommitSuccess,
        CancelBetweenChunks, TrackChild, ReapChild, SignalChild, CancelChild, GoTo, MyTask
<1>7. Local
  <2> HIDE DEF Local
  <2> QED
    BY <1>1, <1>2, <1>3, <1>4, <1>5 DEF Inside
<1> QED
  BY <1>6, <1>7

\* Finalised, the job is cancelled and the token gone.
LEMMA FinalizedIsCancelled ==
    ASSUME TypeOK, NEW t \in Tasks, NEW st, FinalizeCancelled(t, st)
    PROVE  task'[t] = "cancelled" /\ job'[t].status = "cancelled" /\ job'[t].stage = job[t].stage
BY DEF TypeOK, DatabaseOK, FinalizeCancelled

\* Where such a step leaves its worker: with its token, or with an ended job.
LEMMA InsideLeads ==
    ASSUME TypeOK, SlotInv, NEW w \in Workers, Inside(w)
    PROVE  /\ pc'[w] \in Executing \cup {"close"}
           /\ pc'[w] \in Executing => control'[MyTask(w)].token = control[MyTask(w)].token
           /\ pc'[w] = "close" => job'[MyTask(w)].status # "running"
           /\ pc'[w] = "load" => stages'[MyTask(w)][NumStages] \in Done
<1> DEFINE Leads ==
    /\ pc'[w] \in Executing \cup {"close"}
    /\ pc'[w] \in Executing => control'[MyTask(w)].token = control[MyTask(w)].token
    /\ pc'[w] = "close" => job'[MyTask(w)].status # "running"
    /\ pc'[w] = "load" => stages'[MyTask(w)][NumStages] \in Done
<1> USE StagesAssumption DEF TypeOK, DatabaseOK, WorkersOK, Executing
<1>0. /\ MyTask(w) \in Tasks /\ MyStage(w) \in Stages /\ IsCurrent(w)
      /\ pc[w] = "load" => stages[MyTask(w)][NumStages] \in Done \/ job[MyTask(w)].status # "running"
  BY ClaimedExists, InsideIsExecuting DEF SlotInv, HolderInv, TokenIsCurrent, LastStageIsDone
<1>1. ASSUME NEW r \in RunIds, StartPipeline(w, r)
      PROVE  Leads
  BY <1>0, <1>1 DEF StartPipeline
<1>2. ASSUME (\E r \in RunIds : CancelAtStart(w, r)) \/ CancelBeforeStage(w) \/ CancelBetweenChunks(w)
             \/ (\E outcome \in Done : CompleteCancelled(w, outcome)) \/ CancelChild(w)
      PROVE  Leads
  <2>1. PICK st : FinalizeCancelled(MyTask(w), st)
    BY <1>0, <1>2 DEF CancelAtStart, CancelBeforeStage, CancelBetweenChunks, CompleteCancelled, CancelChild
  <2>2. pc'[w] = "close"
    BY <1>2 DEF CancelAtStart, CancelBeforeStage, CancelBetweenChunks, CompleteCancelled, CancelChild, GoTo
  <2> QED
    BY <1>0, <2>1, <2>2, FinalizedIsCancelled
<1>3. ASSUME NEW outcome \in Done, CompleteStage(w, outcome)
      PROVE  Leads
  BY <1>0, <1>3 DEF CompleteStage, WithOutcome, Stages
<1>4. ASSUME CheckBeforeStage(w) \/ MarkStageRunning(w) \/ ReportFailure(w)
      PROVE  Leads
  BY <1>0, <1>4 DEF CheckBeforeStage, MarkStageRunning, ReportFailure, GoTo, database
<1>5. ASSUME FailStage(w) \/ LoadFinalStage(w) \/ CommitSuccess(w)
      PROVE  Leads
  BY <1>0, <1>5 DEF FailStage, LoadFinalStage, CommitSuccess, GoTo, database
<1>6. ASSUME ReuseChunk(w) \/ SpawnChild(w) \/ SignalChild(w)
      PROVE  Leads
  BY <1>0, <1>6 DEF ReuseChunk, HasChunkLeft, SpawnChild, SignalChild, GoTo, database
<1>7. ASSUME TrackChild(w) \/ ReapChild(w)
      PROVE  Leads
  BY <1>0, <1>7 DEF TrackChild, ReapChild, GoTo, Control
<1>8. Leads
  <2> HIDE DEF Leads
  <2> QED
    BY <1>1, <1>2, <1>3, <1>4, <1>5, <1>6, <1>7 DEF Inside
<1> QED
  BY <1>8

LEMMA RunKeepsSlot ==
    ASSUME SoleWorker, TypeOK, SlotInv, NEW w \in Workers, RunStages(w) \/ RunChunks(w)
    PROVE  SlotInv'
<1>1. CASE Inside(w)
  <2>1. MyTask(w) \in Tasks /\ Exists(MyTask(w)) /\ entry[MyTask(w)] = "running" /\ IsCurrent(w)
    BY <1>1, ClaimedExists, InsideIsExecuting
    DEF Executing, SlotInv, HolderInv, TokenIsCurrent
  <2>2. EntryExists' /\ JobHoldsEntry'
    BY <1>1, <2>1, InsideIsLocal, RunningTaskKeepsTables
  <2>3. HolderInv(w)'
    BY <1>1, <2>1, InsideIsLocal, InsideLeads
    DEF HolderInv, ClaimHoldsEntry, TokenIsCurrent, JobHasEnded, LastStageIsDone, Executing, Leaving,
        IsCurrent
  <2> QED
    BY <2>2, <2>3, OneHolder
<1>2. CASE ActivateExecution(w)
  <2>1. MyTask(w) \in Tasks /\ entry[MyTask(w)] = "running"
    BY <1>2, ClaimedExists DEF ActivateExecution
  <2>2. /\ UNCHANGED <<task, job, entry>> /\ pc'[w] = "start" /\ MyTask(w)' = MyTask(w)
        /\ control'[MyTask(w)].token = ctx'[w].token
    BY <1>2, <2>1 DEF ActivateExecution, TypeOK, DatabaseOK, WorkersOK, Context, MyTask
  <2>3. EntryExists' /\ JobHoldsEntry'
    BY <2>2 DEF SlotInv, EntryExists, JobHoldsEntry, Exists
  <2>4. HolderInv(w)'
    BY <2>1, <2>2
    DEF HolderInv, ClaimHoldsEntry, TokenIsCurrent, JobHasEnded, LastStageIsDone, Leaving, IsCurrent
  <2> QED
    BY <2>3, <2>4, OneHolder
<1> QED
  BY <1>1, <1>2, InsideSteps

LEMMA LeaveKeepsSlot ==
    ASSUME SoleWorker, TypeOK, SlotInv, NEW w \in Workers, Leave(w) \/ Crash(w)
    PROVE  SlotInv'
<1> USE DEF TypeOK, DatabaseOK, WorkersOK
<1>1. CASE ClosePipeline(w)
  <2>1. MyTask(w) \in Tasks /\ entry[MyTask(w)] = "running" /\ job[MyTask(w)].status # "running"
    BY <1>1, ClaimedExists DEF ClosePipeline, SlotInv, HolderInv, JobHasEnded, Leaving
  <2>2. UNCHANGED <<task, job, entry>> /\ (pc'[w] = "idle" \/ (pc'[w] = "finish" /\ MyTask(w)' = MyTask(w)))
    BY <1>1 DEF ClosePipeline, GoTo, MyTask
  <2>3. EntryExists' /\ JobHoldsEntry'
    BY <2>2 DEF SlotInv, EntryExists, JobHoldsEntry, Exists
  <2>4. HolderInv(w)'
    BY <2>1, <2>2
    DEF HolderInv, ClaimHoldsEntry, TokenIsCurrent, JobHasEnded, LastStageIsDone, Executing, Leaving
  <2> QED
    BY <2>3, <2>4, OneHolder
<1>2. CASE FinishEntry(w)
  <2>1. MyTask(w) \in Tasks /\ Exists(MyTask(w)) /\ job[MyTask(w)].status # "running"
        /\ entry[MyTask(w)] = "running"
    BY <1>2, ClaimedExists DEF FinishEntry, SlotInv, HolderInv, JobHasEnded, Leaving
  <2>2. UNCHANGED <<task, job>> /\ pc'[w] = "idle" /\ entry' = [entry EXCEPT ![MyTask(w)] = "finished"]
    BY <1>2, <2>1 DEF FinishEntry
  <2>3. EntryExists' /\ JobHoldsEntry'
    BY <2>1, <2>2 DEF SlotInv, EntryExists, JobHoldsEntry, Exists
  <2>4. HolderInv(w)'
    BY <2>2
    DEF HolderInv, ClaimHoldsEntry, TokenIsCurrent, JobHasEnded, LastStageIsDone, Executing, Leaving
  <2> QED
    BY <2>3, <2>4, OneHolder
<1>3. CASE Crash(w)
  <2>1. UNCHANGED database /\ pc'[w] = "idle"
    BY <1>3 DEF Crash
  <2>2. EntryExists' /\ JobHoldsEntry'
    BY <2>1 DEF SlotInv, EntryExists, JobHoldsEntry, Exists, database
  <2>3. HolderInv(w)'
    BY <2>1
    DEF HolderInv, ClaimHoldsEntry, TokenIsCurrent, JobHasEnded, LastStageIsDone, Executing, Leaving
  <2> QED
    BY <2>2, <2>3, OneHolder
<1> QED
  BY <1>1, <1>2, <1>3 DEF Leave

LEMMA SlotStep ==
    ASSUME SoleWorker, TypeOK, SlotInv, [Next]_vars
    PROVE  SlotInv'
<1>1. CASE UNCHANGED <<database, pc, ctx>>
  BY <1>1
  DEF database, SlotInv, EntryExists, JobHoldsEntry, Exists, HolderInv, ClaimHoldsEntry, TokenIsCurrent,
      JobHasEnded, LastStageIsDone, IsCurrent, MyTask
<1>2. CASE UNCHANGED vars \/ \E c \in children : ChildExits(c)
  BY <1>1, <1>2 DEF vars, database, ChildExits
<1> QED
  BY <1>2, ApiKeepsSlot, ExportKeepsSlot, ClaimKeepsSlot, RunKeepsSlot, LeaveKeepsSlot DEF Next, WorkerStep

LEMMA SlotInvariant ==
    ASSUME SoleWorker
    PROVE  Spec => [](TypeOK /\ SlotInv)
<1>1. TypeOK /\ SlotInv /\ [Next]_vars => (TypeOK /\ SlotInv)'
  BY TypeStep, SlotStep
<1> QED
  BY <1>1, InitSlot, TypeCorrect, PTL DEF Spec

\* With a sole worker a running job has the running entry, so the recovery that looks at
\* jobs frees the slot of whatever it fails, through crashes, cancels and bulk requeues.
THEOREM RunningJobsHoldTheSlot == SoleWorker => (Spec => []RunningJobHoldsSlot)
<1> SUFFICES ASSUME SoleWorker PROVE Spec => []RunningJobHoldsSlot
  OBVIOUS
<1>1. SlotInv => RunningJobHoldsSlot
  BY DEF SlotInv, JobHoldsEntry, RunningJobHoldsSlot
<1> QED
  BY <1>1, SlotInvariant, PTL

-----------------------------------------------------------------------------
(* Stop requests *)

\* An execution that began a stage after its stop flag was set will not begin another.
OverrunIsLast(w) ==
    /\ ctx[w].overrun <= 1
    /\ pc[w] \in {"idle", "claim", "activate", "start", "check", "mark"} => ctx[w].overrun = 0
    /\ pc[w] \in {"exec", "spawned", "child", "signalled"} /\ ctx[w].overrun = 1
           => control[MyTask(w)].stop

StopInv == \A w \in Workers : OverrunIsLast(w)

LEMMA OneStopped ==
    ASSUME SoleWorker, NEW w \in Workers, OverrunIsLast(w)'
    PROVE  StopInv'
BY DEF SoleWorker, StopInv

LEMMA InitStop == Init => StopInv
BY DEF Init, StopInv, OverrunIsLast, NoContext

\* No request takes a stop flag back while the task runs.
LEMMA ApiKeepsStop ==
    ASSUME TypeOK, SlotInv, StopInv, NEW t \in Tasks, Api(t)
    PROVE  StopInv'
<1> USE DEF TypeOK, DatabaseOK
<1>1. UNCHANGED <<pc, ctx>>
  BY DEF Api, CreateTask, SetQueueState, CheckStopRequest, WriteStopRequest, RetryTask, BulkRequeue,
         DeleteTask
<1>2. \A u \in Tasks : entry[u] = "running" /\ control[u].stop => control'[u].stop
  <2>1. CASE WriteStopRequest(t)
    BY <2>1 DEF WriteStopRequest, Control
  <2>2. CASE DeleteTask(t)
    BY <2>2 DEF DeleteTask
  <2> QED
    BY <2>1, <2>2 DEF Api, CreateTask, SetQueueState, CheckStopRequest, RetryTask, BulkRequeue, database
<1> QED
  BY <1>1, <1>2, ClaimedExists DEF StopInv, OverrunIsLast, MyTask

\* Only marking a stage counts, and only an unstopped execution comes to a check.
LEMMA InsideKeepsStop ==
    ASSUME SoleWorker, TypeOK, SlotInv, StopInv, NEW w \in Workers, Inside(w)
    PROVE  StopInv'
<1>0. /\ MyTask(w) \in Tasks /\ IsCurrent(w) /\ OverrunIsLast(w) /\ ctx[w].overrun \in {0, 1}
      /\ MyTask(w)' = MyTask(w)
  <2>1. ctx[w].overrun \in Nat /\ OverrunIsLast(w)
    BY DEF TypeOK, WorkersOK, Context, StopInv
  <2>2. ctx[w].overrun \in {0, 1}
    BY <2>1 DEF OverrunIsLast
  <2>3. IsCurrent(w) /\ MyTask(w) \in Tasks
    BY ClaimedExists, InsideIsExecuting DEF SlotInv, HolderInv, TokenIsCurrent, Executing
  <2> QED
    BY <2>1, <2>2, <2>3, InsideIsLocal
<1>00. pc \in [Workers -> PcStates] /\ ctx \in [Workers -> Context] /\ control \in [Tasks -> Control]
  BY DEF TypeOK, WorkersOK, DatabaseOK
<1>1. CASE MarkStageRunning(w)
  BY <1>0, <1>00, <1>1, OneStopped DEF MarkStageRunning, Context, OverrunIsLast
<1>2. ASSUME NEW outcome \in Done, CompleteStage(w, outcome)
      PROVE  StopInv'
  <2>1. /\ pc[w] = "exec" /\ ~control[MyTask(w)].stop
        /\ pc'[w] \in {"load", "check"} /\ ctx'[w].overrun = ctx[w].overrun
    BY <1>00, <1>2 DEF CompleteStage, Context, StopRequested
  <2>2. ctx[w].overrun # 1
    BY <1>0, <2>1 DEF OverrunIsLast
  <2>3. ctx[w].overrun = 0
    BY <1>0, <2>2
  <2> QED
    BY <2>1, <2>3, OneStopped DEF OverrunIsLast
<1>3. CASE TrackChild(w) \/ ReapChild(w)
  <2>1. /\ pc[w] \in {"spawned", "child"} /\ ctx' = ctx
        /\ control'[MyTask(w)].stop = control[MyTask(w)].stop
        /\ pc'[w] \in {"child", "exec"}
    BY <1>0, <1>00, <1>3 DEF TrackChild, ReapChild, GoTo, Control
  <2> QED
    BY <1>0, <2>1, OneStopped DEF OverrunIsLast
<1>4. CASE ReuseChunk(w) \/ SpawnChild(w) \/ SignalChild(w)
  <2>1. /\ pc[w] \in {"exec", "child"} /\ ctx'[w].overrun = ctx[w].overrun
        /\ UNCHANGED control /\ pc'[w] \in {"exec", "spawned", "signalled"}
    BY <1>0, <1>00, <1>4 DEF Context, ReuseChunk, HasChunkLeft, SpawnChild, SignalChild, GoTo, database
  <2> QED
    BY <1>0, <2>1, OneStopped DEF OverrunIsLast
<1>5. ASSUME NEW r \in RunIds, StartPipeline(w, r)
      PROVE  StopInv'
  <2>1. pc[w] = "start" /\ ctx'[w].overrun = ctx[w].overrun /\ pc'[w] = "exec"
    BY <1>00, <1>5 DEF StartPipeline, Context
  <2> QED
    BY <1>0, <2>1, OneStopped DEF OverrunIsLast
<1>6. CASE CheckBeforeStage(w)
  <2>1. pc[w] = "check" /\ ctx' = ctx /\ pc'[w] = "mark"
    BY <1>00, <1>6 DEF CheckBeforeStage, GoTo
  <2> QED
    BY <1>0, <2>1, OneStopped DEF OverrunIsLast
<1>7. ASSUME ctx'[w].overrun = ctx[w].overrun, pc'[w] \in {"failing", "final", "close"}
      PROVE  StopInv'
  BY <1>0, <1>00, <1>7, OneStopped DEF OverrunIsLast
<1>8. ASSUME (\E r \in RunIds : CancelAtStart(w, r)) \/ CancelBeforeStage(w) \/ CancelBetweenChunks(w)
             \/ (\E outcome \in Done : CompleteCancelled(w, outcome)) \/ CancelChild(w)
             \/ ReportFailure(w) \/ FailStage(w) \/ LoadFinalStage(w) \/ CommitSuccess(w)
      PROVE  StopInv'
  BY <1>00, <1>7, <1>8
  DEF Context, CancelAtStart, CancelBeforeStage, CancelBetweenChunks, CompleteCancelled, CancelChild,
      ReportFailure, FailStage, LoadFinalStage, CommitSuccess, GoTo
<1> QED
  BY <1>1, <1>2, <1>3, <1>4, <1>5, <1>6, <1>8 DEF Inside

LEMMA StopStep ==
    ASSUME SoleWorker, TypeOK, SlotInv, StopInv, [Next]_vars
    PROVE  StopInv'
<1> USE DEF TypeOK, WorkersOK, Context
<1>1. ASSUME NEW w \in Workers, ActivateExecution(w)
      PROVE  StopInv'
  <2>1. pc[w] = "activate" /\ pc'[w] = "start" /\ ctx'[w].overrun = ctx[w].overrun
    BY <1>1 DEF ActivateExecution
  <2> QED
    BY <2>1, OneStopped DEF StopInv, OverrunIsLast
<1>2. ASSUME NEW w \in Workers, Claim(w)
      PROVE  StopInv'
  <2>1. /\ pc[w] \in {"idle", "claim"} /\ pc'[w] \in {"idle", "claim", "activate"}
        /\ ctx'[w].overrun = ctx[w].overrun \/ ctx'[w].overrun = 0
    <3>1. ASSUME NEW t \in Tasks, ClaimNextJob(w, t)
          PROVE  pc[w] = "claim" /\ pc'[w] = "activate" /\ ctx'[w].overrun = 0
      BY <3>1 DEF ClaimNextJob, NoContext
    <3> QED
      BY <1>2, <3>1 DEF Claim, RecoverStaleRunningJobs, PassRecovery, ClaimNothing
  <2> QED
    BY <2>1, OneStopped DEF StopInv, OverrunIsLast
<1>3. ASSUME NEW w \in Workers, Leave(w) \/ Crash(w)
      PROVE  StopInv'
  <2>1. \/ pc'[w] = "finish" /\ ctx'[w].overrun = ctx[w].overrun
        \/ pc'[w] = "idle" /\ ctx'[w].overrun = 0
    BY <1>3 DEF Leave, ClosePipeline, FinishEntry, Crash, NoContext, GoTo
  <2> QED
    BY <2>1, OneStopped DEF StopInv, OverrunIsLast
<1>4. CASE UNCHANGED vars \/ \E c \in children : ChildExits(c)
  BY <1>4 DEF vars, ChildExits, database, StopInv, OverrunIsLast, MyTask
<1>5. ASSUME NEW t \in Tasks, ExportClip(t)
      PROVE  StopInv'
  <2>1. UNCHANGED <<control, pc, ctx>>
    BY <1>5, ExportLeavesAlone
  <2> QED
    BY <2>1 DEF StopInv, OverrunIsLast, MyTask
<1> QED
  BY <1>1, <1>2, <1>3, <1>4, <1>5, ApiKeepsStop, InsideKeepsStop, InsideSteps DEF Next, WorkerStep

\* A stop request costs at most one stage more, the one whose check had already passed.
THEOREM StopCostsOneStage == SoleWorker => (Spec => []AtMostOneStageAfterStop)
<1> SUFFICES ASSUME SoleWorker PROVE Spec => []AtMostOneStageAfterStop
  OBVIOUS
<1>1. TypeOK /\ SlotInv /\ StopInv /\ [Next]_vars => StopInv'
  BY StopStep
<1>2. StopInv => AtMostOneStageAfterStop
  BY DEF StopInv, OverrunIsLast, AtMostOneStageAfterStop
<1> QED
  BY <1>1, <1>2, InitStop, SlotInvariant, PTL DEF Spec

-----------------------------------------------------------------------------
(* Children, as long as the worker does not crash *)

\* The worker waits for the only child there is.
ChildIsAwaited ==
    children = {} \/ \E w \in Workers : /\ pc[w] \in {"spawned", "child", "signalled"}
                                        /\ children = {MyChild(w)}
ChildInv == NoCrash => ChildIsAwaited

LEMMA NeverCrashes ==
    ASSUME TypeOK, NoCrash, NEW w \in Workers
    PROVE  ~Crash(w)
BY DEF TypeOK, EnvironmentOK, NoCrash, Crash

\* The worker comes back from a child only when the child is gone.
LEMMA InsideKeepsChild ==
    ASSUME SoleWorker, TypeOK, SlotInv, ChildIsAwaited, NEW w \in Workers, Inside(w)
    PROVE  ChildIsAwaited'
<1>0. /\ IsCurrent(w) /\ pc \in [Workers -> PcStates] /\ ctx \in [Workers -> Context]
      /\ MyChild(w)' = MyChild(w)
      /\ \A v \in Workers : v = w
  BY InsideIsExecuting, InsideIsLocal
  DEF SlotInv, HolderInv, TokenIsCurrent, TypeOK, WorkersOK, MyChild, SoleWorker
<1>1. CASE SpawnChild(w)
  <2>1. children = {} /\ children' = {MyChild(w)} /\ pc'[w] = "spawned"
    BY <1>0, <1>1 DEF SpawnChild, HasChunkLeft, ChildIsAwaited
  <2> QED
    BY <1>0, <2>1 DEF ChildIsAwaited
<1>2. CASE TrackChild(w) \/ SignalChild(w)
  <2>1. UNCHANGED children /\ pc'[w] \in {"child", "signalled"}
    BY <1>0, <1>2 DEF TrackChild, SignalChild, GoTo, environment
  <2> QED
    BY <1>0, <2>1 DEF ChildIsAwaited
<1>3. CASE ReapChild(w) \/ CancelChild(w)
  <2>1. UNCHANGED children /\ MyChild(w) \notin children
    BY <1>3 DEF ReapChild, CancelChild, environment
  <2> QED
    BY <1>0, <2>1 DEF ChildIsAwaited
<1>4. ASSUME UNCHANGED children, pc[w] \notin {"spawned", "child", "signalled"}
      PROVE  ChildIsAwaited'
  BY <1>0, <1>4 DEF ChildIsAwaited
<1>5. ASSUME (\E r \in RunIds : StartPipeline(w, r) \/ CancelAtStart(w, r))
             \/ CheckBeforeStage(w) \/ CancelBeforeStage(w) \/ MarkStageRunning(w)
             \/ (\E outcome \in Done : CompleteStage(w, outcome) \/ CompleteCancelled(w, outcome))
             \/ ReportFailure(w) \/ FailStage(w) \/ LoadFinalStage(w) \/ CommitSuccess(w)
             \/ ReuseChunk(w) \/ CancelBetweenChunks(w)
      PROVE  ChildIsAwaited'
  BY <1>4, <1>5
  DEF StartPipeline, CancelAtStart, CheckBeforeStage, CancelBeforeStage, MarkStageRunning, CompleteStage,
      CompleteCancelled, ReportFailure, FailStage, LoadFinalStage, CommitSuccess, HasChunkLeft, ReuseChunk,
      CancelBetweenChunks, environment
<1> QED
  BY <1>1, <1>2, <1>3, <1>5 DEF Inside

LEMMA ChildStep ==
    ASSUME SoleWorker, TypeOK, SlotInv, ChildInv, [Next]_vars
    PROVE  ChildInv'
<1> SUFFICES ASSUME NoCrash PROVE ChildIsAwaited'
  BY DEF ChildInv, NoCrash
<1>0. ChildIsAwaited
  BY DEF ChildInv
<1>1. ASSUME NEW w \in Workers, Claim(w) \/ ActivateExecution(w) \/ Leave(w)
      PROVE  ChildIsAwaited'
  <2>1. pc[w] \notin {"spawned", "child", "signalled"} /\ children' \subseteq children
    BY <1>1
    DEF Claim, RecoverStaleRunningJobs, PassRecovery, ClaimNextJob, ClaimNothing, ActivateExecution,
        Leave, ClosePipeline, FinishEntry, environment
  <2>2. children = {}
    BY <1>0, <2>1 DEF ChildIsAwaited, SoleWorker
  <2> QED
    BY <2>1, <2>2 DEF ChildIsAwaited
<1>2. ASSUME NEW c \in children, ChildExits(c)
      PROVE  ChildIsAwaited'
  BY <1>0, <1>2 DEF ChildIsAwaited, ChildExits
<1>3. ASSUME UNCHANGED <<pc, ctx, children>>
      PROVE  ChildIsAwaited'
  BY <1>0, <1>3 DEF ChildIsAwaited, MyChild, MyTask
<1>4. ASSUME NEW t \in Tasks, Api(t)
      PROVE  ChildIsAwaited'
  BY <1>3, <1>4
  DEF Api, CreateTask, SetQueueState, CheckStopRequest, WriteStopRequest, RetryTask, BulkRequeue,
      DeleteTask, environment
<1>5. CASE UNCHANGED vars
  BY <1>3, <1>5 DEF vars
<1>6. ASSUME NEW t \in Tasks, ExportClip(t)
      PROVE  ChildIsAwaited'
  BY <1>3, <1>6, ExportLeavesAlone
<1> QED
  BY <1>0, <1>1, <1>2, <1>4, <1>5, <1>6, NeverCrashes, InsideKeepsChild, InsideSteps DEF Next, WorkerStep

\* A worker that does not crash has one ASR child at a time: it never starts a chunk
\* beside a child it has cancelled or given up.
THEOREM ChildrenAreSequential == SoleWorker /\ NoCrash => (Spec => []OneAsrChild)
<1> SUFFICES ASSUME SoleWorker, NoCrash PROVE Spec => []OneAsrChild
  OBVIOUS
<1>1. Init => ChildInv
  BY DEF Init, ChildInv, ChildIsAwaited
<1>2. TypeOK /\ SlotInv /\ ChildInv /\ [Next]_vars => ChildInv'
  BY ChildStep
<1>3. ChildInv => OneAsrChild
  <2>1. ChildInv => children = {} \/ \E c : children = {c}
    BY DEF ChildInv, ChildIsAwaited
  <2>2. Cardinality({}) = 0 /\ \A c : Cardinality({c}) = 1
    BY FS_EmptySet, FS_Singleton
  <2>3. children = {} => Cardinality(children) <= 1
    BY <2>2
  <2>4. ASSUME NEW c, children = {c}
        PROVE  Cardinality(children) <= 1
    <3>1. Cardinality(children) = 1
      BY <2>2, <2>4, Zenon
    <3> QED
      BY <3>1
  <2> QED
    BY <2>1, <2>3, <2>4 DEF OneAsrChild
<1> QED
  BY <1>1, <1>2, <1>3, SlotInvariant, PTL DEF Spec

-----------------------------------------------------------------------------
(* Checkpoints and outcomes, as long as no bulk requeue overwrites them *)

\* Where a worker is while the job is its own.
AtWork == Executing \cup {"activate"}

\* No stage after the checkpoint was touched, but that of exports.
LaterArePending ==
    \A t \in Tasks : \A s \in Stages \ {Export} : s > job[t].stage => stages[t][s] = "pending"

\* The checkpoint is the stage the worker is at.
JobIsAtStage(w) ==
    pc[w] \in AtWork => job[MyTask(w)] = [status |-> "running", stage |-> MyStage(w)]

\* What the worker leaves has one outcome, that of the job, or an export spoilt the other.
OutcomeIsOne(w) ==
    pc[w] \in Leaving =>
        /\ job[MyTask(w)].status \in Terminal
        /\ task[MyTask(w)] \in {job[MyTask(w)].status, "failed"}

StageInv ==
    NoBulkRequeue =>
        /\ LaterArePending /\ TerminalAgreement
        /\ \A w \in Workers : JobIsAtStage(w) /\ OutcomeIsOne(w)

LEMMA NoBulk ==
    ASSUME TypeOK, NoBulkRequeue, NEW t \in Tasks, NEW s \in Stages
    PROVE  ~BulkRequeue(t, s)
BY DEF TypeOK, EnvironmentOK, NoBulkRequeue, BulkRequeue

LEMMA OneAtStage ==
    ASSUME SoleWorker, NEW w \in Workers, LaterArePending', TerminalAgreement', JobIsAtStage(w)',
           OutcomeIsOne(w)'
    PROVE  StageInv'
BY DEF SoleWorker, StageInv

LEMMA InitStage == Init => StageInv
BY DEF Init, StageInv, LaterArePending, TerminalAgreement, JobIsAtStage, OutcomeIsOne, AtWork, Executing,
       Leaving

LEMMA ApiKeepsStage ==
    ASSUME TypeOK, SlotInv, StageInv, NoBulkRequeue, NEW t \in Tasks, Api(t)
    PROVE  StageInv'
<1> USE DEF TypeOK, DatabaseOK
<1>0. /\ UNCHANGED <<pc, ctx>>
      /\ \A u \in Tasks : u # t => task'[u] = task[u] /\ job'[u] = job[u] /\ stages'[u] = stages[u]
                                    /\ entry'[u] = entry[u]
      /\ entry[t] = "running" => UNCHANGED <<task, job, stages>>
  BY NoBulk
  DEF Api, CreateTask, SetQueueState, CheckStopRequest, WriteStopRequest, RetryTask,
      DeleteTask, ResetFrom, database, SlotInv, EntryExists, Exists
<1>1. \/ UNCHANGED <<job, stages>>
      \/ \E s \in Stages : /\ job'[t].stage = s
                           /\ \A q \in Stages : q > s => stages'[t][q] = "pending"
  <2>1. ASSUME NEW s \in Stages, RetryTask(t, s)
        PROVE  job'[t].stage = s /\ \A q \in Stages : q > s => stages'[t][q] = "pending"
    BY <2>1, StagesAssumption DEF RetryTask, ResetFrom, Stages
  <2>2. DeleteTask(t) => job'[t].stage = 1 /\ \A q \in Stages : q > 1 => stages'[t][q] = "pending"
    BY DEF DeleteTask
  <2>3. 1 \in Stages
    BY StagesAssumption DEF Stages
  <2> QED
    BY <2>1, <2>2, <2>3, NoBulk
    DEF Api, CreateTask, SetQueueState, CheckStopRequest, WriteStopRequest, database
<1>2. LaterArePending'
  BY <1>0, <1>1 DEF StageInv, LaterArePending
<1>3. entry'[t] = "finished" => entry[t] = "finished" /\ UNCHANGED <<task, job>>
  BY NoBulk
  DEF Api, CreateTask, SetQueueState, CheckStopRequest, WriteStopRequest, RetryTask, DeleteTask, database,
      WaitingEntry
<1>4. TerminalAgreement'
  BY <1>0, <1>3 DEF StageInv, TerminalAgreement
<1>5. ASSUME NEW w \in Workers
      PROVE  JobIsAtStage(w)' /\ OutcomeIsOne(w)'
  <2>1. pc[w] \in AtWork \cup Leaving => MyTask(w) \in Tasks /\ entry[MyTask(w)] = "running"
    BY ClaimedExists DEF AtWork, Executing, Leaving
  <2>2. pc[w] \in AtWork \cup Leaving =>
            task'[MyTask(w)] = task[MyTask(w)] /\ job'[MyTask(w)] = job[MyTask(w)]
    BY <1>0, <2>1
  <2> QED
    BY <1>0, <2>2 DEF StageInv, JobIsAtStage, OutcomeIsOne, MyTask, MyStage
<1> QED
  BY <1>2, <1>4, <1>5 DEF StageInv

LEMMA ExportKeepsStage ==
    ASSUME TypeOK, SlotInv, StageInv, NoBulkRequeue, NEW t \in Tasks, ExportClip(t)
    PROVE  StageInv'
<1>1. /\ UNCHANGED <<job, entry, pc, ctx>>
      /\ \A u \in Tasks : \A s \in Stages \ {Export} : stages'[u][s] = stages[u][s]
      /\ \A u \in Tasks : task'[u] \in {task[u], "failed"}
  BY ExportLeavesAlone
<1>2. LaterArePending' /\ TerminalAgreement'
  BY <1>1 DEF StageInv, LaterArePending, TerminalAgreement
<1>3. ASSUME NEW w \in Workers
      PROVE  JobIsAtStage(w)' /\ OutcomeIsOne(w)'
  <2>1. pc[w] \in Leaving => MyTask(w) \in Tasks
    BY ClaimedExists DEF Leaving
  <2> QED
    BY <1>1, <2>1 DEF StageInv, JobIsAtStage, OutcomeIsOne, MyTask, MyStage
<1> QED
  BY <1>2, <1>3 DEF StageInv

LEMMA ClaimKeepsStage ==
    ASSUME SoleWorker, TypeOK, SlotInv, StageInv, NoBulkRequeue, NEW w \in Workers, Claim(w)
    PROVE  StageInv'
<1> USE DEF TypeOK, DatabaseOK, WorkersOK
<1>1. ASSUME NEW T \in SUBSET Tasks, RecoverStaleRunningJobs(w, T)
      PROVE  StageInv'
  <2>1. \A t \in Tasks : /\ job'[t].stage = job[t].stage
                         /\ \A s \in Stages : s # job[t].stage => stages'[t][s] = stages[t][s]
    BY <1>1 DEF RecoverStaleRunningJobs
  <2>2. LaterArePending'
    <3> SUFFICES ASSUME NEW u \in Tasks, NEW s \in Stages \ {Export}, s > job'[u].stage
                 PROVE  stages'[u][s] = "pending"
      BY DEF LaterArePending
    <3>1. s > job[u].stage /\ s # job[u].stage
      BY <2>1, StagesAssumption DEF Stages
    <3>2. stages[u][s] = "pending"
      BY <3>1 DEF StageInv, LaterArePending
    <3> QED
      BY <2>1, <3>1, <3>2
  <2>3. \A t \in Tasks : IF t \in T THEN task'[t] = "failed" /\ job'[t].status = "failed"
                         ELSE task'[t] = task[t] /\ job'[t] = job[t] /\ entry'[t] = entry[t]
    BY <1>1 DEF RecoverStaleRunningJobs
  <2>4. TerminalAgreement'
    BY <2>3 DEF StageInv, TerminalAgreement, Terminal
  <2>5. pc'[w] \in {"idle", "claim"}
    BY <1>1 DEF RecoverStaleRunningJobs
  <2> QED
    BY <2>2, <2>4, <2>5, OneAtStage DEF JobIsAtStage, OutcomeIsOne, AtWork, Executing, Leaving
<1>2. ASSUME NEW t \in Tasks, ClaimNextJob(w, t)
      PROVE  StageInv'
  <2>1. /\ \A u \in Tasks : job'[u].stage = job[u].stage
        /\ \A u \in Tasks : \A s \in Stages : s # job[u].stage => stages'[u][s] = stages[u][s]
    BY <1>2 DEF ClaimNextJob
  <2>2. LaterArePending'
    <3> SUFFICES ASSUME NEW u \in Tasks, NEW s \in Stages \ {Export}, s > job'[u].stage
                 PROVE  stages'[u][s] = "pending"
      BY DEF LaterArePending
    <3>1. s > job[u].stage /\ s # job[u].stage
      BY <2>1, StagesAssumption DEF Stages
    <3>2. stages[u][s] = "pending"
      BY <3>1 DEF StageInv, LaterArePending
    <3> QED
      BY <2>1, <3>1, <3>2
  <2>3. TerminalAgreement'
    BY <1>2 DEF ClaimNextJob, StageInv, TerminalAgreement
  <2>4. /\ pc'[w] = "activate" /\ MyTask(w)' = t /\ MyStage(w)' = job[t].stage
        /\ job'[t] = [status |-> "running", stage |-> job[t].stage]
    BY <1>2 DEF ClaimNextJob, MyTask, MyStage, NoContext
  <2> QED
    BY <2>2, <2>3, <2>4, OneAtStage DEF JobIsAtStage, OutcomeIsOne, Leaving
<1>3. CASE PassRecovery(w) \/ ClaimNothing(w)
  <2>1. pc'[w] \in {"idle", "claim"} /\ UNCHANGED database
    BY <1>3 DEF PassRecovery, ClaimNothing
  <2>2. LaterArePending' /\ TerminalAgreement'
    BY <2>1 DEF database, StageInv, LaterArePending, TerminalAgreement
  <2> QED
    BY <2>1, <2>2, OneAtStage DEF JobIsAtStage, OutcomeIsOne, AtWork, Executing, Leaving
<1> QED
  BY <1>1, <1>2, <1>3 DEF Claim

\* What a step inside the pipeline makes of the rows of its task: the checkpoint moves
\* with the worker, later stages stay untouched, and an end is the same for task and job.
LEMMA InsideKeepsRow ==
    ASSUME TypeOK, SlotInv, StageInv, NoBulkRequeue, NEW w \in Workers, Inside(w)
    PROVE  /\ \A s \in Stages \ {Export} : s > job'[MyTask(w)].stage => stages'[MyTask(w)][s] = "pending"
           /\ JobIsAtStage(w)' /\ OutcomeIsOne(w)'
<1> DEFINE t == MyTask(w)
           Later == \A s \in Stages \ {Export} : s > job'[t].stage => stages'[t][s] = "pending"
           Kept == Later /\ JobIsAtStage(w)' /\ OutcomeIsOne(w)'
<1> USE StagesAssumption
<1>0. /\ t \in Tasks /\ MyStage(w) \in Stages /\ IsCurrent(w) /\ MyTask(w)' = t /\ w \in Workers
      /\ job[t] = [status |-> "running", stage |-> MyStage(w)]
      /\ \A s \in Stages \ {Export} : s > MyStage(w) => stages[t][s] = "pending"
  <2>1. t \in Tasks /\ MyStage(w) \in Stages /\ pc[w] \in Executing
    BY ClaimedExists, InsideIsExecuting DEF Executing
  <2>2. job[t] = [status |-> "running", stage |-> MyStage(w)]
    BY <2>1 DEF StageInv, JobIsAtStage, AtWork
  <2> QED
    BY <2>1, <2>2, InsideIsLocal DEF StageInv, LaterArePending, SlotInv, HolderInv, TokenIsCurrent
<1>00. /\ pc \in [Workers -> PcStates] /\ ctx \in [Workers -> Context]
       /\ task \in [Tasks -> TaskStates] /\ job \in [Tasks -> [status : JobStates, stage : Stages]]
       /\ stages \in [Tasks -> [Stages -> StageStates]]
  BY DEF TypeOK, WorkersOK, DatabaseOK
<1>1. ASSUME NEW st \in [Stages -> StageStates], FinalizeCancelled(t, st), pc'[w] = "close",
             \A s \in Stages \ {Export} : s > MyStage(w) => st[s] = "pending"
      PROVE  Kept
  <2>1. /\ job'[t].stage = MyStage(w) /\ task'[t] = "cancelled" /\ job'[t].status = "cancelled"
        /\ \A s \in Stages : s # MyStage(w) => stages'[t][s] = st[s]
    BY <1>0, <1>00, <1>1 DEF FinalizeCancelled
  <2>2. Later
    BY <1>1, <2>1 DEF Stages
  <2> QED
    BY <1>0, <1>1, <2>1, <2>2 DEF JobIsAtStage, OutcomeIsOne, AtWork, Executing, Terminal
<1>2. ASSUME (\E r \in RunIds : CancelAtStart(w, r)) \/ CancelBeforeStage(w) \/ CancelBetweenChunks(w)
             \/ CancelChild(w)
      PROVE  Kept
  <2>1. FinalizeCancelled(t, stages[t]) /\ pc'[w] = "close"
    BY <1>0, <1>00, <1>2 DEF CancelAtStart, CancelBeforeStage, CancelBetweenChunks, CancelChild, GoTo
  <2> QED
    BY <1>0, <1>00, <1>1, <2>1
<1>3. ASSUME NEW outcome \in Done, CompleteCancelled(w, outcome)
      PROVE  Kept
  <2>1. FinalizeCancelled(t, WithOutcome(w, outcome)) /\ pc'[w] = "close"
    BY <1>00, <1>3 DEF CompleteCancelled, GoTo
  <2>2. WithOutcome(w, outcome) \in [Stages -> StageStates]
    BY <1>0, <1>00 DEF WithOutcome, Done, StageStates, Terminal
  <2>3. \A s \in Stages \ {Export} : s > MyStage(w) => WithOutcome(w, outcome)[s] = "pending"
    BY <1>0, <1>00 DEF WithOutcome, Stages
  <2> QED
    BY <1>1, <2>1, <2>2, <2>3
<1>4. ASSUME NEW r \in RunIds, StartPipeline(w, r)
      PROVE  Kept
  <2>1. /\ job'[t] = job[t] /\ pc'[w] = "exec" /\ MyStage(w)' = MyStage(w)
        /\ \A s \in Stages : s # MyStage(w) => stages'[t][s] = stages[t][s]
    BY <1>0, <1>00, <1>4 DEF StartPipeline, MyStage
  <2>2. Later
    BY <1>0, <2>1 DEF Stages
  <2> QED
    BY <1>0, <2>1, <2>2 DEF JobIsAtStage, OutcomeIsOne, Leaving
<1>5. ASSUME MarkStageRunning(w)
      PROVE  Kept
  <2>1. /\ job'[t] = job[t] /\ pc'[w] = "exec" /\ MyStage(w)' = MyStage(w)
        /\ \A s \in Stages : s # MyStage(w) => stages'[t][s] = stages[t][s]
    BY <1>0, <1>00, <1>5 DEF MarkStageRunning, MyStage
  <2>2. Later
    BY <1>0, <2>1 DEF Stages
  <2> QED
    BY <1>0, <2>1, <2>2 DEF JobIsAtStage, OutcomeIsOne, Leaving
<1>6. ASSUME NEW outcome \in Done, CompleteStage(w, outcome)
      PROVE  Kept
  <2>1. \A s \in Stages : s # MyStage(w) => stages'[t][s] = stages[t][s]
    BY <1>0, <1>00, <1>6 DEF CompleteStage, WithOutcome
  <2>2. /\ job'[t].status = "running" /\ job'[t].stage = MyStage(w)' /\ pc'[w] \in {"load", "check"}
        /\ MyStage(w)' = IF MyStage(w) = NumStages THEN NumStages ELSE MyStage(w) + 1
    BY <1>0, <1>00, <1>6 DEF CompleteStage, MyStage, Context
  <2>3. MyStage(w)' \in Stages /\ MyStage(w)' >= MyStage(w)
    BY <1>0, <2>2 DEF Stages
  <2>4. Later
    BY <1>0, <2>1, <2>2, <2>3 DEF Stages
  <2>5. job'[t] \in [status : JobStates, stage : Stages]
    BY <1>0, <1>00, <1>6, <2>3 DEF CompleteStage, JobStates, Terminal, Stages
  <2>6. job'[t] = [status |-> "running", stage |-> MyStage(w)']
    BY <2>2, <2>5
  <2> QED
    BY <1>0, <2>2, <2>4, <2>6 DEF JobIsAtStage, OutcomeIsOne, Leaving
<1>7. ASSUME ReportFailure(w)
      PROVE  Kept
  <2>1. /\ UNCHANGED job /\ pc'[w] = "failing" /\ MyStage(w)' = MyStage(w)
        /\ \A s \in Stages : s # MyStage(w) => stages'[t][s] = stages[t][s]
    BY <1>0, <1>00, <1>7 DEF ReportFailure, MyStage, GoTo
  <2>2. Later
    BY <1>0, <2>1 DEF Stages
  <2> QED
    BY <1>0, <2>1, <2>2 DEF JobIsAtStage, OutcomeIsOne, Leaving
<1>8. ASSUME FailStage(w)
      PROVE  Kept
  <2>1. /\ job'[t] = [status |-> "failed", stage |-> MyStage(w)] /\ pc'[w] = "close" /\ task'[t] = "failed"
        /\ \A s \in Stages : s # MyStage(w) => stages'[t][s] = stages[t][s]
    BY <1>0, <1>00, <1>8 DEF FailStage
  <2>2. Later
    BY <1>0, <2>1 DEF Stages
  <2> QED
    BY <1>0, <2>1, <2>2 DEF JobIsAtStage, OutcomeIsOne, AtWork, Executing, Terminal
<1>9. ASSUME CommitSuccess(w)
      PROVE  Kept
  <2>1. /\ job'[t] = [status |-> "success", stage |-> NumStages] /\ pc'[w] = "close" /\ task'[t] = "success"
    BY <1>0, <1>00, <1>9 DEF CommitSuccess, GoTo
  <2>2. Later
    BY <2>1 DEF Stages
  <2> QED
    BY <1>0, <2>1, <2>2 DEF JobIsAtStage, OutcomeIsOne, AtWork, Executing, Terminal
<1>10. ASSUME UNCHANGED <<job, stages>>, MyStage(w)' = MyStage(w), pc'[w] \in Executing
       PROVE  Kept
  BY <1>0, <1>10 DEF JobIsAtStage, OutcomeIsOne, Executing, Leaving
<1>11. ASSUME CheckBeforeStage(w) \/ LoadFinalStage(w)
       PROVE  Kept
  <2>1. pc'[w] \in {"mark", "final"} /\ UNCHANGED <<job, stages, ctx>>
    BY <1>0, <1>00, <1>11 DEF CheckBeforeStage, LoadFinalStage, GoTo, database, SlotInv, HolderInv,
       LastStageIsDone
  <2> QED
    BY <1>10, <2>1 DEF MyStage, Executing
<1>12. ASSUME ReuseChunk(w) \/ SpawnChild(w) \/ TrackChild(w) \/ ReapChild(w) \/ SignalChild(w)
       PROVE  Kept
  <2>1. UNCHANGED <<job, stages>>
    BY <1>12 DEF ReuseChunk, SpawnChild, TrackChild, ReapChild, SignalChild, database
  <2>2. CASE ReuseChunk(w)
    <3>1. pc'[w] = "exec" /\ MyStage(w)' = MyStage(w)
      BY <1>0, <1>00, <2>2 DEF ReuseChunk, HasChunkLeft, MyStage, Context
    <3> QED
      BY <1>10, <2>1, <3>1 DEF Executing
  <2>3. CASE SpawnChild(w)
    <3>1. pc'[w] = "spawned" /\ MyStage(w)' = MyStage(w)
      BY <1>0, <1>00, <2>3 DEF SpawnChild, MyStage, Context
    <3> QED
      BY <1>10, <2>1, <3>1 DEF Executing
  <2>4. CASE TrackChild(w) \/ ReapChild(w) \/ SignalChild(w)
    <3>1. pc'[w] \in {"exec", "child", "signalled"} /\ UNCHANGED ctx
      BY <1>0, <1>00, <2>4 DEF TrackChild, ReapChild, SignalChild, GoTo
    <3>2. MyStage(w)' = MyStage(w)
      BY <3>1 DEF MyStage
    <3> QED
      BY <1>10, <2>1, <3>1, <3>2 DEF Executing
  <2> QED
    BY <1>12, <2>2, <2>3, <2>4
<1>13. Kept
  <2> HIDE DEF Kept
  <2> QED
    BY <1>2, <1>3, <1>4, <1>5, <1>6, <1>7, <1>8, <1>9, <1>11, <1>12 DEF Inside
<1> QED
  BY <1>13

LEMMA RunKeepsStage ==
    ASSUME SoleWorker, TypeOK, SlotInv, StageInv, NoBulkRequeue, NEW w \in Workers,
           RunStages(w) \/ RunChunks(w)
    PROVE  StageInv'
<1>1. CASE Inside(w)
  <2>0. MyTask(w) \in Tasks /\ entry[MyTask(w)] = "running"
    BY <1>1, ClaimedExists, InsideIsExecuting DEF Executing
  <2>1. /\ \A s \in Stages \ {Export} : s > job'[MyTask(w)].stage => stages'[MyTask(w)][s] = "pending"
        /\ JobIsAtStage(w)' /\ OutcomeIsOne(w)'
    BY <1>1, InsideKeepsRow
  <2>2. /\ UNCHANGED entry
        /\ \A u \in Tasks \ {MyTask(w)} :
               task'[u] = task[u] /\ job'[u] = job[u] /\ stages'[u] = stages[u]
    BY <1>1, InsideIsLocal
  <2>3. LaterArePending'
    BY <2>1, <2>2 DEF StageInv, LaterArePending
  <2>4. TerminalAgreement'
    BY <2>0, <2>2 DEF StageInv, TerminalAgreement
  <2> QED
    BY <2>1, <2>3, <2>4, OneAtStage
<1>2. CASE ActivateExecution(w)
  <2>1. UNCHANGED <<task, job, stages, entry>> /\ pc[w] = "activate" /\ pc'[w] = "start"
        /\ MyTask(w)' = MyTask(w) /\ MyStage(w)' = MyStage(w)
    BY <1>2 DEF ActivateExecution, TypeOK, WorkersOK, Context, MyTask, MyStage
  <2>2. LaterArePending' /\ TerminalAgreement'
    BY <2>1 DEF StageInv, LaterArePending, TerminalAgreement
  <2>3. JobIsAtStage(w)' /\ OutcomeIsOne(w)'
    BY <2>1 DEF StageInv, JobIsAtStage, OutcomeIsOne, AtWork, Leaving
  <2> QED
    BY <2>2, <2>3, OneAtStage
<1> QED
  BY <1>1, <1>2, InsideSteps

LEMMA LeaveKeepsStage ==
    ASSUME SoleWorker, TypeOK, SlotInv, StageInv, NoBulkRequeue, NEW w \in Workers,
           Leave(w) \/ Crash(w)
    PROVE  StageInv'
<1>0. pc \in [Workers -> PcStates] /\ UNCHANGED <<task, job, stages>> /\ LaterArePending'
  BY DEF TypeOK, WorkersOK, Leave, ClosePipeline, FinishEntry, Crash, database, StageInv, LaterArePending
<1>1. CASE ClosePipeline(w)
  <2>1. UNCHANGED entry /\ pc[w] = "close" /\ pc'[w] \in {"idle", "finish"}
        /\ (pc'[w] = "finish" => MyTask(w)' = MyTask(w))
    BY <1>0, <1>1 DEF ClosePipeline, GoTo, MyTask
  <2>2. TerminalAgreement'
    BY <1>0, <2>1 DEF StageInv, TerminalAgreement
  <2>3. JobIsAtStage(w)' /\ OutcomeIsOne(w)'
    BY <1>0, <2>1 DEF StageInv, JobIsAtStage, OutcomeIsOne, AtWork, Executing, Leaving
  <2> QED
    BY <1>0, <2>2, <2>3, OneAtStage
<1>2. CASE FinishEntry(w)
  <2>1. pc[w] = "finish" /\ pc'[w] = "idle"
        /\ \A u \in Tasks : u # MyTask(w) => entry'[u] = entry[u]
    BY <1>0, <1>2 DEF FinishEntry, TypeOK, DatabaseOK
  <2>2. OutcomeIsOne(w)
    BY DEF StageInv
  <2>3. TerminalAgreement'
    BY <1>0, <2>1, <2>2 DEF StageInv, TerminalAgreement, OutcomeIsOne, Leaving
  <2> QED
    BY <1>0, <2>1, <2>3, OneAtStage DEF JobIsAtStage, OutcomeIsOne, AtWork, Executing, Leaving
<1>3. CASE Crash(w)
  <2>1. UNCHANGED entry /\ pc'[w] = "idle"
    BY <1>0, <1>3 DEF Crash, database
  <2>2. TerminalAgreement'
    BY <1>0, <2>1 DEF StageInv, TerminalAgreement
  <2> QED
    BY <1>0, <2>1, <2>2, OneAtStage DEF JobIsAtStage, OutcomeIsOne, AtWork, Executing, Leaving
<1> QED
  BY <1>1, <1>2, <1>3 DEF Leave

LEMMA StageStep ==
    ASSUME SoleWorker, TypeOK, SlotInv, StageInv, [Next]_vars
    PROVE  StageInv'
<1> SUFFICES ASSUME NoBulkRequeue PROVE StageInv'
  BY DEF StageInv, NoBulkRequeue
<1>1. CASE UNCHANGED <<task, job, stages, entry, pc, ctx>>
  BY <1>1
  DEF StageInv, LaterArePending, TerminalAgreement, JobIsAtStage, OutcomeIsOne, MyTask, MyStage
<1>2. CASE UNCHANGED vars \/ \E c \in children : ChildExits(c)
  BY <1>1, <1>2 DEF vars, database, ChildExits
<1> QED
  BY <1>2, ApiKeepsStage, ExportKeepsStage, ClaimKeepsStage, RunKeepsStage, LeaveKeepsStage DEF Next, WorkerStep

LEMMA StageInvariant ==
    ASSUME SoleWorker, NoBulkRequeue
    PROVE  Spec => [](TypeOK /\ SlotInv /\ StageInv)
<1>1. TypeOK /\ SlotInv /\ StageInv /\ [Next]_vars => StageInv'
  BY StageStep
<1> QED
  BY <1>1, InitStage, SlotInvariant, PTL DEF Spec

\* What is cancelled, recovered or resumed is the stage that was interrupted: the
\* checkpoint is where the worker is, and no later stage was touched, but that of exports.
THEOREM CheckpointsAreAccurate ==
    SoleWorker /\ NoBulkRequeue => (Spec => []CheckpointIsAccurate)
<1> SUFFICES ASSUME SoleWorker, NoBulkRequeue PROVE Spec => []CheckpointIsAccurate
  OBVIOUS
<1>1. TypeOK /\ SlotInv /\ StageInv => CheckpointIsAccurate
  <2> SUFFICES ASSUME TypeOK, SlotInv, StageInv, NEW w \in Workers,
                      pc[w] \in {"check", "mark", "exec", "spawned", "child", "signalled"}
               PROVE  /\ job[MyTask(w)] = [status |-> "running", stage |-> MyStage(w)]
                      /\ \A s \in Stages \ {Export} : s > MyStage(w) => stages[MyTask(w)][s] = "pending"
    BY DEF CheckpointIsAccurate
  <2>1. MyTask(w) \in Tasks
    BY ClaimedExists
  <2>2. job[MyTask(w)] = [status |-> "running", stage |-> MyStage(w)]
    BY DEF StageInv, JobIsAtStage, AtWork, Executing
  <2> QED
    BY <2>1, <2>2 DEF StageInv, LaterArePending
<1> QED
  BY <1>1, StageInvariant, PTL

\* Task and job end alike, whichever of success, failure, cancellation or recovery it was,
\* unless a clip export fails: then the task is shown as failed.
THEOREM OutcomesAgree == SoleWorker /\ NoBulkRequeue => (Spec => []TerminalAgreement)
<1> SUFFICES ASSUME SoleWorker, NoBulkRequeue PROVE Spec => []TerminalAgreement
  OBVIOUS
<1>1. StageInv => TerminalAgreement
  BY DEF StageInv
<1> QED
  BY <1>1, StageInvariant, PTL

\* A pending task has not been filed away in the queue's history.
THEOREM PendingTasksAreScheduled ==
    SoleWorker /\ NoBulkRequeue => (Spec => []PendingTaskIsScheduled)
<1> SUFFICES ASSUME SoleWorker, NoBulkRequeue PROVE Spec => []PendingTaskIsScheduled
  OBVIOUS
<1>1. TerminalAgreement => PendingTaskIsScheduled
  BY DEF TerminalAgreement, PendingTaskIsScheduled, Terminal
<1> QED
  BY <1>1, OutcomesAgree, PTL

-----------------------------------------------------------------------------
(* The owner of the slot, when the worker does not crash either *)

\* A claimed entry belongs to the worker that claimed it until it is released.
OwnerInv == NoBulkRequeue /\ NoCrash => SlotIsOwned

LEMMA OwnerStep ==
    ASSUME SoleWorker, TypeOK, SlotInv, StageInv, OwnerInv, [Next]_vars
    PROVE  OwnerInv'
<1> SUFFICES ASSUME NoBulkRequeue, NoCrash PROVE SlotIsOwned'
  BY DEF OwnerInv, NoBulkRequeue, NoCrash
<1>0. SlotIsOwned /\ pc \in [Workers -> PcStates] /\ ctx \in [Workers -> Context]
  BY DEF OwnerInv, TypeOK, WorkersOK
<1>1. ASSUME NEW w \in Workers, pc'[w] \notin {"idle", "claim"}, MyTask(w)' = MyTask(w),
             pc[w] \notin {"idle", "claim"}, UNCHANGED entry
      PROVE  SlotIsOwned'
  BY <1>0, <1>1 DEF SlotIsOwned, SoleWorker
<1>2. ASSUME UNCHANGED <<pc, ctx>>, \A t \in Tasks : entry'[t] = "running" => entry[t] = "running"
      PROVE  SlotIsOwned'
  BY <1>0, <1>2 DEF SlotIsOwned, MyTask
<1>3. ASSUME NEW w \in Workers, pc[w] \in {"idle", "claim"},
             \A t \in Tasks : entry'[t] = "running" => entry[t] = "running"
      PROVE  SlotIsOwned'
  BY <1>0, <1>3 DEF SlotIsOwned, SoleWorker
<1>4. ASSUME NEW t \in Tasks, Api(t)
      PROVE  SlotIsOwned'
  BY <1>2, <1>4, NoBulk
  DEF Api, CreateTask, SetQueueState, CheckStopRequest, WriteStopRequest, RetryTask, DeleteTask, database,
      WaitingEntry, TypeOK, DatabaseOK
<1>5. ASSUME NEW w \in Workers, Claim(w)
      PROVE  SlotIsOwned'
  <2>1. ASSUME NEW T \in SUBSET Tasks, RecoverStaleRunningJobs(w, T)
        PROVE  SlotIsOwned'
    BY <1>3, <2>1 DEF RecoverStaleRunningJobs
  <2>2. ASSUME NEW t \in Tasks, ClaimNextJob(w, t)
        PROVE  SlotIsOwned'
    <3>1. /\ pc'[w] = "activate" /\ MyTask(w)' = t
          /\ \A u \in Tasks : entry'[u] = "running" => u = t
      BY <1>0, <2>2 DEF ClaimNextJob, SlotIsFree, MyTask, NoContext, TypeOK, DatabaseOK
    <3> QED
      BY <3>1 DEF SlotIsOwned
  <2>3. CASE PassRecovery(w) \/ ClaimNothing(w)
    BY <1>3, <2>3 DEF PassRecovery, ClaimNothing, database
  <2> QED
    BY <1>5, <2>1, <2>2, <2>3 DEF Claim
<1>6. ASSUME NEW w \in Workers, Inside(w)
      PROVE  SlotIsOwned'
  <2>1. /\ pc[w] \in Executing /\ pc'[w] \in Executing \cup {"close"}
        /\ MyTask(w)' = MyTask(w) /\ UNCHANGED entry
    BY <1>6, InsideIsExecuting, InsideLeads, InsideIsLocal
  <2> QED
    BY <1>1, <2>1 DEF Executing
<1>7. ASSUME NEW w \in Workers, ActivateExecution(w)
      PROVE  SlotIsOwned'
  <2>1. pc[w] = "activate" /\ pc'[w] = "start" /\ MyTask(w)' = MyTask(w) /\ UNCHANGED entry
    BY <1>0, <1>7 DEF ActivateExecution, MyTask, Context
  <2> QED
    BY <1>1, <2>1
<1>8. ASSUME NEW w \in Workers, ClosePipeline(w)
      PROVE  SlotIsOwned'
  <2>1. task[MyTask(w)] \in Terminal
    BY <1>8 DEF ClosePipeline, StageInv, OutcomeIsOne, Leaving, Terminal
  <2>2. pc[w] = "close" /\ pc'[w] = "finish" /\ MyTask(w)' = MyTask(w) /\ UNCHANGED entry
    BY <1>0, <1>8, <2>1 DEF ClosePipeline, GoTo, MyTask
  <2> QED
    BY <1>1, <2>2
<1>9. ASSUME NEW w \in Workers, FinishEntry(w)
      PROVE  SlotIsOwned'
  <2>1. \A t \in Tasks : entry[t] = "running" => t = MyTask(w)
    BY <1>0, <1>9 DEF SlotIsOwned, SoleWorker
  <2>2. \A t \in Tasks : entry'[t] # "running"
    BY <1>9, <2>1 DEF FinishEntry, TypeOK, DatabaseOK
  <2> QED
    BY <2>2 DEF SlotIsOwned
<1>10. CASE UNCHANGED vars \/ \E c \in children : ChildExits(c)
  BY <1>2, <1>10 DEF vars, ChildExits, database
<1>11. ASSUME NEW t \in Tasks, ExportClip(t)
       PROVE  SlotIsOwned'
  BY <1>2, <1>11, ExportLeavesAlone
<1> QED
  BY <1>4, <1>5, <1>6, <1>7, <1>8, <1>9, <1>10, <1>11, NeverCrashes, InsideSteps
  DEF Next, WorkerStep, Leave

\* Without crashes the slot is never leaked: every path out of the pipeline releases it.
THEOREM SlotsAreOwned ==
    SoleWorker /\ NoBulkRequeue /\ NoCrash => (Spec => []SlotIsOwned)
<1> SUFFICES ASSUME SoleWorker, NoBulkRequeue, NoCrash PROVE Spec => []SlotIsOwned
  OBVIOUS
<1>1. Init => OwnerInv
  BY DEF Init, OwnerInv, SlotIsOwned
<1>2. TypeOK /\ SlotInv /\ StageInv /\ OwnerInv /\ [Next]_vars => OwnerInv'
  BY OwnerStep
<1>3. OwnerInv => SlotIsOwned
  BY DEF OwnerInv
<1> QED
  BY <1>1, <1>2, <1>3, StageInvariant, PTL DEF Spec

-----------------------------------------------------------------------------
(* Runs, as long as no bulk requeue adds one to a running task *)

\* The run the user sees last.
IsLast(t, r) == runs[t][r] # "none" /\ \A q \in RunIds : q > r => runs[t][q] = "none"
LastRunIs(t, S) == \E r \in RunIds : IsLast(t, r) /\ runs[t][r] \in S

\* Runs are numbered without gaps.
Numbered(t) == \A r, q \in RunIds : runs[t][r] # "none" /\ q < r => runs[t][q] # "none"

\* What its last run says of a task.
RunOfTask(t) ==
    /\ Numbered(t)
    /\ task[t] = "none" => \A r \in RunIds : runs[t][r] = "none"
    /\ entry[t] \in WaitingEntry => LastRunIs(t, {"pending"})
    /\ job[t].status = "running" => LastRunIs(t, {"pending", "running"})
    /\ entry[t] = "finished" /\ job[t].status \in {"success", "failed"} =>
           LastRunIs(t, {job[t].status})

\* The run a worker remembers is the last one, and it ends it as the job ends.
RunOfWorker(w) ==
    /\ pc[w] \in {"activate", "start"} => LastRunIs(MyTask(w), {"pending"})
    /\ pc[w] \in Executing \ {"start"} =>
           IsLast(MyTask(w), ctx[w].run) /\ runs[MyTask(w)][ctx[w].run] = "running"
    /\ pc[w] \in Leaving /\ job[MyTask(w)].status \in {"success", "failed"} =>
           LastRunIs(MyTask(w), {job[MyTask(w)].status})

RunInv == NoBulkRequeue => /\ \A t \in Tasks : RunOfTask(t)
                           /\ \A w \in Workers : RunOfWorker(w)

\* Lemma of one task: what the last run says when the last run is written.
LEMMA WriteLastRun ==
    ASSUME TypeOK, NEW t \in Tasks, NEW r \in RunIds, NEW v \in RunStates, v # "none",
           Numbered(t), IsLast(t, r) \/ IsNewRun(t, r),
           runs' = [runs EXCEPT ![t][r] = v]
    PROVE  Numbered(t)' /\ IsLast(t, r)' /\ runs'[t][r] = v
<1>1. \A q \in RunIds : runs'[t][q] = IF q = r THEN v ELSE runs[t][q]
  BY DEF TypeOK, DatabaseOK
<1>2. RunIds \subseteq Nat
  BY BoundsAssumption DEF RunIds
<1>3. \A q \in RunIds : q > r => runs[t][q] = "none"
  BY <1>2 DEF IsLast, IsNewRun, Numbered
<1>4. \A q \in RunIds : q < r => runs[t][q] # "none"
  BY DEF IsLast, IsNewRun, Numbered
<1>5. IsLast(t, r)'
  BY <1>1, <1>2, <1>3 DEF IsLast
<1>6. Numbered(t)'
  <2> SUFFICES ASSUME NEW a \in RunIds, NEW b \in RunIds, runs'[t][a] # "none", b < a
               PROVE  runs'[t][b] # "none"
    BY DEF Numbered
  <2>1. a <= r
    BY <1>2, <1>5 DEF IsLast
  <2> QED
    BY <1>1, <1>2, <1>4, <2>1
<1> QED
  BY <1>1, <1>5, <1>6

\* A pipeline works for the last run when that one is pending.
LEMMA PipelineRunIsLast ==
    ASSUME NEW t \in Tasks, NEW r \in RunIds, LastRunIs(t, {"pending"}), IsPipelineRun(t, r)
    PROVE  IsLast(t, r)
<1>1. RunIds \subseteq Nat
  BY BoundsAssumption DEF RunIds
<1>2. PICK l \in RunIds : IsLast(t, l) /\ runs[t][l] = "pending"
  BY DEF LastRunIs
<1>3. IsLatestRun(t, {"pending"}, r)
  BY <1>2 DEF IsPipelineRun
<1>4. runs[t][r] = "pending" /\ ~(r > l) /\ ~(l > r)
  BY <1>2, <1>3 DEF IsLatestRun, IsLast
<1>5. r = l
  BY <1>1, <1>4
<1> QED
  BY <1>2, <1>5

LEMMA LastRunIsOne ==
    ASSUME NEW t \in Tasks, NEW r \in RunIds, NEW q \in RunIds, IsLast(t, r), IsLast(t, q)
    PROVE  r = q
<1>1. RunIds \subseteq Nat
  BY BoundsAssumption DEF RunIds
<1> QED
  BY <1>1 DEF IsLast

\* A task whose rows are left alone keeps its run.
LEMMA RunOfTaskStays ==
    ASSUME NEW t \in Tasks, RunOfTask(t), runs'[t] = runs[t], task'[t] = "none" => task[t] = "none",
           entry'[t] = entry[t], job'[t] = job[t]
    PROVE  RunOfTask(t)'
BY DEF RunOfTask, Numbered, LastRunIs, IsLast

LEMMA InitRun == Init => RunInv
BY DEF Init, RunInv, RunOfTask, RunOfWorker, Numbered, WaitingEntry, Executing, Leaving

LEMMA ApiKeepsRun ==
    ASSUME TypeOK, SlotInv, StageInv, RunInv, NoBulkRequeue, NEW t \in Tasks, Api(t)
    PROVE  RunInv'
<1>0. /\ runs \in [Tasks -> [RunIds -> RunStates]] /\ task \in [Tasks -> TaskStates]
      /\ entry \in [Tasks -> EntryStates] /\ job \in [Tasks -> [status : JobStates, stage : Stages]]
      /\ RunOfTask(t)
  BY DEF TypeOK, DatabaseOK, RunInv
<1>1. UNCHANGED <<pc, ctx>>
  BY DEF Api, CreateTask, SetQueueState, CheckStopRequest, WriteStopRequest, RetryTask, BulkRequeue,
         DeleteTask
<1>2. \A u \in Tasks : u # t => runs'[u] = runs[u] /\ task'[u] = task[u] /\ entry'[u] = entry[u]
                                /\ job'[u] = job[u]
  BY <1>0, NoBulk
  DEF Api, CreateTask, SetQueueState, CheckStopRequest, WriteStopRequest, RetryTask, DeleteTask,
      ResetFrom, database
<1>3. entry[t] = "running" => UNCHANGED <<runs, job>>
  BY NoBulk
  DEF Api, CreateTask, SetQueueState, CheckStopRequest, WriteStopRequest, RetryTask, DeleteTask,
      database, SlotInv, EntryExists, Exists
<1>4. RunOfTask(t)'
  <2>1. ASSUME NEW r \in RunIds, IsNewRun(t, r), runs' = [runs EXCEPT ![t][r] = "pending"],
               entry'[t] = "queued", task'[t] = "pending", job'[t].status # "running"
        PROVE  RunOfTask(t)'
    <3>1. Numbered(t)' /\ IsLast(t, r)' /\ runs'[t][r] = "pending"
      BY <1>0, <2>1, WriteLastRun DEF RunOfTask, RunStates
    <3> QED
      BY <2>1, <3>1 DEF RunOfTask, LastRunIs
  <2>2. CASE CreateTask(t)
    <3>1. 1 \in RunIds /\ \A q \in RunIds : ~(q < 1)
      BY BoundsAssumption DEF RunIds
    <3>2. IsNewRun(t, 1)
      BY <1>0, <2>2, <3>1 DEF CreateTask, IsNewRun, RunOfTask
    <3>3. job[t].status # "running"
      BY <2>2 DEF CreateTask, SlotInv, JobHoldsEntry, EntryExists, Exists
    <3> QED
      BY <1>0, <2>1, <2>2, <3>1, <3>2, <3>3 DEF CreateTask
  <2>3. ASSUME NEW s \in Stages, RetryTask(t, s)
        PROVE  RunOfTask(t)'
    BY <1>0, <2>1, <2>3 DEF RetryTask, ResetFrom
  <2>4. CASE DeleteTask(t)
    BY <1>0, <2>4 DEF DeleteTask, RunOfTask, Numbered, WaitingEntry
  <2>5. ASSUME NEW s \in WaitingEntry, SetQueueState(t, s)
        PROVE  RunOfTask(t)'
    <3>1. UNCHANGED <<runs, task, job>> /\ entry[t] \in WaitingEntry /\ entry'[t] = s
      BY <1>0, <2>5 DEF SetQueueState
    <3> QED
      BY <1>0, <2>5, <3>1 DEF RunOfTask, Numbered, LastRunIs, IsLast, WaitingEntry
  <2>6. CASE CheckStopRequest(t) \/ WriteStopRequest(t)
    BY <1>0, <2>6, RunOfTaskStays DEF CheckStopRequest, WriteStopRequest, database
  <2> QED
    BY <2>2, <2>3, <2>4, <2>5, <2>6, NoBulk DEF Api
<1>5. \A u \in Tasks : RunOfTask(u)'
  BY <1>2, <1>4, RunOfTaskStays DEF RunInv
<1>6. ASSUME NEW w \in Workers
      PROVE  RunOfWorker(w)'
  <2>1. pc[w] \notin {"idle", "claim"} => MyTask(w) \in Tasks /\ entry[MyTask(w)] = "running"
    BY ClaimedExists
  <2>2. pc[w] \notin {"idle", "claim"} =>
            runs'[MyTask(w)] = runs[MyTask(w)] /\ job'[MyTask(w)] = job[MyTask(w)]
    BY <1>2, <1>3, <2>1
  <2> QED
    BY <1>1, <2>2 DEF RunInv, RunOfWorker, LastRunIs, IsLast, MyTask, Executing, Leaving
<1> QED
  BY <1>5, <1>6 DEF RunInv

LEMMA ExportKeepsRun ==
    ASSUME TypeOK, RunInv, NoBulkRequeue, NEW t \in Tasks, ExportClip(t)
    PROVE  RunInv'
<1>1. /\ UNCHANGED <<job, entry, runs, pc, ctx>>
      /\ \A u \in Tasks : task'[u] = "none" => task[u] = "none"
  BY ExportLeavesAlone
<1>2. \A u \in Tasks : RunOfTask(u)'
  BY <1>1, RunOfTaskStays DEF RunInv
<1>3. \A w \in Workers : RunOfWorker(w)'
  BY <1>1 DEF RunInv, RunOfWorker, LastRunIs, IsLast, MyTask
<1> QED
  BY <1>2, <1>3 DEF RunInv

LEMMA OneRun ==
    ASSUME SoleWorker, NEW w \in Workers, \A t \in Tasks : RunOfTask(t)', RunOfWorker(w)'
    PROVE  RunInv'
<1>1. \A v \in Workers : RunOfWorker(v)'
  BY DEF SoleWorker
<1> QED
  BY <1>1 DEF RunInv

LEMMA ClaimKeepsRun ==
    ASSUME SoleWorker, TypeOK, SlotInv, StageInv, RunInv, NoBulkRequeue, NEW w \in Workers, Claim(w)
    PROVE  RunInv'
<1>0. /\ runs \in [Tasks -> [RunIds -> RunStates]] /\ task \in [Tasks -> TaskStates]
      /\ entry \in [Tasks -> EntryStates] /\ job \in [Tasks -> [status : JobStates, stage : Stages]]
      /\ pc \in [Workers -> PcStates] /\ ctx \in [Workers -> Context]
      /\ \A t \in Tasks : RunOfTask(t)
  BY DEF TypeOK, DatabaseOK, WorkersOK, RunInv
<1>1. ASSUME NEW T \in SUBSET Tasks, RecoverStaleRunningJobs(w, T)
      PROVE  RunInv'
  <2>1. ASSUME NEW t \in T
        PROVE  RunOfTask(t)'
    <3>1. t \in Tasks /\ job[t].status = "running" /\ entry[t] = "running"
      BY <1>1, <2>1 DEF RecoverStaleRunningJobs, RunningJobs, SlotInv, JobHoldsEntry
    <3>2. PICK l \in RunIds : IsLast(t, l) /\ runs[t][l] \in {"pending", "running"}
      BY <1>0, <3>1 DEF RunOfTask, LastRunIs
    <3>3. /\ task'[t] = "failed" /\ job'[t].status = "failed" /\ entry'[t] = "finished"
          /\ \A r \in RunIds : runs'[t][r] =
                 IF IsLatestRun(t, {"pending", "running"}, r) THEN "failed" ELSE runs[t][r]
      BY <1>0, <1>1, <2>1, <3>1 DEF RecoverStaleRunningJobs
    <3>4. RunIds \subseteq Nat
      BY BoundsAssumption DEF RunIds
    <3>5. IsLatestRun(t, {"pending", "running"}, l)
      BY <3>2 DEF IsLatestRun, IsLast
    <3>6. \A r \in RunIds : runs'[t][r] = "none" <=> runs[t][r] = "none"
      BY <3>3 DEF IsLatestRun
    <3>7. IsLast(t, l)' /\ runs'[t][l] = "failed"
      BY <3>2, <3>3, <3>5, <3>6 DEF IsLast
    <3>8. Numbered(t)'
      BY <1>0, <3>1, <3>6 DEF RunOfTask, Numbered
    <3> QED
      BY <3>3, <3>7, <3>8 DEF RunOfTask, LastRunIs, WaitingEntry
  <2>2. ASSUME NEW t \in Tasks, t \notin T
        PROVE  RunOfTask(t)'
    <3>1. task'[t] = task[t] /\ job'[t] = job[t] /\ entry'[t] = entry[t]
      BY <1>1, <2>2 DEF RecoverStaleRunningJobs
    <3>2. runs'[t] = [r \in RunIds |-> runs[t][r]]
      BY <1>1, <2>2 DEF RecoverStaleRunningJobs
    <3>3. runs'[t] = runs[t]
      BY <1>0, <3>2
    <3> QED
      BY <1>0, <3>1, <3>3, RunOfTaskStays
  <2>3. pc'[w] \in {"idle", "claim"}
    BY <1>0, <1>1 DEF RecoverStaleRunningJobs
  <2>4. RunOfWorker(w)'
    BY <2>3 DEF RunOfWorker, Executing, Leaving
  <2> QED
    BY <2>1, <2>2, <2>4, OneRun
<1>2. ASSUME NEW t \in Tasks, ClaimNextJob(w, t)
      PROVE  RunInv'
  <2>1. /\ UNCHANGED runs /\ entry[t] = "queued" /\ entry'[t] = "running" /\ task'[t] = "running"
        /\ pc'[w] = "activate" /\ MyTask(w)' = t
        /\ \A u \in Tasks : u # t => task'[u] = task[u] /\ job'[u] = job[u] /\ entry'[u] = entry[u]
    BY <1>0, <1>2 DEF ClaimNextJob, MyTask, NoContext
  <2>2. LastRunIs(t, {"pending"})' /\ Numbered(t)'
    BY <1>0, <2>1 DEF RunOfTask, LastRunIs, IsLast, Numbered, WaitingEntry
  <2>3. RunOfTask(t)'
    BY <2>1, <2>2 DEF RunOfTask, LastRunIs, WaitingEntry
  <2>4. RunOfWorker(w)'
    BY <2>1, <2>2 DEF RunOfWorker, Executing, Leaving
  <2>5. \A u \in Tasks : RunOfTask(u)'
    BY <1>0, <2>1, <2>3, RunOfTaskStays
  <2> QED
    BY <2>4, <2>5, OneRun
<1>3. CASE PassRecovery(w) \/ ClaimNothing(w)
  <2>1. pc'[w] \in {"idle", "claim"} /\ UNCHANGED <<runs, task, job, entry>>
    BY <1>0, <1>3 DEF PassRecovery, ClaimNothing, database
  <2>2. RunOfWorker(w)'
    BY <2>1 DEF RunOfWorker, Executing, Leaving
  <2> QED
    BY <1>0, <2>1, <2>2, RunOfTaskStays, OneRun
<1> QED
  BY <1>1, <1>2, <1>3 DEF Claim

\* A step inside the pipeline writes the last run or none, and ends it as it ends the job.
LEMMA InsideKeepsRunOfWorker ==
    ASSUME TypeOK, SlotInv, StageInv, RunInv, NoBulkRequeue, NEW w \in Workers, Inside(w)
    PROVE  Numbered(MyTask(w))' /\ RunOfWorker(w)' /\ pc'[w] # "start"
<1> DEFINE t == MyTask(w)
           Kept == Numbered(t)' /\ RunOfWorker(w)' /\ pc'[w] # "start"
<1>0. /\ runs \in [Tasks -> [RunIds -> RunStates]] /\ job \in [Tasks -> [status : JobStates, stage : Stages]]
      /\ pc \in [Workers -> PcStates] /\ ctx \in [Workers -> Context]
      /\ t \in Tasks /\ Numbered(t) /\ RunOfWorker(w) /\ IsCurrent(w) /\ pc[w] \in Executing
      /\ MyTask(w)' = t /\ pc'[w] \in Executing \cup {"close"} /\ job[t].status = "running"
  <2>1. t \in Tasks /\ pc[w] \in Executing
    BY ClaimedExists, InsideIsExecuting DEF Executing
  <2>2. job[t] = [status |-> "running", stage |-> MyStage(w)]
    BY <2>1 DEF StageInv, JobIsAtStage, AtWork
  <2>3. job[t].status = "running"
    BY <2>2
  <2> QED
    BY <2>1, <2>3, InsideIsLocal, InsideLeads
    DEF TypeOK, DatabaseOK, WorkersOK, RunInv, RunOfTask, SlotInv, HolderInv, TokenIsCurrent
<1>1. ASSUME NEW r \in RunIds, IsLast(t, r), NEW v \in {"running"} \cup Terminal,
             runs' = [runs EXCEPT ![t][r] = v],
             \/ v = "running" /\ pc'[w] \in Executing \ {"start"} /\ ctx'[w].run = r
             \/ pc'[w] = "close" /\ job'[t].status = v
      PROVE  Kept
  <2>1. Numbered(t)' /\ IsLast(t, r)' /\ runs'[t][r] = v
    BY <1>0, <1>1, WriteLastRun DEF RunStates, Terminal
  <2> QED
    BY <1>0, <1>1, <2>1 DEF RunOfWorker, LastRunIs, Executing, Leaving
<1>2. ASSUME UNCHANGED runs, pc'[w] = "close", job'[t].status = "cancelled"
      PROVE  Kept
  BY <1>0, <1>2 DEF RunOfWorker, Numbered, Executing, Leaving
<1>3. ASSUME UNCHANGED runs, pc[w] # "start", pc'[w] \in Executing \ {"start"}, ctx'[w].run = ctx[w].run
      PROVE  Kept
  BY <1>0, <1>3 DEF RunOfWorker, Numbered, IsLast, Executing, Leaving
<1>4. pc[w] # "start" => ctx[w].run \in RunIds /\ IsLast(t, ctx[w].run)
  BY <1>0 DEF RunOfWorker, Context
<1>5. \A st : FinalizeCancelled(t, st) => job'[t].status = "cancelled"
  BY <1>0 DEF FinalizeCancelled
<1>6. ASSUME NEW r \in RunIds, StartPipeline(w, r) \/ CancelAtStart(w, r)
      PROVE  Kept
  <2>1. IsLast(t, r)
    BY <1>0, <1>6, PipelineRunIsLast DEF StartPipeline, CancelAtStart, RunOfWorker
  <2>2. CASE StartPipeline(w, r)
    <3>1. runs' = [runs EXCEPT ![t][r] = "running"] /\ pc'[w] = "exec" /\ ctx'[w].run = r
      BY <1>0, <2>2 DEF StartPipeline, Context
    <3> QED
      BY <1>1, <2>1, <3>1 DEF Executing
  <2>3. CASE CancelAtStart(w, r)
    <3>1. runs' = [runs EXCEPT ![t][r] = "cancelled"] /\ pc'[w] = "close" /\ job'[t].status = "cancelled"
      BY <1>0, <1>5, <2>3 DEF CancelAtStart, GoTo
    <3> QED
      BY <1>1, <2>1, <3>1 DEF Terminal
  <2> QED
    BY <1>6, <2>2, <2>3
<1>7. ASSUME CancelBeforeStage(w) \/ \E outcome \in Done : CompleteCancelled(w, outcome)
      PROVE  Kept
  <2>1. runs' = [runs EXCEPT ![t][ctx[w].run] = "cancelled"] /\ pc'[w] = "close" /\ pc[w] # "start"
        /\ job'[t].status = "cancelled"
    BY <1>0, <1>5, <1>7 DEF CancelBeforeStage, CompleteCancelled, GoTo
  <2> QED
    BY <1>1, <1>4, <2>1 DEF Terminal
<1>8. ASSUME FailStage(w) \/ CommitSuccess(w)
      PROVE  Kept
  <2>1. pc'[w] = "close" /\ pc[w] # "start" /\ job'[t].status \in {"success", "failed"}
        /\ runs' = [runs EXCEPT ![t][ctx[w].run] = job'[t].status]
    BY <1>0, <1>8 DEF FailStage, CommitSuccess, GoTo
  <2> QED
    BY <1>1, <1>4, <2>1 DEF Terminal
<1>9. ASSUME CancelBetweenChunks(w) \/ CancelChild(w)
      PROVE  Kept
  <2>1. UNCHANGED runs /\ pc'[w] = "close" /\ job'[t].status = "cancelled"
    BY <1>0, <1>5, <1>9 DEF CancelBetweenChunks, CancelChild, GoTo
  <2> QED
    BY <1>2, <2>1
<1>10. ASSUME CheckBeforeStage(w) \/ ReportFailure(w) \/ LoadFinalStage(w) \/ SignalChild(w)
              \/ TrackChild(w) \/ ReapChild(w)
       PROVE  Kept
  <2>1. UNCHANGED <<runs, ctx>> /\ pc[w] # "start"
    BY <1>10
    DEF CheckBeforeStage, ReportFailure, LoadFinalStage, SignalChild, TrackChild, ReapChild, GoTo, database
  <2>2. pc'[w] \in Executing \ {"start"}
    BY <1>0, <1>10
    DEF CheckBeforeStage, ReportFailure, LoadFinalStage, SignalChild, TrackChild, ReapChild, GoTo,
        Executing, SlotInv, HolderInv, LastStageIsDone
  <2> QED
    BY <1>3, <2>1, <2>2
<1>11. ASSUME MarkStageRunning(w) \/ ReuseChunk(w) \/ SpawnChild(w)
              \/ \E outcome \in Done : CompleteStage(w, outcome)
       PROVE  Kept
  <2>1. UNCHANGED runs /\ pc[w] # "start" /\ pc'[w] \in Executing \ {"start"}
    BY <1>0, <1>11
    DEF MarkStageRunning, ReuseChunk, SpawnChild, CompleteStage, HasChunkLeft, database, Executing
  <2>2. ctx'[w].run = ctx[w].run
    BY <1>0, <1>11 DEF MarkStageRunning, ReuseChunk, SpawnChild, CompleteStage, Context
  <2> QED
    BY <1>3, <2>1, <2>2
<1>12. Kept
  <2> HIDE DEF Kept
  <2> QED
    BY <1>6, <1>7, <1>8, <1>9, <1>10, <1>11 DEF Inside
<1> QED
  BY <1>12

LEMMA RunKeepsRun ==
    ASSUME SoleWorker, TypeOK, SlotInv, StageInv, RunInv, NoBulkRequeue, NEW w \in Workers,
           RunStages(w) \/ RunChunks(w)
    PROVE  RunInv'
<1>1. CASE Inside(w)
  <2>1. MyTask(w) \in Tasks /\ entry[MyTask(w)] = "running"
    BY <1>1, ClaimedExists, InsideIsExecuting DEF Executing
  <2>2. Numbered(MyTask(w))' /\ RunOfWorker(w)' /\ pc'[w] # "start"
    BY <1>1, InsideKeepsRunOfWorker
  <2>3. /\ UNCHANGED entry /\ task'[MyTask(w)] # "none" /\ MyTask(w)' = MyTask(w)
        /\ \A u \in Tasks \ {MyTask(w)} : task'[u] = task[u] /\ job'[u] = job[u] /\ runs'[u] = runs[u]
    BY <1>1, InsideIsLocal
  <2>4. job'[MyTask(w)].status = "running" => LastRunIs(MyTask(w), {"pending", "running"})'
    <3>1. job'[MyTask(w)].status = "running" => pc'[w] \in Executing \ {"start"}
      BY <1>1, <2>2, InsideLeads
    <3>2. ctx'[w].run \in RunIds
      BY <1>1, TypeStep DEF TypeOK, WorkersOK, Context, Next, WorkerStep
    <3> QED
      BY <2>2, <2>3, <3>1, <3>2 DEF RunOfWorker, LastRunIs
  <2>5. RunOfTask(MyTask(w))'
    BY <2>1, <2>2, <2>3, <2>4 DEF RunOfTask, WaitingEntry
  <2>6. \A u \in Tasks : RunOfTask(u)'
    BY <2>3, <2>5, RunOfTaskStays DEF RunInv
  <2> QED
    BY <2>2, <2>6, OneRun
<1>2. CASE ActivateExecution(w)
  <2>1. UNCHANGED <<task, job, runs, entry>> /\ pc[w] = "activate" /\ pc'[w] = "start"
        /\ MyTask(w)' = MyTask(w)
    BY <1>2 DEF ActivateExecution, TypeOK, WorkersOK, Context, MyTask
  <2>2. RunOfWorker(w)'
    BY <2>1 DEF RunInv, RunOfWorker, LastRunIs, IsLast, Leaving
  <2> QED
    BY <2>1, <2>2, RunOfTaskStays, OneRun DEF RunInv
<1> QED
  BY <1>1, <1>2, InsideSteps

LEMMA LeaveKeepsRun ==
    ASSUME SoleWorker, TypeOK, SlotInv, StageInv, RunInv, NoBulkRequeue, NEW w \in Workers,
           Leave(w) \/ Crash(w)
    PROVE  RunInv'
<1>0. /\ pc \in [Workers -> PcStates] /\ UNCHANGED <<task, job, runs>>
      /\ \A t \in Tasks : RunOfTask(t)
  BY DEF TypeOK, WorkersOK, Leave, ClosePipeline, FinishEntry, Crash, database, RunInv
<1>1. CASE ClosePipeline(w)
  <2>1. UNCHANGED entry /\ pc[w] = "close" /\ pc'[w] \in {"idle", "finish"}
        /\ (pc'[w] = "finish" => MyTask(w)' = MyTask(w))
    BY <1>0, <1>1 DEF ClosePipeline, GoTo, MyTask
  <2>2. RunOfWorker(w)'
    BY <1>0, <2>1 DEF RunInv, RunOfWorker, LastRunIs, IsLast, Executing, Leaving
  <2> QED
    BY <1>0, <2>1, <2>2, RunOfTaskStays, OneRun
<1>2. CASE FinishEntry(w)
  <2>1. pc[w] = "finish" /\ pc'[w] = "idle" /\ MyTask(w) \in Tasks /\ job[MyTask(w)].status # "running"
    BY <1>0, <1>2, ClaimedExists DEF FinishEntry, SlotInv, HolderInv, JobHasEnded, Leaving
  <2>2. /\ \A u \in Tasks : u # MyTask(w) => entry'[u] = entry[u]
        /\ \A u \in Tasks : u = MyTask(w) => entry'[u] \notin WaitingEntry
    BY <1>0, <1>2, <2>1, ClaimedExists DEF FinishEntry, TypeOK, DatabaseOK, WaitingEntry
  <2>3. job[MyTask(w)].status \in {"success", "failed"} =>
            LastRunIs(MyTask(w), {job[MyTask(w)].status})
    BY <2>1 DEF RunInv, RunOfWorker, Leaving
  <2>4. ASSUME NEW t \in Tasks, t = MyTask(w)
        PROVE  RunOfTask(t)'
    BY <1>0, <2>1, <2>2, <2>3, <2>4 DEF RunOfTask, Numbered, LastRunIs, IsLast
  <2>5. \A u \in Tasks : RunOfTask(u)'
    BY <1>0, <2>2, <2>4, RunOfTaskStays
  <2>6. RunOfWorker(w)'
    BY <2>1 DEF RunOfWorker, Executing, Leaving
  <2> QED
    BY <2>5, <2>6, OneRun
<1>3. CASE Crash(w)
  <2>1. UNCHANGED entry /\ pc'[w] = "idle"
    BY <1>0, <1>3 DEF Crash, database
  <2>2. RunOfWorker(w)'
    BY <2>1 DEF RunOfWorker, Executing, Leaving
  <2> QED
    BY <1>0, <2>1, <2>2, RunOfTaskStays, OneRun
<1> QED
  BY <1>1, <1>2, <1>3 DEF Leave

LEMMA RunStep ==
    ASSUME SoleWorker, TypeOK, SlotInv, StageInv, RunInv, [Next]_vars
    PROVE  RunInv'
<1> SUFFICES ASSUME NoBulkRequeue PROVE RunInv'
  BY DEF RunInv, NoBulkRequeue
<1>1. CASE UNCHANGED <<task, job, entry, runs, pc, ctx>>
  <2>1. \A t \in Tasks : RunOfTask(t)'
    BY <1>1, RunOfTaskStays DEF RunInv
  <2>2. \A w \in Workers : RunOfWorker(w)'
    BY <1>1 DEF RunInv, RunOfWorker, LastRunIs, IsLast, MyTask
  <2> QED
    BY <2>1, <2>2 DEF RunInv
<1>2. CASE UNCHANGED vars \/ \E c \in children : ChildExits(c)
  BY <1>1, <1>2 DEF vars, database, ChildExits
<1> QED
  BY <1>2, ApiKeepsRun, ExportKeepsRun, ClaimKeepsRun, RunKeepsRun, LeaveKeepsRun DEF Next, WorkerStep

\* When a job has succeeded or failed, the run the user sees last says the same,
\* whichever stage, recovery or retry ended it, and whatever clip exports did since.
THEOREM RunsAgree == SoleWorker /\ NoBulkRequeue => (Spec => []RunAgreement)
<1> SUFFICES ASSUME SoleWorker, NoBulkRequeue PROVE Spec => []RunAgreement
  OBVIOUS
<1>1. TypeOK /\ SlotInv /\ StageInv /\ RunInv /\ [Next]_vars => RunInv'
  BY RunStep
<1>2. TypeOK /\ RunInv => RunAgreement
  <2> SUFFICES ASSUME TypeOK, RunInv, NEW t \in Tasks, NEW r \in RunIds, entry[t] = "finished",
                      job[t].status \in {"success", "failed"}, IsLatestRun(t, RunStates \ {"none"}, r)
               PROVE  runs[t][r] = job[t].status
    BY DEF RunAgreement
  <2>1. IsLast(t, r)
    BY DEF IsLatestRun, IsLast, TypeOK, DatabaseOK
  <2>2. PICK l \in RunIds : IsLast(t, l) /\ runs[t][l] = job[t].status
    BY DEF RunInv, RunOfTask, LastRunIs
  <2> QED
    BY <2>1, <2>2, LastRunIsOne
<1> QED
  BY <1>1, <1>2, InitRun, StageInvariant, PTL DEF Spec

-----------------------------------------------------------------------------
(* Jobs, whatever bulk requeues write *)

\* A task gets its turn with a job that has not begun.
NewJobIsPending == \A t \in Tasks : task[t] = "none" => job[t].status = "pending"
WaitingJobIsPending == \A t \in Tasks : entry[t] \in WaitingEntry => job[t].status = "pending"

\* Until the worker leaves, its job runs, or a bulk requeue made it pending again.
JobIsOpen(w) == pc[w] \in AtWork => job[MyTask(w)].status \in {"running", "pending"}

JobInv == NewJobIsPending /\ WaitingJobIsPending /\ \A w \in Workers : JobIsOpen(w)

LEMMA InitJob == Init => JobInv
BY DEF Init, JobInv, NewJobIsPending, WaitingJobIsPending, JobIsOpen, WaitingEntry, AtWork, Executing

LEMMA OneJob ==
    ASSUME SoleWorker, NEW w \in Workers, NewJobIsPending', WaitingJobIsPending', JobIsOpen(w)'
    PROVE  JobInv'
BY DEF SoleWorker, JobInv

\* A step inside the pipeline leaves both statuses alone, shows one while the job runs
\* on, or ends the job with the outcome that it shows, and then the pipeline as well.
LEMMA InsideSettles ==
    ASSUME TypeOK, SlotInv, NEW w \in Workers, Inside(w)
    PROVE  \/ UNCHANGED <<task, job>>
           \/ /\ job'[MyTask(w)].status \in {job[MyTask(w)].status, "running"}
              /\ \E shown \in {"running", "success", "failed"} :
                     task' = [task EXCEPT ![MyTask(w)] = shown]
           \/ /\ pc'[w] = "close" /\ job'[MyTask(w)].status \in Terminal
              /\ task' = [task EXCEPT ![MyTask(w)] = job'[MyTask(w)].status]
<1> DEFINE t == MyTask(w)
           Shows == /\ job'[t].status \in {job[t].status, "running"}
                    /\ \E shown \in {"running", "success", "failed"} : task' = [task EXCEPT ![t] = shown]
           Ends == /\ pc'[w] = "close" /\ job'[t].status \in Terminal
                   /\ task' = [task EXCEPT ![t] = job'[t].status]
<1>0. /\ t \in Tasks /\ IsCurrent(w)
      /\ pc \in [Workers -> PcStates] /\ ctx \in [Workers -> Context]
      /\ task \in [Tasks -> TaskStates] /\ job \in [Tasks -> [status : JobStates, stage : Stages]]
  <2>1. t \in Tasks /\ pc[w] \in Executing
    BY ClaimedExists, InsideIsExecuting DEF Executing
  <2> QED
    BY <2>1 DEF SlotInv, HolderInv, TokenIsCurrent, TypeOK, WorkersOK, DatabaseOK
<1>1. ASSUME (\E r \in RunIds : CancelAtStart(w, r)) \/ CancelBeforeStage(w) \/ CancelBetweenChunks(w)
             \/ (\E outcome \in Done : CompleteCancelled(w, outcome)) \/ CancelChild(w)
      PROVE  Ends
  <2>1. PICK st : FinalizeCancelled(t, st)
    BY <1>0, <1>1 DEF CancelAtStart, CancelBeforeStage, CancelBetweenChunks, CompleteCancelled, CancelChild
  <2>2. pc'[w] = "close"
    BY <1>0, <1>1
    DEF CancelAtStart, CancelBeforeStage, CancelBetweenChunks, CompleteCancelled, CancelChild, GoTo
  <2>3. task' = [task EXCEPT ![t] = "cancelled"] /\ job'[t].status = "cancelled"
    BY <1>0, <2>1 DEF FinalizeCancelled
  <2> QED
    BY <2>2, <2>3 DEF Terminal
<1>2. ASSUME (\E r \in RunIds : StartPipeline(w, r)) \/ MarkStageRunning(w)
      PROVE  Shows
  <2>1. task' = [task EXCEPT ![t] = "running"] /\ job'[t].status = "running"
    BY <1>0, <1>2 DEF StartPipeline, MarkStageRunning
  <2> QED
    BY <2>1
<1>3. ASSUME NEW outcome \in Done, CompleteStage(w, outcome)
      PROVE  Shows
  <2>1. job'[t].status = job[t].status
    BY <1>0, <1>3 DEF CompleteStage
  <2>2. \E shown \in {"running", "success"} : task' = [task EXCEPT ![t] = shown]
    BY <1>3 DEF CompleteStage
  <2> QED
    BY <2>1, <2>2
<1>4. ASSUME ReportFailure(w)
      PROVE  Shows
  <2>1. UNCHANGED job /\ task' = [task EXCEPT ![t] = "failed"]
    BY <1>4 DEF ReportFailure
  <2> QED
    BY <2>1
<1>5. ASSUME FailStage(w) \/ CommitSuccess(w)
      PROVE  Ends
  <2>1. pc'[w] = "close"
    BY <1>0, <1>5 DEF FailStage, CommitSuccess, GoTo
  <2>2. \E outcome \in {"success", "failed"} :
            task' = [task EXCEPT ![t] = outcome] /\ job'[t].status = outcome
    BY <1>0, <1>5 DEF FailStage, CommitSuccess
  <2> QED
    BY <2>1, <2>2 DEF Terminal
<1>6. ASSUME CheckBeforeStage(w) \/ LoadFinalStage(w) \/ ReuseChunk(w) \/ SpawnChild(w) \/ TrackChild(w)
             \/ ReapChild(w) \/ SignalChild(w)
      PROVE  UNCHANGED <<task, job>>
  BY <1>6 DEF CheckBeforeStage, LoadFinalStage, ReuseChunk, SpawnChild, TrackChild, ReapChild, SignalChild,
              database
<1>7. UNCHANGED <<task, job>> \/ Shows \/ Ends
  <2> HIDE DEF Shows, Ends
  <2> QED
    BY <1>1, <1>2, <1>3, <1>4, <1>5, <1>6 DEF Inside
<1> QED
  BY <1>7

\* Requests end no job: what they write of one makes it pending, like its task, or
\* deletes both.
LEMMA ApiWritesJob ==
    ASSUME TypeOK, NEW t \in Tasks, Api(t)
    PROVE  /\ \A u \in Tasks :
                  job'[u] = job[u] \/ (job'[u].status = "pending" /\ task'[u] \in {"pending", "deleted"})
           /\ \A u \in Tasks : task'[u] = "none" => task[u] = "none"
<1> DEFINE Writes ==
    /\ \A u \in Tasks :
           job'[u] = job[u] \/ (job'[u].status = "pending" /\ task'[u] \in {"pending", "deleted"})
    /\ \A u \in Tasks : task'[u] = "none" => task[u] = "none"
<1> SUFFICES Writes
  OBVIOUS
<1> USE DEF TypeOK, DatabaseOK
<1>1. ASSUME NEW s \in Stages, ResetFrom(t, s) PROVE Writes
  BY <1>1 DEF ResetFrom
<1>2. CASE CreateTask(t)
  BY <1>2 DEF CreateTask
<1>3. CASE DeleteTask(t)
  BY <1>3 DEF DeleteTask
<1>4. CASE UNCHANGED <<task, job>>
  BY <1>4
<1> HIDE DEF Writes, TypeOK, DatabaseOK
<1>5. CASE (\E s \in WaitingEntry : SetQueueState(t, s)) \/ CheckStopRequest(t) \/ WriteStopRequest(t)
  BY <1>4, <1>5 DEF SetQueueState, CheckStopRequest, WriteStopRequest, database
<1>6. ASSUME NEW s \in Stages, RetryTask(t, s) \/ BulkRequeue(t, s)
      PROVE  Writes
  <2>1. ResetFrom(t, s)
    BY <1>6 DEF RetryTask, BulkRequeue
  <2> QED
    BY <1>1, <2>1
<1> QED
  BY <1>2, <1>3, <1>5, <1>6 DEF Api

LEMMA ApiKeepsJob ==
    ASSUME TypeOK, SlotInv, JobInv, NEW t \in Tasks, Api(t)
    PROVE  JobInv'
<1> USE DEF TypeOK, DatabaseOK
<1>0. UNCHANGED <<pc, ctx>>
  BY DEF Api, CreateTask, SetQueueState, CheckStopRequest, WriteStopRequest, RetryTask, BulkRequeue,
         DeleteTask
<1>1. /\ \A u \in Tasks : job'[u].status \in {job[u].status, "pending"}
      /\ \A u \in Tasks : task'[u] = "none" => task[u] = "none"
  BY ApiWritesJob
<1>2. \A u \in Tasks : entry'[u] \in WaitingEntry =>
          entry[u] \in WaitingEntry \/ task[u] = "none" \/ job'[u].status = "pending"
  BY DEF Api, CreateTask, SetQueueState, CheckStopRequest, WriteStopRequest, RetryTask, BulkRequeue,
         DeleteTask, ResetFrom, database, WaitingEntry
<1>3. NewJobIsPending' /\ WaitingJobIsPending'
  BY <1>1, <1>2 DEF JobInv, NewJobIsPending, WaitingJobIsPending
<1>4. ASSUME NEW w \in Workers PROVE JobIsOpen(w)'
  <2>1. pc[w] \in AtWork => MyTask(w) \in Tasks
    BY ClaimedExists DEF AtWork, Executing
  <2> QED
    BY <1>0, <1>1, <2>1 DEF JobInv, JobIsOpen, MyTask
<1> QED
  BY <1>3, <1>4 DEF JobInv

LEMMA ClaimKeepsJob ==
    ASSUME SoleWorker, TypeOK, JobInv, NEW w \in Workers, Claim(w)
    PROVE  JobInv'
<1> USE DEF TypeOK, DatabaseOK, WorkersOK
<1>1. ASSUME NEW T \in SUBSET Tasks, RecoverStaleRunningJobs(w, T)
      PROVE  JobInv'
  <2>1. /\ pc'[w] \in {"idle", "claim"}
        /\ \A u \in Tasks : \/ u \in T /\ task'[u] = "failed" /\ entry'[u] \notin WaitingEntry
                            \/ task'[u] = task[u] /\ job'[u] = job[u] /\ entry'[u] = entry[u]
    BY <1>1 DEF RecoverStaleRunningJobs, WaitingEntry
  <2>2. NewJobIsPending' /\ WaitingJobIsPending'
    BY <2>1 DEF JobInv, NewJobIsPending, WaitingJobIsPending
  <2> QED
    BY <2>1, <2>2, OneJob DEF JobIsOpen, AtWork, Executing
<1>2. ASSUME NEW t \in Tasks, ClaimNextJob(w, t)
      PROVE  JobInv'
  <2>1. /\ pc'[w] = "activate" /\ MyTask(w)' = t /\ task'[t] = "running" /\ entry'[t] = "running"
        /\ job'[t].status = "running"
        /\ \A u \in Tasks : u # t => task'[u] = task[u] /\ job'[u] = job[u] /\ entry'[u] = entry[u]
    BY <1>2 DEF ClaimNextJob, MyTask, NoContext
  <2>2. NewJobIsPending' /\ WaitingJobIsPending'
    BY <2>1 DEF JobInv, NewJobIsPending, WaitingJobIsPending, WaitingEntry
  <2> QED
    BY <2>1, <2>2, OneJob DEF JobIsOpen
<1>3. CASE PassRecovery(w) \/ ClaimNothing(w)
  <2>1. pc'[w] \in {"idle", "claim"} /\ UNCHANGED <<task, job, entry>>
    BY <1>3 DEF PassRecovery, ClaimNothing, database
  <2>2. NewJobIsPending' /\ WaitingJobIsPending'
    BY <2>1 DEF JobInv, NewJobIsPending, WaitingJobIsPending
  <2> QED
    BY <2>1, <2>2, OneJob DEF JobIsOpen, AtWork, Executing
<1> QED
  BY <1>1, <1>2, <1>3 DEF Claim

LEMMA JobStep ==
    ASSUME SoleWorker, TypeOK, SlotInv, JobInv, [Next]_vars
    PROVE  JobInv'
<1>1. ASSUME UNCHANGED <<job, entry, pc, ctx>>, \A u \in Tasks : task'[u] = "none" => task[u] = "none"
      PROVE  JobInv'
  BY <1>1 DEF JobInv, NewJobIsPending, WaitingJobIsPending, JobIsOpen, MyTask
<1>2. CASE UNCHANGED vars \/ \E c \in children : ChildExits(c)
  BY <1>1, <1>2 DEF vars, database, ChildExits
<1>3. ASSUME NEW t \in Tasks, ExportClip(t)
      PROVE  JobInv'
  BY <1>1, <1>3, ExportLeavesAlone
<1>4. ASSUME NEW w \in Workers, Inside(w)
      PROVE  JobInv'
  <2>1. /\ MyTask(w) \in Tasks /\ entry[MyTask(w)] = "running" /\ MyTask(w)' = MyTask(w)
        /\ JobIsOpen(w) /\ pc[w] \in AtWork
    BY <1>4, ClaimedExists, InsideIsExecuting, InsideIsLocal DEF JobInv, AtWork, Executing
  <2>2. /\ UNCHANGED entry /\ task'[MyTask(w)] # "none"
        /\ \A u \in Tasks \ {MyTask(w)} : task'[u] = task[u] /\ job'[u] = job[u]
    BY <1>4, InsideIsLocal
  <2>3. NewJobIsPending' /\ WaitingJobIsPending'
    BY <2>1, <2>2 DEF JobInv, NewJobIsPending, WaitingJobIsPending, WaitingEntry
  <2>4. JobIsOpen(w)'
    BY <1>4, <2>1, InsideSettles DEF JobIsOpen, AtWork, Executing
  <2> QED
    BY <2>3, <2>4, OneJob
<1>5. ASSUME NEW w \in Workers, ActivateExecution(w)
      PROVE  JobInv'
  <2>1. UNCHANGED <<task, job, entry>> /\ pc[w] = "activate" /\ MyTask(w)' = MyTask(w)
    BY <1>5 DEF ActivateExecution, TypeOK, WorkersOK, Context, MyTask
  <2>2. NewJobIsPending' /\ WaitingJobIsPending' /\ JobIsOpen(w)'
    BY <2>1 DEF JobInv, NewJobIsPending, WaitingJobIsPending, JobIsOpen, AtWork
  <2> QED
    BY <2>2, OneJob
<1>6. ASSUME NEW w \in Workers, Leave(w) \/ Crash(w)
      PROVE  JobInv'
  <2>1. /\ UNCHANGED <<task, job>> /\ pc'[w] \in {"idle", "finish"}
        /\ \A u \in Tasks : entry'[u] \in {entry[u], "finished"}
    BY <1>6 DEF TypeOK, WorkersOK, DatabaseOK, Leave, ClosePipeline, FinishEntry, Crash, database, GoTo
  <2>2. NewJobIsPending' /\ WaitingJobIsPending'
    BY <2>1 DEF JobInv, NewJobIsPending, WaitingJobIsPending, WaitingEntry
  <2> QED
    BY <2>1, <2>2, OneJob DEF JobIsOpen, AtWork, Executing
<1> QED
  BY <1>2, <1>3, <1>4, <1>5, <1>6, ApiKeepsJob, ClaimKeepsJob, InsideSteps DEF Next, WorkerStep

LEMMA JobInvariant ==
    ASSUME SoleWorker
    PROVE  Spec => [](TypeOK /\ SlotInv /\ JobInv)
<1>1. TypeOK /\ SlotInv /\ JobInv /\ [Next]_vars => JobInv'
  BY JobStep
<1> QED
  BY <1>1, InitJob, SlotInvariant, PTL DEF Spec

\* No write that follows an outcome, of whatever worker, recovery or export, through
\* crashes and bulk requeues, replaces it by another one.
THEOREM OutcomesAreFinal == SoleWorker => (Spec => OutcomeIsFinal)
<1> SUFFICES ASSUME SoleWorker PROVE Spec => OutcomeIsFinal
  OBVIOUS
<1> DEFINE Final == \A t \in Tasks : job[t].status \in Terminal =>
                        \/ job'[t].status = job[t].status
                        \/ job'[t].status = "pending" /\ task'[t] \in {"pending", "deleted"}
<1>1. ASSUME TypeOK, SlotInv, JobInv, [Next]_vars
      PROVE  Final
  <2> USE DEF TypeOK, DatabaseOK
  <2>1. ASSUME NEW t \in Tasks, Api(t)
        PROVE  Final
    BY <1>1, <2>1, ApiWritesJob
  <2>2. ASSUME NEW w \in Workers, Claim(w)
        PROVE  Final
    <3>1. ASSUME NEW T \in SUBSET Tasks, RecoverStaleRunningJobs(w, T)
          PROVE  Final
      <4>1. \A u \in Tasks : job'[u] = job[u] \/ job[u].status = "running"
        BY <1>1, <3>1 DEF RecoverStaleRunningJobs, RunningJobs
      <4> QED
        BY <4>1 DEF Terminal
    <3>2. ASSUME NEW t \in Tasks, ClaimNextJob(w, t)
          PROVE  Final
      <4>1. \A u \in Tasks : job'[u] = job[u] \/ job[u].status = "pending"
        BY <1>1, <3>2 DEF ClaimNextJob, JobInv, WaitingJobIsPending, WaitingEntry
      <4> QED
        BY <4>1 DEF Terminal
    <3> QED
      BY <2>2, <3>1, <3>2 DEF Claim, PassRecovery, ClaimNothing, database
  <2>3. ASSUME NEW w \in Workers, Inside(w)
        PROVE  Final
    <3>1. job[MyTask(w)].status \in {"running", "pending"}
      BY <1>1, <2>3, InsideIsExecuting DEF JobInv, JobIsOpen, AtWork
    <3>2. \A u \in Tasks : job'[u] = job[u] \/ job[u].status \in {"running", "pending"}
      BY <1>1, <2>3, <3>1, InsideIsLocal
    <3> QED
      BY <3>2 DEF Terminal
  <2>4. ASSUME NEW w \in Workers, ActivateExecution(w) \/ Leave(w) \/ Crash(w)
        PROVE  Final
    BY <2>4 DEF ActivateExecution, Leave, ClosePipeline, FinishEntry, Crash, database
  <2>5. CASE UNCHANGED vars \/ \E c \in children : ChildExits(c)
    BY <2>5 DEF vars, ChildExits, database
  <2>6. ASSUME NEW t \in Tasks, ExportClip(t)
        PROVE  Final
    <3>1. UNCHANGED job
      BY <1>1, <2>6, ExportLeavesAlone
    <3> QED
      BY <3>1
  <2> HIDE DEF Final
  <2> QED
    BY <1>1, <2>1, <2>2, <2>3, <2>4, <2>5, <2>6, InsideSteps DEF Next, WorkerStep
<1>2. TypeOK /\ SlotInv /\ JobInv /\ [Next]_vars => [Final]_vars
  <2> HIDE DEF Final
  <2> QED
    BY <1>1
<1>3. Spec => [][Final]_vars
  <2> HIDE DEF Final
  <2> QED
    BY <1>2, JobInvariant, PTL DEF Spec
<1> QED
  BY <1>3 DEF OutcomeIsFinal

-----------------------------------------------------------------------------
(* Task list, job and queue, as long as no bulk requeue overwrites a status *)

\* Whatever TaskLife allows keeps the screens in agreement.
LEMMA LifeKeepsAgreement ==
    ASSUME TypeOK, Life!ScreensAgree, [Life!Next]_(Life!life)
    PROVE  Life!ScreensAgree'
<1> DEFINE Works == [t \in Tasks |-> job[t].status]
           Agrees(s, o, q) ==
               \/ s \in {"none", "deleted"} /\ q = "absent"
               \/ q \in {"queued", "paused"} /\ o = "pending" /\ s \in {"pending", "failed"}
               \/ q = "running" /\ o = "running" /\ s \in {"running", "success", "failed"}
               \/ q \in {"running", "finished"} /\ o \in Terminal /\ s \in {o, "failed"}
<1>0. /\ task \in [Tasks -> TaskStates] /\ entry \in [Tasks -> EntryStates]
      /\ Works \in [Tasks -> JobStates]
  BY DEF TypeOK, DatabaseOK
<1>1. \A t \in Tasks : Agrees(task[t], Works[t], entry[t])
  BY DEF Life!ScreensAgree, Life!Waiting, Life!Outcomes, Terminal
<1>2. (\A t \in Tasks : Agrees(task'[t], Works'[t], entry'[t])) => Life!ScreensAgree'
  BY DEF Life!ScreensAgree, Life!Waiting, Life!Outcomes, Terminal
<1>3. CASE UNCHANGED Life!life
  <2>1. UNCHANGED <<task, Works, entry>>
    BY <1>3 DEF Life!life
  <2> HIDE DEF Works
  <2> QED
    BY <1>1, <1>2, <2>1
<1>4. ASSUME NEW t \in Tasks, Life!SpoilStatus(t)
      PROVE  Life!ScreensAgree'
  <2>1. /\ task' = [task EXCEPT ![t] = "failed"] /\ UNCHANGED <<Works, entry>>
        /\ task[t] \notin {"none", "deleted"}
    BY <1>4 DEF Life!SpoilStatus, Life!Exists
  <2>2. Agrees("failed", Works[t], entry[t])
    BY <1>1, <2>1
  <2> HIDE DEF Works, Agrees
  <2> QED
    BY <1>0, <1>1, <1>2, <2>1, <2>2
<1>5. ASSUME Life!Next, \A t \in Tasks : ~Life!SpoilStatus(t)
      PROVE  Life!ScreensAgree'
  <2>1. PICK t \in Tasks :
            \/ Life!Submit(t) \/ Life!Begin(t) \/ Life!Conclude(t) \/ Life!Recover(t)
            \/ Life!Reopen(t) \/ Life!Remove(t)
            \/ \E q \in Life!Waiting : Life!Hold(t, q)
            \/ \E s \in {"running", "success", "failed"} : Life!Show(t, s)
            \/ \E outcome \in Life!Outcomes : Life!Settle(t, outcome)
    BY <1>5 DEF Life!Next
  <2>2. \E s, o, q :
            /\ Agrees(s, o, q)
            /\ task' = [task EXCEPT ![t] = s] /\ Works' = [Works EXCEPT ![t] = o]
            /\ entry' = [entry EXCEPT ![t] = q]
    <3> DEFINE Becomes(s, o, q) == /\ task' = [task EXCEPT ![t] = s] /\ Works' = [Works EXCEPT ![t] = o]
                                   /\ entry' = [entry EXCEPT ![t] = q]
    <3>0. \A s, o, q : Life!Become(t, s, o, q) => Becomes(s, o, q)
      BY DEF Life!Become
    <3> HIDE DEF Becomes
    <3>1. CASE Life!Submit(t) \/ Life!Reopen(t)
      <4>1. Becomes("pending", "pending", "queued")
        BY <3>0, <3>1 DEF Life!Submit, Life!Reopen
      <4> QED
        BY <4>1 DEF Becomes
    <3>2. CASE Life!Begin(t)
      <4>1. Becomes("running", "running", "running")
        BY <3>0, <3>2 DEF Life!Begin
      <4> QED
        BY <4>1 DEF Becomes
    <3>3. CASE Life!Conclude(t)
      <4>1. /\ Becomes(task[t], Works[t], "finished")
            /\ Works[t] \in Terminal /\ entry[t] = "running"
        BY <3>0, <3>3 DEF Life!Conclude, Life!Outcomes, Terminal
      <4>2. Agrees(task[t], Works[t], "finished")
        BY <1>1, <4>1 DEF Terminal
      <4> QED
        BY <4>1, <4>2 DEF Becomes
    <3>4. CASE Life!Recover(t)
      <4>1. Becomes("failed", "failed", "finished")
        BY <3>0, <3>4 DEF Life!Recover
      <4> QED
        BY <4>1 DEF Becomes, Terminal
    <3>5. CASE Life!Remove(t)
      <4>1. Becomes("deleted", "pending", "absent")
        BY <3>0, <3>5 DEF Life!Remove
      <4> QED
        BY <4>1 DEF Becomes
    <3>6. ASSUME NEW q \in Life!Waiting, Life!Hold(t, q)
          PROVE  \E s, o, p : Agrees(s, o, p) /\ Becomes(s, o, p)
      <4>1. /\ Becomes(task[t], Works[t], q)
            /\ entry[t] \in {"queued", "paused"} /\ q \in {"queued", "paused"}
        BY <3>0, <3>6 DEF Life!Hold, Life!Waiting
      <4>2. Agrees(task[t], Works[t], q)
        BY <1>1, <4>1
      <4> QED
        BY <4>1, <4>2
    <3>7. ASSUME NEW s \in {"running", "success", "failed"}, Life!Show(t, s)
          PROVE  \E r, o, q : Agrees(r, o, q) /\ Becomes(r, o, q)
      <4>1. Becomes(s, "running", "running")
        BY <3>0, <3>7 DEF Life!Show
      <4>2. Agrees(s, "running", "running")
        OBVIOUS
      <4> QED
        BY <4>1, <4>2
    <3>8. ASSUME NEW outcome \in Life!Outcomes, Life!Settle(t, outcome)
          PROVE  \E s, o, q : Agrees(s, o, q) /\ Becomes(s, o, q)
      <4>1. Becomes(outcome, outcome, "running") /\ outcome \in Terminal
        BY <3>0, <3>8 DEF Life!Settle, Life!Outcomes, Terminal
      <4>2. Agrees(outcome, outcome, "running")
        BY <4>1
      <4> QED
        BY <4>1, <4>2
    <3> HIDE DEF Agrees
    <3> QED
      BY <2>1, <3>1, <3>2, <3>3, <3>4, <3>5, <3>6, <3>7, <3>8 DEF Becomes
  <2> HIDE DEF Works, Agrees
  <2> QED
    BY <1>0, <1>1, <1>2, <2>2
<1> QED
  BY <1>3, <1>4, <1>5

\* When one task's rows change, and how.
LEMMA LifeBecomes ==
    ASSUME TypeOK, NEW t \in Tasks, NEW s, NEW o, NEW q,
           task' = [task EXCEPT ![t] = s], entry' = [entry EXCEPT ![t] = q], job'[t].status = o,
           \A u \in Tasks \ {t} : job'[u].status = job[u].status
    PROVE  Life!Become(t, s, o, q)
BY DEF Life!Become

LEMMA LifeStutters ==
    ASSUME UNCHANGED <<task, entry>>, \A u \in Tasks : job'[u].status = job[u].status
    PROVE  UNCHANGED Life!life
BY DEF Life!life

LEMMA ApiIsLifeStep ==
    ASSUME TypeOK, NoBulkRequeue, JobInv, NEW t \in Tasks, Api(t)
    PROVE  [Life!Next]_(Life!life)
<1>0. /\ task \in [Tasks -> TaskStates] /\ entry \in [Tasks -> EntryStates]
      /\ job \in [Tasks -> [status : JobStates, stage : Stages]]
  BY DEF TypeOK, DatabaseOK
<1>1. ASSUME CreateTask(t) PROVE Life!Submit(t)
  <2>1. job[t].status = "pending"
    BY <1>1 DEF CreateTask, JobInv, NewJobIsPending
  <2>2. Life!Become(t, "pending", "pending", "queued")
    BY <1>1, <2>1, LifeBecomes DEF CreateTask
  <2> QED
    BY <1>1, <2>2 DEF CreateTask, Life!Submit
<1>2. ASSUME NEW s \in WaitingEntry, SetQueueState(t, s)
      PROVE  s \in Life!Waiting /\ Life!Hold(t, s)
  <2>1. task' = [task EXCEPT ![t] = task[t]] /\ UNCHANGED job /\ entry' = [entry EXCEPT ![t] = s]
    BY <1>0, <1>2 DEF SetQueueState
  <2>2. Life!Become(t, task[t], job[t].status, s)
    BY <2>1, LifeBecomes
  <2> QED
    BY <1>2, <2>2 DEF SetQueueState, Life!Hold, Life!Waiting, WaitingEntry
<1>3. CheckStopRequest(t) \/ WriteStopRequest(t) => UNCHANGED Life!life
  BY LifeStutters DEF CheckStopRequest, WriteStopRequest, database
<1>4. ASSUME NEW s \in Stages, RetryTask(t, s)
      PROVE  Life!Reopen(t)
  <2>1. Life!Become(t, "pending", "pending", "queued")
    BY <1>0, <1>4, LifeBecomes DEF RetryTask, ResetFrom
  <2> QED
    BY <1>4, <2>1 DEF RetryTask, Life!Reopen, Life!Exists, Exists
<1>5. ASSUME DeleteTask(t) PROVE Life!Remove(t)
  <2>1. Life!Become(t, "deleted", "pending", "absent")
    BY <1>0, <1>5, LifeBecomes DEF DeleteTask
  <2> QED
    BY <1>5, <2>1 DEF DeleteTask, Life!Remove, Life!Exists, Exists
<1> QED
  BY <1>1, <1>2, <1>3, <1>4, <1>5, NoBulk DEF Api, Life!Next

LEMMA ExportIsLifeStep ==
    ASSUME TypeOK, NEW t \in Tasks, ExportClip(t)
    PROVE  [Life!Next]_(Life!life)
<1>1. UNCHANGED <<job, entry>>
  BY ExportLeavesAlone
<1>2. UNCHANGED task \/ (Exists(t) /\ task' = [task EXCEPT ![t] = "failed"])
  BY DEF ExportClip, StartExport, EndExport, SucceedExport, FailExport, database
<1>3. CASE UNCHANGED task
  BY <1>1, <1>3, LifeStutters
<1>4. CASE Exists(t) /\ task' = [task EXCEPT ![t] = "failed"]
  <2>1. Life!SpoilStatus(t)
    BY <1>1, <1>4 DEF Life!SpoilStatus, Life!Exists, Exists
  <2> QED
    BY <2>1 DEF Life!Next
<1> QED
  BY <1>2, <1>3, <1>4

LEMMA ClaimIsLifeStep ==
    ASSUME TypeOK, SlotInv, JobInv, OneRunningEntry, NEW w \in Workers, Claim(w)
    PROVE  [Life!Next]_(Life!life)
<1> USE DEF TypeOK, DatabaseOK
<1>1. ASSUME NEW T \in SUBSET Tasks, RecoverStaleRunningJobs(w, T)
      PROVE  Life!Next
  <2>1. PICK t \in T : t \in RunningJobs
    BY <1>1 DEF RecoverStaleRunningJobs
  <2>2. \A u \in T : u \in Tasks /\ entry[u] = "running" /\ job[u].status = "running"
    BY <1>1 DEF RecoverStaleRunningJobs, RunningJobs, SlotInv, JobHoldsEntry
  <2>3. T = {t}
    BY <2>1, <2>2 DEF OneRunningEntry, Slot!Exclusive
  <2>4. /\ task' = [task EXCEPT ![t] = "failed"] /\ entry' = [entry EXCEPT ![t] = "finished"]
        /\ job'[t].status = "failed" /\ \A u \in Tasks \ {t} : job'[u].status = job[u].status
    BY <1>1, <2>2, <2>3 DEF RecoverStaleRunningJobs
  <2>5. Life!Become(t, "failed", "failed", "finished") /\ t \in Tasks
    BY <2>2, <2>4, LifeBecomes
  <2>6. Life!Recover(t)
    BY <2>2, <2>5 DEF Life!Recover
  <2> QED
    BY <2>5, <2>6 DEF Life!Next
<1>2. ASSUME NEW t \in Tasks, ClaimNextJob(w, t)
      PROVE  Life!Next
  <2>1. job[t].status = "pending"
    BY <1>2 DEF ClaimNextJob, JobInv, WaitingJobIsPending, WaitingEntry
  <2>2. Life!Become(t, "running", "running", "running")
    BY <1>2, LifeBecomes DEF ClaimNextJob
  <2>3. Life!Begin(t)
    BY <1>2, <2>1, <2>2 DEF ClaimNextJob, SlotIsFree, Life!Begin
  <2> QED
    BY <2>3 DEF Life!Next
<1>3. CASE PassRecovery(w) \/ ClaimNothing(w)
  BY <1>3, LifeStutters DEF PassRecovery, ClaimNothing, database
<1> QED
  BY <1>1, <1>2, <1>3 DEF Claim

LEMMA InsideIsLifeStep ==
    ASSUME TypeOK, SlotInv, StageInv, NoBulkRequeue, NEW w \in Workers, Inside(w)
    PROVE  [Life!Next]_(Life!life)
<1>0. PICK mine \in Tasks : mine = MyTask(w)
  BY ClaimedExists, InsideIsExecuting DEF Executing
<1>1. /\ mine \in Tasks /\ entry[mine] = "running" /\ job[mine].status = "running"
      /\ entry' = [entry EXCEPT ![mine] = "running"]
      /\ \A u \in Tasks \ {mine} : job'[u].status = job[u].status
  <2>1. mine \in Tasks /\ entry[mine] = "running" /\ pc[w] \in AtWork
    BY <1>0, ClaimedExists, InsideIsExecuting DEF AtWork, Executing
  <2>2. job[mine] = [status |-> "running", stage |-> MyStage(w)]
    BY <1>0, <2>1 DEF StageInv, JobIsAtStage
  <2>3. UNCHANGED entry /\ \A u \in Tasks \ {mine} : job'[u].status = job[u].status
    BY <1>0, InsideIsLocal
  <2> QED
    BY <2>1, <2>2, <2>3 DEF TypeOK, DatabaseOK
<1>2. CASE UNCHANGED <<task, job>>
  BY <1>2, InsideIsLocal, LifeStutters
<1>3. ASSUME NEW shown \in {"running", "success", "failed"}, task' = [task EXCEPT ![mine] = shown],
             job'[mine].status \in {job[mine].status, "running"}
      PROVE  Life!Next
  <2>1. Life!Become(mine, shown, "running", "running")
    BY <1>1, <1>3, LifeBecomes
  <2>2. Life!Show(mine, shown)
    BY <1>1, <2>1 DEF Life!Show
  <2> QED
    BY <1>1, <2>2 DEF Life!Next
<1>4. ASSUME job'[mine].status \in Terminal, task' = [task EXCEPT ![mine] = job'[mine].status]
      PROVE  Life!Next
  <2> DEFINE outcome == job'[mine].status
  <2>1. Life!Become(mine, outcome, outcome, "running")
    BY <1>1, <1>4, LifeBecomes
  <2>2. outcome \in Life!Outcomes
    BY <1>4 DEF Life!Outcomes, Terminal
  <2>3. Life!Settle(mine, outcome)
    BY <1>1, <2>1, <2>2 DEF Life!Settle
  <2> QED
    BY <1>1, <2>2, <2>3 DEF Life!Next
<1> QED
  BY <1>0, <1>2, <1>3, <1>4, InsideSettles

LEMMA LeaveIsLifeStep ==
    ASSUME TypeOK, SlotInv, StageInv, NoBulkRequeue, NEW w \in Workers, Leave(w) \/ Crash(w)
    PROVE  [Life!Next]_(Life!life)
<1>1. CASE FinishEntry(w)
  <2>0. PICK mine \in Tasks : mine = MyTask(w)
    BY <1>1, ClaimedExists DEF FinishEntry, Leaving
  <2>1. entry[mine] = "running" /\ job[mine].status \in Terminal
    BY <1>1, <2>0, ClaimedExists DEF FinishEntry, StageInv, OutcomeIsOne, Leaving
  <2>2. /\ entry' = [entry EXCEPT ![mine] = "finished"] /\ task' = [task EXCEPT ![mine] = task[mine]]
        /\ UNCHANGED job
    BY <1>1, <2>0, <2>1 DEF FinishEntry, TypeOK, DatabaseOK
  <2>3. Life!Become(mine, task[mine], job[mine].status, "finished")
    BY <2>1, <2>2, LifeBecomes
  <2>4. Life!Conclude(mine)
    BY <2>1, <2>3 DEF Life!Conclude, Life!Outcomes, Terminal
  <2> QED
    BY <2>1, <2>4 DEF Life!Next
<1>2. CASE ClosePipeline(w) \/ Crash(w)
  BY <1>2, LifeStutters DEF ClosePipeline, Crash, database
<1> QED
  BY <1>1, <1>2 DEF Leave

\* One claim holds the slot and its job comes to one outcome: every transaction of the
\* pipeline is a step of TaskLife, or leaves status, job and entry as they are.
LEMMA NextIsLifeStep ==
    ASSUME NoBulkRequeue, TypeOK, SlotInv, StageInv, OneRunningEntry, JobInv,
           Life!ScreensAgree, [Next]_vars
    PROVE  [Life!Next]_(Life!life) /\ Life!ScreensAgree'
<1>1. ASSUME NEW w \in Workers, ActivateExecution(w)
      PROVE  UNCHANGED Life!life
  BY <1>1, LifeStutters DEF ActivateExecution
<1>2. UNCHANGED vars \/ (\E c \in children : ChildExits(c)) => UNCHANGED Life!life
  BY LifeStutters DEF vars, database, ChildExits
<1>3. [Life!Next]_(Life!life)
  BY <1>1, <1>2, ApiIsLifeStep, ExportIsLifeStep, ClaimIsLifeStep, InsideIsLifeStep, LeaveIsLifeStep,
     InsideSteps
  DEF Next, WorkerStep
<1> QED
  BY <1>3, LifeKeepsAgreement

LEMMA LifeInvariant ==
    ASSUME SoleWorker, NoBulkRequeue
    PROVE  Spec => [](/\ TypeOK /\ SlotInv /\ StageInv /\ OneRunningEntry /\ JobInv
                      /\ Life!ScreensAgree)
<1>1. Init => Life!ScreensAgree
  BY DEF Init, Life!ScreensAgree
<1>2. /\ TypeOK /\ SlotInv /\ StageInv /\ OneRunningEntry /\ JobInv /\ Life!ScreensAgree
      /\ [Next]_vars
      => Life!ScreensAgree'
  BY NextIsLifeStep
<1> QED
  BY <1>1, <1>2, StageInvariant, JobInvariant, PipelineIsExclusive, PTL DEF Spec

\* Status, job and queue entry go through their states as TaskLife says, whichever of
\* API, worker, recovery, clip exports and crashes it is that moves them.
THEOREM PipelineImplementsTaskLife ==
    SoleWorker /\ NoBulkRequeue => (Spec => ImplementsTaskLife)
<1> SUFFICES ASSUME SoleWorker, NoBulkRequeue PROVE Spec => ImplementsTaskLife
  OBVIOUS
<1>1. Init => Life!Init
  BY DEF Init, Life!Init
<1>2. /\ TypeOK /\ SlotInv /\ StageInv /\ OneRunningEntry /\ JobInv /\ Life!ScreensAgree
      /\ [Next]_vars
      => [Life!Next]_(Life!life)
  BY NextIsLifeStep
<1> QED
  BY <1>1, <1>2, LifeInvariant, PTL DEF Spec, ImplementsTaskLife, Life!Spec

\* Task list, jobs and queue fit together at every moment, failed clip exports apart.
THEOREM ScreensNeverDisagree == SoleWorker /\ NoBulkRequeue => (Spec => []Life!ScreensAgree)
<1> SUFFICES ASSUME SoleWorker, NoBulkRequeue PROVE Spec => []Life!ScreensAgree
  OBVIOUS
<1> QED
  BY LifeInvariant, PTL

\* What is in history keeps the outcome of its job until it is retried or deleted; of a
\* failed clip export the task list alone hears.
THEOREM HistoryOfTasksStands == SoleWorker /\ NoBulkRequeue => (Spec => Life!HistoryStands)
<1> SUFFICES ASSUME SoleWorker, NoBulkRequeue PROVE Spec => Life!HistoryStands
  OBVIOUS
<1> DEFINE Works == [t \in Tasks |-> job[t].status]
<1>1. TypeOK /\ Life!ScreensAgree /\ [Life!Next]_(Life!life) => [Life!KeepsHistory]_(Life!life)
  <2> SUFFICES ASSUME TypeOK, Life!ScreensAgree, Life!Next, NEW u \in Tasks, entry[u] = "finished"
               PROVE  \/ Works'[u] = Works[u] /\ entry'[u] = entry[u] /\ task'[u] \in {task[u], "failed"}
                      \/ task'[u] = "pending" /\ entry'[u] = "queued"
                      \/ task'[u] = "deleted" /\ entry'[u] = "absent"
    BY DEF Life!KeepsHistory
  <2>0. /\ task \in [Tasks -> TaskStates] /\ entry \in [Tasks -> EntryStates]
        /\ Works \in [Tasks -> JobStates]
    BY DEF TypeOK, DatabaseOK
  <2>1. task[u] \notin {"none", "deleted"}
    BY DEF Life!ScreensAgree, Life!Waiting, Life!Outcomes
  <2>2. \A t, s, o, q : Life!Become(t, s, o, q) =>
            /\ task' = [task EXCEPT ![t] = s] /\ Works' = [Works EXCEPT ![t] = o]
            /\ entry' = [entry EXCEPT ![t] = q]
    BY DEF Life!Become
  <2> DEFINE Stays == \/ Works'[u] = Works[u] /\ entry'[u] = entry[u] /\ task'[u] \in {task[u], "failed"}
                      \/ task'[u] = "pending" /\ entry'[u] = "queued"
                      \/ task'[u] = "deleted" /\ entry'[u] = "absent"
  <2>3. ASSUME NEW t \in Tasks, Life!SpoilStatus(t)
        PROVE  Stays
    BY <2>0, <2>3 DEF Life!SpoilStatus
  <2> HIDE DEF Works
  <2>4. ASSUME NEW t \in Tasks, NEW s, NEW o, NEW q, Life!Become(t, s, o, q),
               u = t => (s = "pending" /\ q = "queued") \/ (s = "deleted" /\ q = "absent")
        PROVE  Stays
    BY <2>0, <2>2, <2>4
  <2> HIDE DEF Stays
  <2>5. ASSUME NEW t \in Tasks, Life!Submit(t) \/ Life!Begin(t) \/ Life!Conclude(t) \/ Life!Recover(t)
        PROVE  Stays
    BY <2>1, <2>4, <2>5 DEF Life!Submit, Life!Begin, Life!Conclude, Life!Recover
  <2>6. ASSUME NEW t \in Tasks, Life!Reopen(t) \/ Life!Remove(t)
        PROVE  Stays
    BY <2>4, <2>6 DEF Life!Reopen, Life!Remove
  <2>7. ASSUME NEW t \in Tasks, NEW q \in Life!Waiting, Life!Hold(t, q)
        PROVE  Stays
    BY <2>4, <2>7 DEF Life!Hold, Life!Waiting
  <2>8. ASSUME NEW t \in Tasks, NEW s \in {"running", "success", "failed"}, Life!Show(t, s)
        PROVE  Stays
    BY <2>4, <2>8 DEF Life!Show
  <2>9. ASSUME NEW t \in Tasks, NEW outcome \in Life!Outcomes, Life!Settle(t, outcome)
        PROVE  Stays
    BY <2>4, <2>9 DEF Life!Settle
  <2>10. Stays
    BY <2>3, <2>5, <2>6, <2>7, <2>8, <2>9 DEF Life!Next
  <2> QED
    BY <2>10 DEF Stays
<1>2. /\ TypeOK /\ SlotInv /\ StageInv /\ OneRunningEntry /\ JobInv /\ Life!ScreensAgree
      /\ [Next]_vars
      => [Life!KeepsHistory]_(Life!life)
  BY <1>1, NextIsLifeStep
<1> QED
  BY <1>2, LifeInvariant, PTL DEF Spec, Life!HistoryStands

-----------------------------------------------------------------------------
(* Claims that last as long as they must, whatever bulk requeues write *)

\* As long as it does not crash, the worker is at work on every job that runs.
WorkInv ==
    NoCrash => \A t \in Tasks : job[t].status = "running" =>
                   \E w \in Workers : pc[w] \in AtWork /\ MyTask(w) = t

LEMMA WorkStep ==
    ASSUME SoleWorker, TypeOK, SlotInv, WorkInv, [Next]_vars
    PROVE  WorkInv'
<1> SUFFICES ASSUME NoCrash PROVE WorkInv'
  BY DEF WorkInv, NoCrash
<1> USE DEF TypeOK, DatabaseOK, WorkersOK
<1>1. ASSUME UNCHANGED <<pc, ctx>>, \A t \in Tasks : job'[t].status = "running" => job[t].status = "running"
      PROVE  WorkInv'
  BY <1>1 DEF WorkInv, MyTask
<1>2. ASSUME NEW t \in Tasks, Api(t)
      PROVE  WorkInv'
  <2>1. \A u \in Tasks : job'[u] = job[u] \/ job'[u].status = "pending"
    BY <1>2, ApiWritesJob
  <2>2. UNCHANGED <<pc, ctx>>
    BY <1>2
    DEF Api, CreateTask, SetQueueState, CheckStopRequest, WriteStopRequest, RetryTask, BulkRequeue,
        DeleteTask
  <2> QED
    BY <1>1, <2>1, <2>2
<1>3. ASSUME NEW w \in Workers, pc[w] \notin AtWork
      PROVE  \A t \in Tasks : job[t].status # "running"
  BY <1>3 DEF WorkInv, SoleWorker
<1>4. ASSUME NEW w \in Workers, Claim(w)
      PROVE  WorkInv'
  <2>1. \A t \in Tasks : job[t].status # "running"
    BY <1>3, <1>4 DEF Claim, RecoverStaleRunningJobs, PassRecovery, ClaimNextJob, ClaimNothing, AtWork,
       Executing
  <2>2. \A T \in SUBSET Tasks : ~RecoverStaleRunningJobs(w, T)
    BY <2>1 DEF RecoverStaleRunningJobs, RunningJobs
  <2>3. ASSUME NEW t \in Tasks, ClaimNextJob(w, t)
        PROVE  WorkInv'
    <3>1. /\ pc'[w] = "activate" /\ MyTask(w)' = t
          /\ \A u \in Tasks : u # t => job'[u].status # "running"
      BY <2>1, <2>3 DEF ClaimNextJob, MyTask, NoContext
    <3> QED
      BY <3>1 DEF WorkInv, AtWork
  <2>4. CASE PassRecovery(w) \/ ClaimNothing(w)
    BY <2>1, <2>4 DEF PassRecovery, ClaimNothing, database, WorkInv
  <2> QED
    BY <1>4, <2>2, <2>3, <2>4 DEF Claim
<1>5. ASSUME NEW w \in Workers, Inside(w)
      PROVE  WorkInv'
  <2>1. \A u \in Tasks : job[u].status = "running" => u = MyTask(w)
    BY DEF WorkInv, SoleWorker
  <2>2. \A u \in Tasks \ {MyTask(w)} : job'[u] = job[u]
    BY <1>5, InsideIsLocal
  <2>3. /\ pc'[w] \in AtWork \/ job'[MyTask(w)].status # "running"
        /\ MyTask(w)' = MyTask(w)
    BY <1>5, InsideIsLocal, InsideLeads DEF AtWork
  <2> QED
    BY <2>1, <2>2, <2>3 DEF WorkInv
<1>6. ASSUME NEW w \in Workers, ActivateExecution(w)
      PROVE  WorkInv'
  <2>1. UNCHANGED job /\ pc'[w] = "start" /\ MyTask(w)' = MyTask(w)
    BY <1>6 DEF ActivateExecution, Context, MyTask
  <2> QED
    BY <2>1 DEF WorkInv, SoleWorker, AtWork, Executing
<1>7. ASSUME NEW w \in Workers, Leave(w)
      PROVE  WorkInv'
  <2>1. UNCHANGED job /\ pc[w] \in Leaving
    BY <1>7 DEF Leave, ClosePipeline, FinishEntry, Leaving
  <2>2. \A t \in Tasks : job[t].status # "running"
    BY <1>3, <2>1 DEF AtWork, Executing, Leaving
  <2> QED
    BY <2>1, <2>2 DEF WorkInv
<1>8. CASE UNCHANGED vars \/ \E c \in children : ChildExits(c)
  BY <1>1, <1>8 DEF vars, ChildExits, database
<1>9. ASSUME NEW t \in Tasks, ExportClip(t)
      PROVE  WorkInv'
  BY <1>1, <1>9, ExportLeavesAlone
<1> QED
  BY <1>2, <1>4, <1>5, <1>6, <1>7, <1>8, <1>9, NeverCrashes, InsideSteps DEF Next, WorkerStep

LEMMA WorkInvariant ==
    ASSUME SoleWorker
    PROVE  Spec => []WorkInv
<1>1. Init => WorkInv
  BY DEF Init, WorkInv
<1>2. TypeOK /\ SlotInv /\ WorkInv /\ [Next]_vars => WorkInv'
  BY WorkStep
<1> QED
  BY <1>1, <1>2, SlotInvariant, PTL DEF Spec

\* The stale recovery never takes a job from a worker that is alive.
THEOREM LiveJobsAreNotRecovered == SoleWorker /\ NoCrash => (Spec => []NothingIsMistakenForStale)
<1> SUFFICES ASSUME SoleWorker, NoCrash PROVE Spec => []NothingIsMistakenForStale
  OBVIOUS
<1>1. WorkInv => NothingIsMistakenForStale
  BY DEF WorkInv, NothingIsMistakenForStale, RunningJobs, SoleWorker, AtWork, Executing
<1> QED
  BY <1>1, WorkInvariant, PTL

-----------------------------------------------------------------------------
(* The next step of a claim *)

\* A run waits for every execution that has not started.
RunWaits(t) == \E r \in RunIds : runs[t][r] = "pending"
RunsWait ==
    /\ \A t \in Tasks : entry[t] \in WaitingEntry => RunWaits(t)
    /\ \A w \in Workers : pc[w] \in {"activate", "start"} => RunWaits(MyTask(w))

\* Of the runs with a given status one is the latest.
LEMMA LatestRunExists ==
    ASSUME NEW t \in Tasks, NEW S, NEW r \in RunIds, runs[t][r] \in S
    PROVE  \E q \in RunIds : IsLatestRun(t, S, q)
<1> DEFINE Back == {n \in Nat : MaxRuns - n \in RunIds /\ runs[t][MaxRuns - n] \in S}
<1>0. RunIds = 1..MaxRuns /\ MaxRuns \in Nat
  BY BoundsAssumption DEF RunIds
<1>1. MaxRuns - r \in Back
  BY <1>0
<1>2. PICK n \in Back : \A m \in Back : ~(m < n)
  <2>1. PICK n \in Back : \A m \in Back : ~(<<m, n>> \in OpToRel(<, Nat))
    <3>1. Back \subseteq Nat /\ Back # {}
      BY <1>1
    <3> HIDE DEF Back
    <3> QED
      BY <3>1, NatLessThanWellFounded, WFMin
  <2> QED
    BY <2>1 DEF OpToRel
<1>3. MaxRuns - n \in RunIds /\ runs[t][MaxRuns - n] \in S
  BY <1>2
<1>4. ASSUME NEW q \in RunIds, q > MaxRuns - n
      PROVE  runs[t][q] \notin S
  <2>1. MaxRuns - q \in Nat /\ MaxRuns - q < n /\ MaxRuns - (MaxRuns - q) = q
    BY <1>0, <1>2, <1>4
  <2>2. MaxRuns - q \notin Back
    BY <1>2, <2>1
  <2> QED
    BY <2>1, <2>2
<1> QED
  BY <1>3, <1>4 DEF IsLatestRun

\* Requests add a pending run with every turn, and the worker takes it once.
LEMMA RunsWaitStep ==
    ASSUME SoleWorker, TypeOK, SlotInv, RunsWait, [Next]_vars
    PROVE  RunsWait'
<1> USE DEF TypeOK, DatabaseOK, WorkersOK
<1>1. ASSUME UNCHANGED <<runs, entry, pc, ctx>>
      PROVE  RunsWait'
  BY <1>1 DEF RunsWait, RunWaits, MyTask
<1>2. ASSUME NEW t \in Tasks, Api(t)
      PROVE  RunsWait'
  <2>1. /\ UNCHANGED <<pc, ctx>>
        /\ \A u \in Tasks : u # t => runs'[u] = runs[u] /\ entry'[u] = entry[u]
    BY <1>2
    DEF Api, CreateTask, SetQueueState, CheckStopRequest, WriteStopRequest, RetryTask, BulkRequeue,
        DeleteTask, ResetFrom, database
  <2>2. /\ entry'[t] \in WaitingEntry => entry[t] \in WaitingEntry \/ RunWaits(t)'
        /\ RunWaits(t) => RunWaits(t)' \/ (entry[t] # "running" /\ entry'[t] = "absent")
    <3>1. CASE CreateTask(t)
      <4>1. 1 \in RunIds
        BY BoundsAssumption DEF RunIds
      <4> QED
        BY <3>1, <4>1 DEF CreateTask, RunWaits
    <3>2. ASSUME NEW s \in Stages, ResetFrom(t, s)
          PROVE  RunWaits(t)'
      BY <3>2 DEF ResetFrom, RunWaits
    <3>3. CASE DeleteTask(t)
      BY <3>3 DEF DeleteTask, WaitingEntry
    <3>4. CASE CheckStopRequest(t) \/ WriteStopRequest(t)
      BY <3>4 DEF CheckStopRequest, WriteStopRequest, database, RunWaits
    <3>5. ASSUME NEW s \in WaitingEntry, SetQueueState(t, s)
          PROVE  entry[t] \in WaitingEntry /\ UNCHANGED runs
      BY <3>5 DEF SetQueueState
    <3> QED
      BY <1>2, <3>1, <3>2, <3>3, <3>4, <3>5 DEF Api, RetryTask, BulkRequeue, RunWaits
  <2>3. \A u \in Tasks : entry'[u] \in WaitingEntry => RunWaits(u)'
    BY <2>1, <2>2 DEF RunsWait, RunWaits, WaitingEntry
  <2>4. ASSUME NEW w \in Workers, pc'[w] \in {"activate", "start"}
        PROVE  RunWaits(MyTask(w))'
    <3>1. MyTask(w) \in Tasks /\ entry[MyTask(w)] = "running" /\ RunWaits(MyTask(w)) /\ MyTask(w)' = MyTask(w)
      BY <2>1, <2>4, ClaimedExists DEF RunsWait, MyTask
    <3> QED
      BY <2>1, <2>2, <3>1 DEF RunWaits
  <2> QED
    BY <2>3, <2>4 DEF RunsWait
<1>3. ASSUME NEW w \in Workers, pc'[w] \notin {"activate", "start"},
             \A t \in Tasks : entry'[t] \in WaitingEntry =>
                 entry[t] \in WaitingEntry /\ \A r \in RunIds : runs'[t][r] = runs[t][r]
      PROVE  RunsWait'
  <2>1. \A t \in Tasks : entry'[t] \in WaitingEntry => RunWaits(t)'
    <3>1. \A t \in Tasks : entry[t] \in WaitingEntry => RunWaits(t)
      BY DEF RunsWait
    <3>2. ASSUME NEW t \in Tasks, entry'[t] \in WaitingEntry
          PROVE  RunWaits(t)'
      <4>1. RunWaits(t) /\ \A r \in RunIds : runs'[t][r] = runs[t][r]
        BY <1>3, <3>1, <3>2
      <4> QED
        BY <4>1 DEF RunWaits
    <3> QED
      BY <3>2
  <2>2. \A v \in Workers : pc'[v] \notin {"activate", "start"}
    BY <1>3 DEF SoleWorker
  <2> QED
    BY <2>1, <2>2 DEF RunsWait
<1>4. ASSUME NEW w \in Workers, Claim(w)
      PROVE  RunsWait'
  <2>1. ASSUME NEW T \in SUBSET Tasks, RecoverStaleRunningJobs(w, T)
        PROVE  RunsWait'
    <3>1. /\ pc'[w] \notin {"activate", "start"}
          /\ \A t \in Tasks : IF t \in T THEN entry'[t] \in {"absent", "finished"}
                              ELSE entry'[t] = entry[t] /\ \A r \in RunIds : runs'[t][r] = runs[t][r]
      BY <2>1 DEF RecoverStaleRunningJobs
    <3> QED
      BY <1>3, <3>1 DEF WaitingEntry
  <2>2. ASSUME NEW t \in Tasks, ClaimNextJob(w, t)
        PROVE  RunsWait'
    <3>1. /\ UNCHANGED runs /\ MyTask(w)' = t /\ entry[t] = "queued"
          /\ \A u \in Tasks : entry'[u] \in WaitingEntry => entry[u] \in WaitingEntry
      BY <2>2 DEF ClaimNextJob, MyTask, NoContext, WaitingEntry
    <3>2. \A u \in Tasks : RunWaits(u) => RunWaits(u)'
      BY <3>1 DEF RunWaits
    <3>3. RunWaits(MyTask(w))'
      BY <3>1 DEF RunsWait, RunWaits, WaitingEntry
    <3> QED
      BY <3>1, <3>2, <3>3 DEF RunsWait, SoleWorker
  <2>3. CASE PassRecovery(w) \/ ClaimNothing(w)
    BY <1>3, <2>3 DEF PassRecovery, ClaimNothing, database
  <2> QED
    BY <1>4, <2>1, <2>2, <2>3 DEF Claim
<1>5. ASSUME NEW w \in Workers, Inside(w)
      PROVE  RunsWait'
  <2>1. /\ MyTask(w) \in Tasks /\ entry[MyTask(w)] = "running" /\ UNCHANGED entry
        /\ \A u \in Tasks \ {MyTask(w)} : runs'[u] = runs[u]
    BY <1>5, ClaimedExists, InsideIsExecuting, InsideIsLocal DEF Executing
  <2>2. pc'[w] \notin {"activate", "start"}
    BY <1>5
    DEF Inside, StartPipeline, CancelAtStart, CheckBeforeStage, CancelBeforeStage, MarkStageRunning,
        CompleteStage, CompleteCancelled, ReportFailure, FailStage, LoadFinalStage, CommitSuccess,
        HasChunkLeft, ReuseChunk, CancelBetweenChunks, SpawnChild, TrackChild, ReapChild, SignalChild,
        CancelChild, GoTo
  <2> QED
    BY <1>3, <2>1, <2>2 DEF WaitingEntry
<1>6. ASSUME NEW w \in Workers, ActivateExecution(w)
      PROVE  RunsWait'
  <2>1. UNCHANGED <<runs, entry>> /\ pc[w] = "activate" /\ MyTask(w)' = MyTask(w)
    BY <1>6 DEF ActivateExecution, Context, MyTask
  <2> QED
    BY <2>1 DEF RunsWait, RunWaits, SoleWorker
<1>7. ASSUME NEW w \in Workers, Leave(w) \/ Crash(w)
      PROVE  RunsWait'
  <2>1. /\ UNCHANGED runs /\ pc'[w] \in {"idle", "finish"}
        /\ \A t \in Tasks : entry'[t] \in {entry[t], "finished"}
    BY <1>7 DEF Leave, ClosePipeline, FinishEntry, Crash, database, GoTo
  <2> QED
    BY <1>3, <2>1 DEF WaitingEntry
<1>8. CASE UNCHANGED vars \/ \E c \in children : ChildExits(c)
  BY <1>1, <1>8 DEF vars, ChildExits, database
<1>9. ASSUME NEW t \in Tasks, ExportClip(t)
      PROVE  RunsWait'
  BY <1>1, <1>9, ExportLeavesAlone
<1> QED
  BY <1>2, <1>4, <1>5, <1>6, <1>7, <1>8, <1>9, InsideSteps DEF Next, WorkerStep

\* Rows, token and run that the next transaction of the worker asks for are there.
THEOREM WorkersAreNeverStuck == SoleWorker => (Spec => []NeverStuck)
<1> SUFFICES ASSUME SoleWorker PROVE Spec => []NeverStuck
  OBVIOUS
<1>1. Init => RunsWait
  BY DEF Init, RunsWait, WaitingEntry
<1>2. TypeOK /\ SlotInv /\ RunsWait /\ [Next]_vars => RunsWait'
  BY RunsWaitStep
<1>3. TypeOK /\ SlotInv /\ RunsWait => NeverStuck
  <2> SUFFICES ASSUME TypeOK, SlotInv, RunsWait, NEW w \in Workers
               PROVE  CanStep(w) \/ AwaitsChild(w)
    BY DEF NeverStuck
  <2>1. /\ pc[w] \in PcStates
        /\ pc[w] \in Executing => Exists(MyTask(w)) /\ IsCurrent(w)
    BY ClaimedExists DEF TypeOK, WorkersOK, SlotInv, HolderInv, TokenIsCurrent, Executing
  <2>2. pc[w] = "start" => \E r \in RunIds : IsPipelineRun(MyTask(w), r)
    <3>1. SUFFICES ASSUME pc[w] = "start" PROVE \E r \in RunIds : IsPipelineRun(MyTask(w), r)
      OBVIOUS
    <3>2. MyTask(w) \in Tasks
      BY <3>1, ClaimedExists
    <3>3. PICK q \in RunIds : runs[MyTask(w)][q] = "pending"
      BY <3>1 DEF RunsWait, RunWaits
    <3>4. \E r \in RunIds : IsLatestRun(MyTask(w), {"pending"}, r)
      BY <3>2, <3>3, LatestRunExists
    <3> QED
      BY <3>3, <3>4 DEF IsPipelineRun
  <2> QED
    BY <2>1, <2>2 DEF CanStep, AwaitsChild, PcStates, Executing
<1> QED
  BY <1>1, <1>2, <1>3, SlotInvariant, PTL DEF Spec

=============================================================================

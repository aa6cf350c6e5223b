---------------------------- MODULE TaskCreation ----------------------------
(***************************************************************************)
(* The search for an open task of the same source, which create_task of    *)
(* backend/app/repositories/tasks.py makes before it takes SQLite's writer *)
(* lock, beside the other ways a task is created, reopened, found to be of *)
(* a video, closed and deleted.                                            *)
(*                                                                         *)
(* The two SELECTs of the search run outside of a transaction (the driver  *)
(* begins none for a read): each is a step of its own and sees what is     *)
(* committed by then.  begin_queue_mutation then waits for the lock, and   *)
(* from there to the commit nobody else writes: one action.                *)
(***************************************************************************)
CONSTANTS
    TaskIds,     \* identifiers a task may be given; none is given twice
    Requests,    \* requests of POST /api/tasks that may be under way at once
    Pages,       \* host and path of a link
    Videos,      \* Bilibili video identifiers
    Links,       \* the links people submit: a page, and a video identifier in
                 \* the text or NoVideo
    LocalFiles,  \* files below the media roots
    NoVideo

ASSUME LinksAssumption == Links \subseteq [page : Pages, video : Videos \cup {NoVideo}]

VARIABLES
    task,     \* the Task table
    request,  \* what each request is about to do, and for which source
    since,    \* history: tasks that could first be found after the search of
              \* the request began
    after     \* history: the same for the request that created the task

vars == <<task, request, since, after>>

-----------------------------------------------------------------------------
(* Sources *)

Source == [kind : {"video"}, of : Videos]
     \cup [kind : {"page"}, of : Pages]
     \cup [kind : {"local"}, of : LocalFiles]

\* A video identifier anywhere in the link decides; otherwise what is left of
\* the link without its query and its fragment.
NormalizeSourceUrl(link) ==
    IF link.video # NoVideo
    THEN [kind |-> "video", of |-> link.video]
    ELSE [kind |-> "page", of |-> link.page]

VideoOf(source) == IF source.kind = "video" THEN source.of ELSE NoVideo

-----------------------------------------------------------------------------
(* Rows *)

Row == [status : {"pending", "running", "terminal"},
        source : Source,
        video : Videos \cup {NoVideo}]
NoRow == [status |-> "absent"]
Deleted == [status |-> "deleted"]

Request == [step : {"idle"}]
      \cup [step : {"search source", "search video", "create"}, source : Source]
Idle == [step |-> "idle"]

Present(t) == task[t].status \notin {"absent", "deleted"}

\* Status.notin_(TERMINAL_STATUSES), of a row that is there.
Open(t) == Present(t) /\ task[t].status # "terminal"

OpenOfSource(s) == {t \in TaskIds : Open(t) /\ task[t].source = s}
OpenOfVideo(v) == {t \in TaskIds : Open(t) /\ task[t].video = v}

\* The tasks that a search for source s finds.
Findable(s) == OpenOfSource(s) \cup (IF s.kind = "video" THEN OpenOfVideo(s.of) ELSE {})

\* Tasks that come to be found from this step on.
Surface(ts) ==
    /\ since' = [r \in Requests |-> since[r] \cup ts]
    /\ after' = [u \in TaskIds |-> after[u] \cup ts]

\* As Surface({t}), of a new task whose search began with "missed" behind it.
SurfaceNew(t, missed) ==
    /\ since' = [r \in Requests |-> since[r] \cup {t}]
    /\ after' = [u \in TaskIds |-> (IF u = t THEN missed ELSE after[u]) \cup {t}]

\* The row, the stages, the job, the queue entry and the run, in one commit.
NewRow(s) == [status |-> "pending", source |-> s, video |-> VideoOf(s)]

Init ==
    /\ task = [t \in TaskIds |-> NoRow]
    /\ request = [r \in Requests |-> Idle]
    /\ since = [r \in Requests |-> {}]
    /\ after = [t \in TaskIds |-> {}]

-----------------------------------------------------------------------------
(* POST /api/tasks *)

Goto(r, step) == request' = [request EXCEPT ![r].step = step]
Answer(r) == request' = [request EXCEPT ![r] = Idle]

Submit(r, link) ==
    /\ request[r].step = "idle"
    /\ request' = [request EXCEPT ![r] =
                     [step |-> "search source", source |-> NormalizeSourceUrl(link)]]
    /\ since' = [since EXCEPT ![r] = {}]
    /\ UNCHANGED <<task, after>>

\* Fault: a task that has started is not found.
SearchQueuedOnly(r) ==
    /\ request[r].step = "search source"
    /\ LET s == request[r].source IN
       IF {t \in OpenOfSource(s) : task[t].status = "pending"} # {} THEN Answer(r)
       ELSE Goto(r, IF s.kind = "video" THEN "search video" ELSE "create")
    /\ since' = [since EXCEPT ![r] = {}]
    /\ UNCHANGED <<task, after>>

\* The first SELECT.  A task that it finds is the answer.
SearchSource(r) ==
    /\ request[r].step = "search source"
    /\ LET s == request[r].source IN
       IF OpenOfSource(s) # {} THEN Answer(r)
       ELSE Goto(r, IF s.kind = "video" THEN "search video" ELSE "create")
    /\ since' = [since EXCEPT ![r] = {}]
    /\ UNCHANGED <<task, after>>

\* The second SELECT, of a link with a video identifier in it.
SearchVideo(r) ==
    /\ request[r].step = "search video"
    /\ IF OpenOfVideo(request[r].source.of) # {} THEN Answer(r) ELSE Goto(r, "create")
    /\ UNCHANGED <<task, since, after>>

\* begin_queue_mutation, the inserts and the commit.
CreateTask(r, t) ==
    /\ request[r].step = "create"
    /\ task[t] = NoRow
    /\ task' = [task EXCEPT ![t] = NewRow(request[r].source)]
    /\ Answer(r)
    /\ SurfaceNew(t, since[r])

\* The writer lock is not free within SQLite's time limit: an error, and no row.
FailToLock(r) ==
    /\ request[r].step = "create"
    /\ Answer(r)
    /\ UNCHANGED <<task, since, after>>

-----------------------------------------------------------------------------
(* POST /api/v2/tasks, which does not search *)

LibrarySources == {s \in Source : s.kind \in {"video", "local"}}

CreateLibraryTask(t, s) ==
    /\ task[t] = NoRow
    /\ task' = [task EXCEPT ![t] = NewRow(s)]
    /\ SurfaceNew(t, TaskIds)
    /\ UNCHANGED request

-----------------------------------------------------------------------------
(* The life of a task *)

\* The worker claims the task or goes on to its next stage.  A clip export may have
\* closed the row under it: no matter, the row is open again.
MarkRunning(t) ==
    /\ Present(t) /\ task[t].status # "running"
    /\ task' = [task EXCEPT ![t].status = "running"]
    /\ Surface(IF Open(t) THEN {} ELSE {t})
    /\ UNCHANGED request

\* An outcome of the worker, the recovery of a stale job, or a failed export.
CloseTask(t) ==
    /\ Open(t)
    /\ task' = [task EXCEPT ![t].status = "terminal"]
    /\ UNCHANGED <<request, since, after>>

\* The download names the video.  The row may be retried or failed under it.
DiscoverVideo(t, v) ==
    /\ Present(t)
    /\ task[t].source.kind # "local"
    /\ task[t].video # v
    /\ task' = [task EXCEPT ![t].video = v]
    /\ Surface(IF Open(t) THEN {t} ELSE {})
    /\ UNCHANGED request

\* Nothing looks for another task of the source.  A running task is retried when
\* its stage has stopped.
RetryTask(t) ==
    /\ Present(t) /\ task[t].status # "pending"
    /\ task' = [task EXCEPT ![t].status = "pending"]
    /\ Surface(IF Open(t) THEN {} ELSE {t})
    /\ UNCHANGED request

DeleteTask(t) ==
    /\ Present(t) /\ task[t].status # "running"
    /\ task' = [task EXCEPT ![t] = Deleted]
    /\ UNCHANGED <<request, since, after>>

Next ==
    \/ \E r \in Requests :
         \/ \E link \in Links : Submit(r, link)
         \/ SearchSource(r)
         \/ SearchVideo(r)
         \/ \E t \in TaskIds : CreateTask(r, t)
         \/ FailToLock(r)
    \/ \E t \in TaskIds :
         \/ \E s \in LibrarySources : CreateLibraryTask(t, s)
         \/ MarkRunning(t)
         \/ CloseTask(t)
         \/ \E v \in Videos : DiscoverVideo(t, v)
         \/ RetryTask(t)
         \/ DeleteTask(t)

Spec == Init /\ [][Next]_vars

-----------------------------------------------------------------------------
(* Properties *)

\* Rows and requests have their type, and the history is one of tasks.
TypeOK ==
    /\ task \in [TaskIds -> Row \cup {NoRow, Deleted}]
    /\ request \in [Requests -> Request]
    /\ since \in [Requests -> SUBSET TaskIds]
    /\ after \in [TaskIds -> SUBSET TaskIds]

\* An open task that POST /api/tasks would have answered with, beside a task it
\* created, could not be found when its search began: it was created, reopened or
\* found to be of the video since then.  A submission is never doubled for any
\* other reason, whatever happened to either task in between (create_task).
TwinsCameAfterTheSearch ==
    \A t \in TaskIds : Present(t) =>
        Findable(task[t].source) \ {t} \subseteq after[t]

=============================================================================

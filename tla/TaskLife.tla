------------------------------ MODULE TaskLife ------------------------------
(***************************************************************************)
(* What the screens promise about a task, with stages, tokens, workers and *)
(* children left out: the status that the task list shows (Task.status),    *)
(* the status of its job (TaskJob.status) and the entry that the queue      *)
(* shows (QueueEntry.state).  They change in different transactions, and    *)
(* nevertheless in this order only: a task waits, is claimed, comes to an   *)
(* outcome, and goes into history with it, until somebody retries or        *)
(* deletes it.  A clip export that fails shows the task as failed at any    *)
(* time, and changes nothing else.                                          *)
(*                                                                         *)
(* TaskPipeline implements this for one worker, crashes included.          *)
(***************************************************************************)
CONSTANT Tasks

VARIABLES
    status,   \* Task.status, "none" before creation, "deleted" after
    work,     \* TaskJob.status
    turn      \* QueueEntry.state, or "absent"

life == <<status, work, turn>>

Outcomes == {"success", "failed", "cancelled"}
Waiting == {"queued", "paused"}

Init ==
    /\ status = [t \in Tasks |-> "none"]
    /\ work = [t \in Tasks |-> "pending"]
    /\ turn = [t \in Tasks |-> "absent"]

Become(t, s, o, q) ==
    /\ status' = [status EXCEPT ![t] = s]
    /\ work' = [work EXCEPT ![t] = o]
    /\ turn' = [turn EXCEPT ![t] = q]

Submit(t) == status[t] = "none" /\ Become(t, "pending", "pending", "queued")

\* Pausing and resuming concern the queue alone.
Hold(t, q) == turn[t] \in Waiting /\ q \in Waiting /\ Become(t, status[t], work[t], q)

\* A claim takes a waiting task and the free slot.
Begin(t) ==
    /\ work[t] = "pending" /\ turn[t] = "queued"
    /\ \A u \in Tasks : turn[u] # "running"
    /\ Become(t, "running", "running", "running")

\* While it works, the worker shows that it does, or an outcome in advance.
Show(t, s) ==
    /\ work[t] = "running" /\ turn[t] = "running"
    /\ s \in {"running", "success", "failed"}
    /\ Become(t, s, "running", "running")

\* Only the task that holds the slot comes to an outcome, and only once.
Settle(t, outcome) ==
    /\ work[t] = "running" /\ turn[t] = "running"
    /\ outcome \in Outcomes
    /\ Become(t, outcome, outcome, "running")

\* It goes into history with its outcome.
Conclude(t) ==
    /\ work[t] \in Outcomes /\ turn[t] = "running"
    /\ Become(t, status[t], work[t], "finished")

\* A task whose worker died before the outcome goes into history as failed.
Recover(t) ==
    /\ work[t] = "running" /\ turn[t] = "running"
    /\ Become(t, "failed", "failed", "finished")

Exists(t) == status[t] \notin {"none", "deleted"}

\* A retry puts a task that is not being worked on at the end of the queue.
Reopen(t) == Exists(t) /\ turn[t] # "running" /\ Become(t, "pending", "pending", "queued")

Remove(t) == Exists(t) /\ turn[t] # "running" /\ Become(t, "deleted", "pending", "absent")

\* A clip export has failed: job and queue do not hear of it.
SpoilStatus(t) ==
    /\ Exists(t)
    /\ status' = [status EXCEPT ![t] = "failed"]
    /\ UNCHANGED <<work, turn>>

Next == \E t \in Tasks :
    \/ Submit(t) \/ Begin(t) \/ Conclude(t) \/ Recover(t) \/ Reopen(t) \/ Remove(t)
    \/ \E q \in Waiting : Hold(t, q)
    \/ \E s \in {"running", "success", "failed"} : Show(t, s)
    \/ \E outcome \in Outcomes : Settle(t, outcome)
    \/ SpoilStatus(t)

Spec == Init /\ [][Next]_life

-----------------------------------------------------------------------------
(* Task list, job and queue contradict each other only by a failed clip     *)
(* export: what waits in the queue is shown as pending, or as failed; the   *)
(* running entry is that of a running job, or of one whose outcome is not   *)
(* in history yet; and what is history there is shown here with the outcome *)
(* of its job, or as failed.                                                *)
ScreensAgree ==
    \A t \in Tasks :
        \/ status[t] \in {"none", "deleted"} /\ turn[t] = "absent"
        \/ turn[t] \in Waiting /\ work[t] = "pending" /\ status[t] \in {"pending", "failed"}
        \/ /\ turn[t] = "running" /\ work[t] = "running"
           /\ status[t] \in {"running", "success", "failed"}
        \/ /\ turn[t] \in {"running", "finished"} /\ work[t] \in Outcomes
           /\ status[t] \in {work[t], "failed"}

(* What is history keeps the outcome of its job, and the status of its task *)
(* but for a failed clip export, until it is retried or deleted.            *)
KeepsHistory ==
    \A t \in Tasks : turn[t] = "finished" =>
        \/ work'[t] = work[t] /\ turn'[t] = turn[t] /\ status'[t] \in {status[t], "failed"}
        \/ status'[t] = "pending" /\ turn'[t] = "queued"
        \/ status'[t] = "deleted" /\ turn'[t] = "absent"
HistoryStands == [][KeepsHistory]_life

=============================================================================

------------------------------ MODULE GpuSlot ------------------------------
(***************************************************************************)
(* What the workstation queue promises to the rest of the system, with     *)
(* ordering, revisions and transactions left out: every task has at most   *)
(* one queue entry, the entry moves between the four states of QueueEntry,  *)
(* and the one GPU is held by at most one entry at a time.                 *)
(*                                                                         *)
(* WorkQueue and TaskPipeline are both shown to implement this             *)
(* specification; the exclusivity theorem is proved once, here.            *)
(***************************************************************************)
EXTENDS FiniteSets, Naturals

CONSTANT Tasks

VARIABLE slot

EntryStates == {"queued", "paused", "running", "finished"}
Waiting == {"queued", "paused"}

Init == slot = [t \in Tasks |-> "absent"]

\* A new entry joins the queue, or a waiting or finished one rejoins it.
Admit(t) ==
    /\ slot[t] # "running"
    /\ slot' = [slot EXCEPT ![t] = "queued"]

\* A waiting entry is paused or resumed.
Park(t, s) ==
    /\ slot[t] \in Waiting
    /\ s \in Waiting
    /\ slot' = [slot EXCEPT ![t] = s]

\* A queued entry takes the GPU, which nobody else may hold.
Acquire(t) ==
    /\ slot[t] = "queued"
    /\ \A u \in Tasks : slot[u] # "running"
    /\ slot' = [slot EXCEPT ![t] = "running"]

\* Entries become history, several of them when one transaction recovers
\* several abandoned jobs.
Release(T) ==
    /\ \A t \in T : slot[t] \in Waiting \cup {"running"}
    /\ slot' = [t \in Tasks |-> IF t \in T THEN "finished" ELSE slot[t]]

\* The row of a task that does not hold the GPU disappears with the task.
Drop(t) ==
    /\ slot[t] \in Waiting \cup {"finished"}
    /\ slot' = [slot EXCEPT ![t] = "absent"]

Next ==
    \/ \E t \in Tasks :
        \/ Admit(t)
        \/ \E s \in Waiting : Park(t, s)
        \/ Acquire(t)
        \/ Drop(t)
    \/ \E T \in SUBSET Tasks : Release(T)

Spec == Init /\ [][Next]_slot

-----------------------------------------------------------------------------
TypeOK == slot \in [Tasks -> EntryStates \cup {"absent"}]

(* At most one queue entry is running: the sole GPU is never claimed twice  *)
(* (claim_next_queue_entry, "Atomically claim the sole GPU queue entry").   *)
Exclusive == \A t, u \in Tasks : slot[t] = "running" /\ slot[u] = "running" => t = u

=============================================================================

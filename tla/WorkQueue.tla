----------------------------- MODULE WorkQueue -----------------------------
(***************************************************************************)
(* The revisioned workstation queue of                                     *)
(* backend/app/services/workstation_queue.py.                              *)
(*                                                                         *)
(* Every mutation of that file runs in one BEGIN IMMEDIATE transaction, so  *)
(* a mutation is one action here.  Reading the queue is not: GET /queue    *)
(* reads the revision and the entries with two statements and no           *)
(* transaction, so a client's view is taken in two steps between which     *)
(* mutations may commit.                                                   *)
(***************************************************************************)
EXTENDS Naturals, FiniteSets

CONSTANTS
    Tasks,         \* task identifiers that may have a queue entry
    Priorities,    \* priorities a task may be created with
    Clients,       \* browsers that look at the queue and reorder it
    MaxRevision    \* bound on the revision counter

ASSUME PrioritiesAssumption == Priorities \subseteq Nat /\ 0 \in Priorities
ASSUME MaxRevisionAssumption == MaxRevision \in Nat \ {0}
ASSUME TasksAssumption == IsFiniteSet(Tasks)

VARIABLES
    rows,       \* the QueueEntry table: one row per task, or NoRow
    revision,   \* QueueState.revision
    view        \* what each client last read of the queue

vars == <<rows, revision, view>>

-----------------------------------------------------------------------------
(* Rows, snapshots and their order *)

EntryStates == {"queued", "paused", "running", "finished"}
Waiting == {"queued", "paused"}

NoRow == [state |-> "absent", priority |-> 0, position |-> 0, created |-> 0]

\* "created" stands for created_at: the revision at which the row was inserted.
Row == [state : EntryStates \cup {"absent"}, priority : Nat, position : Nat, created : Nat]

Present(q) == {t \in Tasks : q[t].state # "absent"}
InState(q, s) == {t \in Tasks : q[t].state = s}

\* The block of the table a state is sorted into.
Block == [running |-> 1, queued |-> 2, paused |-> 3, finished |-> 4]

\* The sort key of _ordered: (-priority, position, created_at).
AheadInLine(r, s) ==
    \/ r.priority > s.priority
    \/ /\ r.priority = s.priority
       /\ \/ r.position < s.position
          \/ r.position = s.position /\ r.created < s.created

\* Row r comes before row s in the order that _normalize_positions numbers.
Precedes(r, s) ==
    \/ Block[r.state] < Block[s.state]
    \/ /\ r.state = s.state
       /\ IF r.state \in Waiting THEN AheadInLine(r, s) ELSE r.created < s.created

\* _normalize_positions: renumber every row 1..n in sorted order.
Normalized(q) ==
    [t \in Tasks |->
        IF t \in Present(q)
        THEN [q[t] EXCEPT !.position =
                 1 + Cardinality({u \in Present(q) : Precedes(q[u], q[t])})]
        ELSE q[t]]

\* What a snapshot says of a row; the active, queued and paused ones are shown.
Item == (EntryStates \cup {"absent"}) \X Nat \X Nat
Hidden == <<"absent", 0, 0>>
Shown(q) == [t \in Tasks |-> IF q[t].state \in {"absent", "finished"}
                             THEN Hidden
                             ELSE <<q[t].state, q[t].priority, q[t].position>>]

Snapshots == [revision : 0..MaxRevision, items : [Tasks -> Item]]
SnapshotOf(q, rev) == [revision |-> rev, items |-> Shown(q)]
Snapshot == SnapshotOf(rows, revision)
EmptySnapshot == [revision |-> 0, items |-> [t \in Tasks |-> Hidden]]

\* Any list of task identifiers a client may send as the new order.
Orders == UNION {[1..n -> Tasks] : n \in 0..Cardinality(Tasks)}
ListedIn(order) == {order[i] : i \in DOMAIN order}
HasDuplicates(order) == Cardinality(ListedIn(order)) # Cardinality(DOMAIN order)
RankIn(order, t) == CHOOSE i \in DOMAIN order : order[i] = t

-----------------------------------------------------------------------------
Init ==
    /\ rows = [t \in Tasks |-> NoRow]
    /\ revision = 1
    /\ view = [c \in Clients |-> [stage |-> "none", snap |-> EmptySnapshot]]

\* What every mutation ends with: _normalize_positions and _increment_and_snapshot.
\* The mutation is one transaction under BEGIN IMMEDIATE, and one step.
Settle(q) ==
    /\ revision < MaxRevision
    /\ rows' = Normalized(q)
    /\ revision' = revision + 1

WaitingCount(q) == Cardinality({t \in Tasks : q[t].state \in Waiting})

\* Fault: the new position is the number of waiting rows, not one past it.
EnqueueOffByOne(t, priority) ==
    /\ rows[t] = NoRow
    /\ Settle([rows EXCEPT ![t] = [state |-> "queued",
                                    priority |-> priority,
                                    position |-> WaitingCount(rows),
                                    created |-> revision + 1]])
    /\ UNCHANGED view

EnqueueTask(t, priority) ==
    /\ rows[t] = NoRow
    /\ Settle([rows EXCEPT ![t] = [state |-> "queued",
                                    priority |-> priority,
                                    position |-> WaitingCount(rows) + 1,
                                    created |-> revision + 1]])
    /\ UNCHANGED view

\* The row is already "queued" when the waiting rows are counted, because the
\* session flushes before it queries.
RequeuedRows(t) ==
    LET queued == [rows EXCEPT ![t].state = "queued"]
    IN  [queued EXCEPT ![t].position = WaitingCount(queued) + 1]

\* Fault: requeue_task forgets that a running row is a conflict.
RequeueRunning(t) ==
    /\ rows[t] # NoRow
    /\ Settle(RequeuedRows(t))
    /\ UNCHANGED view

\* A missing row is enqueued instead (EnqueueTask); a running one is a conflict.
RequeueTask(t) ==
    /\ rows[t].state \in Waiting \cup {"finished"}
    /\ Settle(RequeuedRows(t))
    /\ UNCHANGED view

\* Fault: pause and resume keep the revision.
PauseSilently(t, s) ==
    /\ rows[t].state \in Waiting
    /\ rows' = Normalized([rows EXCEPT ![t].state = s])
    /\ UNCHANGED <<revision, view>>

SetQueueState(t, s) ==
    /\ rows[t].state \in Waiting
    /\ Settle([rows EXCEPT ![t].state = s])
    /\ UNCHANGED view

\* The row ORDER BY priority DESC, position ASC, created_at ASC picks.
FirstQueued(t) ==
    /\ rows[t].state = "queued"
    /\ \A u \in InState(rows, "queued") \ {t} : AheadInLine(rows[t], rows[u])

ClaimNextQueueEntry(t) ==
    /\ InState(rows, "running") = {}
    /\ FirstQueued(t)
    /\ Settle([rows EXCEPT ![t].state = "running"])
    /\ UNCHANGED view

\* Fault: the row is given the task's status instead of an entry state.
FinishWithTaskStatus(t) ==
    /\ rows[t].state \in Waiting \cup {"running"}
    /\ revision < MaxRevision
    /\ rows' = [rows EXCEPT ![t].state = "success"]
    /\ UNCHANGED <<revision, view>>

FinishQueueEntry(t) ==
    /\ rows[t].state \notin {"absent", "finished"}
    /\ Settle([rows EXCEPT ![t].state = "finished"])
    /\ UNCHANGED view

\* Fault: a deletion leaves the other rows' positions alone.
DeleteWithoutNormalizing(t) ==
    /\ rows[t].state \in Waiting \cup {"finished"}
    /\ revision < MaxRevision
    /\ rows' = [rows EXCEPT ![t] = NoRow]
    /\ revision' = revision + 1
    /\ UNCHANGED view

\* Fault: a deletion renumbers the other rows from their age.
DeleteRenumberingByAge(t) ==
    /\ rows[t].state \in Waiting \cup {"finished"}
    /\ Settle([u \in Tasks |-> IF u = t THEN NoRow
                                ELSE [rows[u] EXCEPT !.position = rows[u].created]])
    /\ UNCHANGED view

\* apply_task_bulk_mutation refuses to delete a task whose row is running.
DeleteQueueEntry(t) ==
    /\ rows[t].state \in Waiting \cup {"finished"}
    /\ Settle([rows EXCEPT ![t] = NoRow])
    /\ UNCHANGED view

-----------------------------------------------------------------------------
(* Clients: two-step reads, and reorders carrying the revision they saw *)

ReadRevision(c) ==
    /\ view' = [view EXCEPT ![c] = [stage |-> "revision",
                                    snap |-> [EmptySnapshot EXCEPT !.revision = revision]]]
    /\ UNCHANGED <<rows, revision>>

ReadEntries(c) ==
    /\ view[c].stage = "revision"
    /\ view' = [view EXCEPT ![c].stage = "full", ![c].snap.items = Shown(rows)]
    /\ UNCHANGED <<rows, revision>>

ReorderIsCurrent(c, order) ==
    /\ view[c].snap.revision = revision
    /\ ~HasDuplicates(order)
    /\ ListedIn(order) = InState(rows, "queued")

\* Fault: the new positions are not flushed before normalisation reads them.
AcceptWithoutFlush(c, order) ==
    /\ view[c].stage = "full"
    /\ ReorderIsCurrent(c, order)
    /\ Settle(rows)
    /\ view' = [view EXCEPT ![c].snap = SnapshotOf(rows', revision')]

\* PUT /queue/order accepted: positions follow the list, then are normalised.
AcceptReorder(c, order) ==
    /\ view[c].stage = "full"
    /\ ReorderIsCurrent(c, order)
    /\ Settle([t \in Tasks |->
                    IF t \in ListedIn(order)
                    THEN [rows[t] EXCEPT !.position = RankIn(order, t)]
                    ELSE rows[t]])
    /\ view' = [view EXCEPT ![c].snap = SnapshotOf(rows', revision')]

\* PUT /queue/order rejected: 409 with the authoritative snapshot.
RejectReorder(c, order) ==
    /\ view[c].stage = "full"
    /\ ~ReorderIsCurrent(c, order)
    /\ view' = [view EXCEPT ![c].snap = Snapshot]
    /\ UNCHANGED <<rows, revision>>

-----------------------------------------------------------------------------
Mutate(t) ==
    \/ \E p \in Priorities : EnqueueTask(t, p)
    \/ RequeueTask(t)
    \/ \E s \in Waiting : SetQueueState(t, s)
    \/ ClaimNextQueueEntry(t)
    \/ FinishQueueEntry(t)
    \/ DeleteQueueEntry(t)

Browse(c) ==
    \/ ReadRevision(c)
    \/ ReadEntries(c)
    \/ \E order \in Orders : AcceptReorder(c, order)
    \/ \E order \in Orders : RejectReorder(c, order)

Next ==
    \/ \E t \in Tasks : Mutate(t)
    \/ \E c \in Clients : Browse(c)

Spec == Init /\ [][Next]_vars

-----------------------------------------------------------------------------
\* A client's view is empty, has only the revision, or has both halves.
TypeOK ==
    /\ rows \in [Tasks -> Row]
    /\ revision \in 0..MaxRevision
    /\ view \in [Clients -> [stage : {"none", "revision", "full"}, snap : Snapshots]]

(* Properties *)

\* The states of the rows are what GpuSlot knows of the queue.
SlotOf == [t \in Tasks |-> rows[t].state]

Slot == INSTANCE GpuSlot WITH slot <- SlotOf

(* The queue implements the abstract GPU slot: no operation of the file,    *)
(* whatever the interleaving, takes the running row back to the queue,      *)
(* claims a second one, or resurrects a finished one other than by requeue. *)
ImplementsGpuSlot == Slot!Spec

(* claim_next_queue_entry leaves at most one running row, whoever claims.   *)
OneRunningEntry == Slot!Exclusive

(* _normalize_positions: after every mutation the positions are 1..n with   *)
(* no gap or tie, and follow the blocks running, queued, paused, finished,  *)
(* and the priorities inside a waiting block.                               *)
PositionsAreRanks ==
    /\ {rows[t].position : t \in Present(rows)} = 1..Cardinality(Present(rows))
    /\ \A t, u \in Present(rows) :
        rows[t].position < rows[u].position =>
            \/ Block[rows[t].state] < Block[rows[u].state]
            \/ /\ rows[t].state = rows[u].state
               /\ rows[t].state \in Waiting => rows[t].priority >= rows[u].priority

(* Optimistic concurrency: whoever holds the current revision has seen the  *)
(* current queue, although GET /queue reads the two in separate statements. *)
(* It is what makes the revision test of reorder_queue sufficient.          *)
CurrentRevisionIsCurrentQueue ==
    \A c \in Clients :
        view[c].stage = "full" /\ view[c].snap.revision = revision
            => view[c].snap.items = Shown(rows)

(* enqueue_task, requeue_task and a resume put the task behind every task   *)
(* of its priority that was already queued ("at the back of the waiting     *)
(* queue"), although they compute the position from a count of rows.        *)
BackOfTheLine ==
    [][\A t, u \in Tasks :
          /\ rows[t].state # "queued" /\ rows'[t].state = "queued"
          /\ rows[u].state = "queued" /\ rows'[u].state = "queued"
          /\ rows'[t].priority = rows'[u].priority
          => rows'[u].position < rows'[t].position]_vars

(* Two tasks that stay queued swap places only when a client's reorder is   *)
(* accepted or one of them is requeued: claims, pauses, deletions and       *)
(* arrivals elsewhere never reshuffle the line.                             *)
LineIsStable ==
    [][\A t, u \in InState(rows, "queued") \cap InState(rows', "queued") :
          \/ (rows[t].position < rows[u].position) = (rows'[t].position < rows'[u].position)
          \/ \E v \in {t, u} : RequeueTask(v)
          \/ \E c \in Clients, order \in Orders : AcceptReorder(c, order)]_vars

(* reorder_queue: "Replace queued ordering if the caller's revision and     *)
(* task set are current": after an accepted reorder the queued rows of each *)
(* priority are in the order the client sent.  Across priorities they are   *)
(* not: _normalize_positions, called next, sorts by priority first.         *)
ReorderIsHonoured ==
    [][\A c \in Clients, order \in Orders :
          AcceptReorder(c, order) =>
              \A i, j \in DOMAIN order :
                  i < j /\ rows[order[i]].priority = rows[order[j]].priority
                      => rows'[order[i]].position < rows'[order[j]].position]_vars

=============================================================================

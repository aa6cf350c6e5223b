-------------------------- MODULE WorkQueueProofs --------------------------
(***************************************************************************)
(* Proofs about WorkQueue, for any tasks, clients, priorities and bound:   *)
(* type correctness, the refinement of GpuSlot with the exclusivity that   *)
(* follows from it, soundness of the revision test of reorder_queue, and   *)
(* the positions: what they are after every mutation, and who may change   *)
(* the line.                                                               *)
(***************************************************************************)
EXTENDS WorkQueue, FiniteSetTheorems, TLAPS

SlotFacts == INSTANCE GpuSlotProofs WITH slot <- SlotOf

-----------------------------------------------------------------------------
(* What the helpers return *)

(* Positions are natural numbers: any set of tasks can be counted.         *)
LEMMA CountIsNat ==
    ASSUME NEW S \in SUBSET Tasks
    PROVE  Cardinality(S) \in Nat
BY TasksAssumption, FS_Subset, FS_CardinalityType

(* _normalize_positions rewrites positions only.                           *)
LEMMA NormalizedRows ==
    ASSUME NEW q \in [Tasks -> Row]
    PROVE  /\ Normalized(q) \in [Tasks -> Row]
           /\ \A t \in Tasks : Normalized(q)[t].state = q[t].state
<1>1. ASSUME NEW t \in Tasks
      PROVE  Normalized(q)[t] \in Row /\ Normalized(q)[t].state = q[t].state
  <2> DEFINE Ahead == {u \in Present(q) : Precedes(q[u], q[t])}
  <2>1. Ahead \in SUBSET Tasks
    BY DEF Present
  <2>2. Cardinality(Ahead) \in Nat
    BY <2>1, CountIsNat
  <2>3. q[t] \in Row
    OBVIOUS
  <2>4. \/ Normalized(q)[t] = q[t]
        \/ Normalized(q)[t] = [q[t] EXCEPT !.position = 1 + Cardinality(Ahead)]
    BY DEF Normalized
  <2> HIDE DEF Ahead
  <2> QED  BY <2>2, <2>3, <2>4 DEF Row
<1>2. Normalized(q) = [t \in Tasks |-> Normalized(q)[t]]
  BY DEF Normalized
<1> QED  BY <1>1, <1>2

(* A snapshot shows an item for every task.                                *)
LEMMA SnapshotType ==
    ASSUME NEW q \in [Tasks -> Row], NEW rev \in 0..MaxRevision
    PROVE  SnapshotOf(q, rev) \in Snapshots
<1>1. Shown(q) \in [Tasks -> Item]
  BY DEF Shown, Item, Hidden, Row
<1> QED  BY <1>1 DEF SnapshotOf, Snapshots

(* What every mutation ends with: rows of the same states, one revision    *)
(* later.                                                                  *)
LEMMA SettledRows ==
    ASSUME revision \in 0..MaxRevision, NEW q \in [Tasks -> Row], Settle(q)
    PROVE  /\ rows' \in [Tasks -> Row]
           /\ \A t \in Tasks : rows'[t].state = q[t].state
           /\ revision' = revision + 1
           /\ revision' \in 0..MaxRevision
<1>1. rows' = Normalized(q)
  BY DEF Settle
<1>2. rows' \in [Tasks -> Row] /\ \A t \in Tasks : rows'[t].state = q[t].state
  BY <1>1, NormalizedRows
<1>3. revision' = revision + 1 /\ revision' \in 0..MaxRevision
  BY MaxRevisionAssumption DEF Settle
<1> QED  BY <1>2, <1>3

-----------------------------------------------------------------------------
(* Every mutation leaves rows that differ from the old ones as its         *)
(* operation says.                                                         *)

(* One mutation of the queue, seen through the states it leaves behind.    *)
Mutation(q) ==
    /\ q \in [Tasks -> Row]
    /\ Settle(q)
    /\ UNCHANGED view

(* EnqueueTask leaves one more queued row.                                 *)
LEMMA EnqueueMutates ==
    ASSUME TypeOK, NEW t \in Tasks, NEW p \in Priorities, EnqueueTask(t, p)
    PROVE  \E q : Mutation(q) /\ \A u \in Tasks :
               q[u].state = IF u = t THEN "queued" ELSE rows[u].state
<1> DEFINE new == [state |-> "queued", priority |-> p,
                   position |-> WaitingCount(rows) + 1, created |-> revision + 1]
           q == [rows EXCEPT ![t] = new]
<1>1. WaitingCount(rows) \in Nat
  BY CountIsNat DEF WaitingCount
<1>2. new \in Row
  BY <1>1, PrioritiesAssumption, MaxRevisionAssumption DEF TypeOK, Row, EntryStates
<1>3. q \in [Tasks -> Row]
  BY <1>2 DEF TypeOK
<1>4. Settle(q) /\ UNCHANGED view
  BY DEF EnqueueTask
<1>5. \A u \in Tasks : q[u].state = IF u = t THEN "queued" ELSE rows[u].state
  BY DEF TypeOK
<1> QED  BY <1>3, <1>4, <1>5 DEF Mutation

(* RequeueTask leaves rows in which a row that was not running is          *)
(* queued.                                                                 *)
LEMMA RequeueMutates ==
    ASSUME TypeOK, NEW t \in Tasks, RequeueTask(t)
    PROVE  /\ rows[t].state # "running"
           /\ \E q : Mutation(q) /\ \A u \in Tasks :
                  q[u].state = IF u = t THEN "queued" ELSE rows[u].state
<1> DEFINE queued == [rows EXCEPT ![t].state = "queued"]
           q == RequeuedRows(t)
<1>1. queued \in [Tasks -> Row]
  BY DEF TypeOK, Row, EntryStates
<1>2. WaitingCount(queued) \in Nat
  BY CountIsNat DEF WaitingCount
<1>3. q = [queued EXCEPT ![t].position = WaitingCount(queued) + 1]
  BY DEF RequeuedRows
<1>4. q \in [Tasks -> Row] /\ \A u \in Tasks : q[u].state = queued[u].state
  <2> HIDE DEF q, queued
  <2> QED  BY <1>1, <1>2, <1>3 DEF Row
<1>5. \A u \in Tasks : queued[u].state = IF u = t THEN "queued" ELSE rows[u].state
  BY DEF TypeOK, Row
<1>6. Settle(q) /\ UNCHANGED view /\ rows[t].state \in Waiting \cup {"finished"}
  BY DEF RequeueTask
<1>7. rows[t].state # "running"
  BY <1>6 DEF Waiting
<1> HIDE DEF q, queued
<1> QED  BY <1>4, <1>5, <1>6, <1>7 DEF Mutation

(* Setting the state of a row is a mutation.                               *)
LEMMA SettingStateMutates ==
    ASSUME TypeOK, NEW t \in Tasks, NEW s \in EntryStates,
           Settle([rows EXCEPT ![t].state = s]), UNCHANGED view
    PROVE  \E q : Mutation(q) /\ \A u \in Tasks :
               q[u].state = IF u = t THEN s ELSE rows[u].state
<1> DEFINE q == [rows EXCEPT ![t].state = s]
<1>1. q \in [Tasks -> Row]
  BY DEF TypeOK, Row
<1>2. \A u \in Tasks : q[u].state = IF u = t THEN s ELSE rows[u].state
  BY DEF TypeOK, Row
<1> QED  BY <1>1, <1>2 DEF Mutation

(* DeleteQueueEntry leaves the rows without the deleted one.               *)
LEMMA DeleteMutates ==
    ASSUME TypeOK, NEW t \in Tasks, DeleteQueueEntry(t)
    PROVE  \E q : Mutation(q) /\ \A u \in Tasks :
               q[u].state = IF u = t THEN "absent" ELSE rows[u].state
<1> DEFINE q == [rows EXCEPT ![t] = NoRow]
<1>1. q \in [Tasks -> Row]
  BY DEF TypeOK, Row, NoRow
<1>2. \A u \in Tasks : q[u].state = IF u = t THEN "absent" ELSE rows[u].state
  BY DEF TypeOK, NoRow
<1> QED  BY <1>1, <1>2 DEF Mutation, DeleteQueueEntry

(* An accepted reorder gives the listed rows their rank as position.       *)
LEMMA ReorderMutates ==
    ASSUME TypeOK, NEW c \in Clients, NEW order \in Orders, AcceptReorder(c, order)
    PROVE  \E q \in [Tasks -> Row] :
               Settle(q) /\ \A u \in Tasks : q[u].state = rows[u].state
<1> DEFINE q == [t \in Tasks |-> IF t \in ListedIn(order)
                                 THEN [rows[t] EXCEPT !.position = RankIn(order, t)]
                                 ELSE rows[t]]
<1>1. Settle(q)
  BY DEF AcceptReorder
<1>2. ASSUME NEW t \in Tasks, t \in ListedIn(order)
      PROVE  RankIn(order, t) \in Nat
  <2>1. PICK n \in 0..Cardinality(Tasks) : order \in [1..n -> Tasks]
    BY DEF Orders
  <2>2. Cardinality(Tasks) \in Nat
    BY CountIsNat
  <2>3. \E i \in DOMAIN order : order[i] = t
    BY <1>2 DEF ListedIn
  <2>4. RankIn(order, t) \in DOMAIN order
    BY <2>3 DEF RankIn
  <2> QED  BY <2>1, <2>2, <2>4
<1>3. ASSUME NEW t \in Tasks
      PROVE  q[t] \in Row /\ q[t].state = rows[t].state
  <2>1. rows[t] \in Row
    BY DEF TypeOK
  <2>2. CASE t \in ListedIn(order)
    BY <1>2, <2>1, <2>2 DEF Row
  <2>3. CASE t \notin ListedIn(order)
    BY <2>1, <2>3
  <2> QED  BY <2>2, <2>3
<1>4. q \in [Tasks -> Row]
  BY <1>3
<1> HIDE DEF q
<1> QED  BY <1>1, <1>3, <1>4

-----------------------------------------------------------------------------
(* Refinement of the GPU slot *)

(* Rows that differ in one state move the slot in one place.               *)
LEMMA SlotMoves ==
    ASSUME NEW q, Mutation(q), TypeOK, NEW t \in Tasks, NEW s,
           \A u \in Tasks : q[u].state = IF u = t THEN s ELSE rows[u].state
    PROVE  SlotOf' = [SlotOf EXCEPT ![t] = s]
<1>1. \A u \in Tasks : rows'[u].state = q[u].state
  BY SettledRows DEF Mutation, TypeOK
<1>2. \A u \in Tasks : rows'[u].state = IF u = t THEN s ELSE rows[u].state
  BY <1>1
<1> QED  BY <1>2 DEF SlotOf

(* Every operation of workstation_queue.py is a step of the GPU slot.      *)
LEMMA MutateIsSlotStep ==
    ASSUME TypeOK, NEW t \in Tasks, Mutate(t)
    PROVE  (\E q : Mutation(q)) /\ Slot!Next
<1> DEFINE Moves(s) == \E q : Mutation(q) /\ \A u \in Tasks :
                           q[u].state = IF u = t THEN s ELSE rows[u].state
<1>1. ASSUME NEW s, Moves(s)
      PROVE  (\E q : Mutation(q)) /\ SlotOf' = [SlotOf EXCEPT ![t] = s]
  BY <1>1, SlotMoves
<1>2. SlotOf = [u \in Tasks |-> rows[u].state] /\ SlotOf[t] = rows[t].state
  BY DEF SlotOf
<1>3. rows[t] \in Row
  BY DEF TypeOK
<1>4. ASSUME NEW p \in Priorities, EnqueueTask(t, p)
      PROVE  (\E q : Mutation(q)) /\ Slot!Next
  <2>1. Moves("queued")
    BY <1>4, EnqueueMutates
  <2>2. rows[t].state # "running"
    BY <1>4 DEF EnqueueTask, NoRow
  <2>3. Slot!Admit(t)
    BY <1>1, <1>2, <2>1, <2>2 DEF Slot!Admit, SlotOf
  <2> QED  BY <2>1, <2>3 DEF Slot!Next
<1>5. CASE RequeueTask(t)
  <2>1. Moves("queued") /\ rows[t].state # "running"
    BY <1>5, RequeueMutates
  <2>2. Slot!Admit(t)
    BY <1>1, <1>2, <2>1 DEF Slot!Admit, SlotOf
  <2> QED  BY <2>1, <2>2 DEF Slot!Next
<1>6. ASSUME NEW s \in Waiting, SetQueueState(t, s)
      PROVE  (\E q : Mutation(q)) /\ Slot!Next
  <2>1. Moves(s)
    <3>1. s \in EntryStates
      BY DEF Waiting, EntryStates
    <3>2. Settle([rows EXCEPT ![t].state = s]) /\ UNCHANGED view
      BY <1>6 DEF SetQueueState
    <3> QED  BY <3>1, <3>2, SettingStateMutates
  <2>2. Slot!Park(t, s) /\ s \in Slot!Waiting
    BY <1>1, <1>2, <1>6, <2>1 DEF Slot!Park, Slot!Waiting, SetQueueState, Waiting, SlotOf
  <2> QED  BY <2>1, <2>2 DEF Slot!Next
<1>7. CASE ClaimNextQueueEntry(t)
  <2>1. Moves("running")
    BY <1>7, SettingStateMutates DEF ClaimNextQueueEntry, EntryStates
  <2>2. rows[t].state = "queued" /\ \A u \in Tasks : rows[u].state # "running"
    BY <1>7 DEF ClaimNextQueueEntry, FirstQueued, InState
  <2>3. Slot!Acquire(t)
    BY <1>1, <1>2, <2>1, <2>2 DEF Slot!Acquire, SlotOf
  <2> QED  BY <2>1, <2>3 DEF Slot!Next
<1>8. CASE FinishQueueEntry(t)
  <2>1. Moves("finished")
    BY <1>8, SettingStateMutates DEF FinishQueueEntry, EntryStates
  <2>2. rows[t].state \in {"queued", "paused", "running"}
    BY <1>3, <1>8 DEF FinishQueueEntry, Row, EntryStates
  <2>3. Slot!Release({t})
    BY <1>1, <1>2, <2>1, <2>2 DEF Slot!Release, Slot!Waiting, SlotOf
  <2> QED  BY <2>1, <2>3 DEF Slot!Next
<1>9. CASE DeleteQueueEntry(t)
  <2>1. Moves("absent")
    BY <1>9, DeleteMutates
  <2>2. Slot!Drop(t)
    BY <1>1, <1>2, <1>9, <2>1 DEF Slot!Drop, Slot!Waiting, DeleteQueueEntry, Waiting, SlotOf
  <2> QED  BY <2>1, <2>2 DEF Slot!Next
<1> QED  BY <1>4, <1>5, <1>6, <1>7, <1>8, <1>9 DEF Mutate

-----------------------------------------------------------------------------
(* Type correctness *)

(* The queue starts in its type.                                           *)
LEMMA InitIsTyped == Init => TypeOK
<1> SUFFICES ASSUME Init PROVE TypeOK
  OBVIOUS
<1>1. rows \in [Tasks -> Row]
  BY DEF Init, NoRow, Row
<1>2. 0 \in 0..MaxRevision /\ 1 \in 0..MaxRevision
  BY MaxRevisionAssumption
<1>3. EmptySnapshot \in Snapshots
  BY <1>2 DEF EmptySnapshot, Snapshots, Hidden, Item
<1> QED  BY <1>1, <1>2, <1>3 DEF Init, TypeOK

(* Every step of the queue and its clients keeps the type.                 *)
LEMMA StepKeepsType ==
    ASSUME TypeOK, [Next]_vars
    PROVE  TypeOK'
<1>1. rows \in [Tasks -> Row] /\ revision \in 0..MaxRevision
  BY DEF TypeOK
<1>2. ASSUME NEW t \in Tasks, Mutate(t) PROVE TypeOK'
  <2>1. PICK q : Mutation(q)
    BY <1>2, MutateIsSlotStep
  <2> QED  BY <1>1, <2>1, SettledRows DEF Mutation, TypeOK
<1>3. ASSUME NEW c \in Clients, ReadRevision(c) PROVE TypeOK'
  <2>1. [EmptySnapshot EXCEPT !.revision = revision] \in Snapshots
    BY <1>1 DEF EmptySnapshot, Snapshots, Hidden, Item
  <2> QED  BY <1>3, <2>1 DEF ReadRevision, TypeOK
<1>4. ASSUME NEW c \in Clients, ReadEntries(c) PROVE TypeOK'
  <2>1. Shown(rows) \in [Tasks -> Item]
    BY <1>1, SnapshotType DEF SnapshotOf, Snapshots
  <2>2. view[c] \in [stage : {"none", "revision", "full"}, snap : Snapshots]
    BY DEF TypeOK
  <2>3. [view[c] EXCEPT !.stage = "full", !.snap.items = Shown(rows)]
          \in [stage : {"none", "revision", "full"}, snap : Snapshots]
    BY <2>1, <2>2 DEF Snapshots
  <2>4. view' = [view EXCEPT ![c] = [view[c] EXCEPT !.stage = "full", !.snap.items = Shown(rows)]]
    BY <1>4 DEF ReadEntries, TypeOK
  <2> QED  BY <1>4, <2>3, <2>4 DEF ReadEntries, TypeOK
<1>5. ASSUME NEW c \in Clients, NEW order \in Orders, AcceptReorder(c, order) PROVE TypeOK'
  <2>1. /\ rows' \in [Tasks -> Row]
        /\ revision' \in 0..MaxRevision
    BY <1>1, <1>5, ReorderMutates, SettledRows
  <2>2. SnapshotOf(rows', revision') \in Snapshots
    BY <2>1, SnapshotType
  <2> QED  BY <1>5, <2>1, <2>2 DEF AcceptReorder, TypeOK
<1>6. ASSUME NEW c \in Clients, NEW order \in Orders, RejectReorder(c, order) PROVE TypeOK'
  <2>1. Snapshot \in Snapshots
    BY <1>1, SnapshotType DEF Snapshot
  <2> QED  BY <1>6, <2>1 DEF RejectReorder, TypeOK
<1>7. CASE UNCHANGED vars
  BY <1>7 DEF vars, TypeOK
<1> QED  BY <1>2, <1>3, <1>4, <1>5, <1>6, <1>7 DEF Next, Browse

(* The table, the revision and every client's view keep their types.       *)
THEOREM TypeCorrect == Spec => []TypeOK
BY InitIsTyped, StepKeepsType, PTL DEF Spec

-----------------------------------------------------------------------------
(* The GPU slot *)

(* Every step of WorkQueue is a step or a stutter of GpuSlot: the queue    *)
(* takes no running row back, claims no second one and finishes no row     *)
(* twice, whatever the clients do.                                         *)
THEOREM QueueImplementsGpuSlot == Spec => ImplementsGpuSlot
<1>1. Init => Slot!Init
  BY DEF Init, Slot!Init, NoRow, SlotOf
<1>2. TypeOK /\ [Next]_vars => [Slot!Next]_SlotOf
  <2> SUFFICES ASSUME TypeOK, [Next]_vars PROVE Slot!Next \/ SlotOf' = SlotOf
    BY DEF SlotOf
  <2>1. ASSUME NEW t \in Tasks, Mutate(t) PROVE Slot!Next
    BY <2>1, MutateIsSlotStep
  <2>2. ASSUME NEW c \in Clients, Browse(c) PROVE SlotOf' = SlotOf
    <3>1. ASSUME NEW order \in Orders, AcceptReorder(c, order) PROVE SlotOf' = SlotOf
      <4>1. PICK q \in [Tasks -> Row] :
              Settle(q) /\ \A u \in Tasks : q[u].state = rows[u].state
        BY <3>1, ReorderMutates
      <4>2. \A u \in Tasks : rows'[u].state = rows[u].state
        BY <4>1, SettledRows DEF TypeOK
      <4> QED  BY <4>2 DEF SlotOf
    <3>2. UNCHANGED rows => SlotOf' = SlotOf
      BY DEF SlotOf
    <3> QED
      BY <2>2, <3>1, <3>2 DEF Browse, ReadRevision, ReadEntries, RejectReorder
  <2>3. CASE UNCHANGED vars
    BY <2>3 DEF vars, SlotOf
  <2> QED  BY <2>1, <2>2, <2>3 DEF Next
<1> QED  BY <1>1, <1>2, TypeCorrect, PTL DEF Spec, ImplementsGpuSlot, Slot!Spec

(* claim_next_queue_entry leaves at most one running row: what GpuSlot      *)
(* promises, the queue keeps.                                              *)
THEOREM QueueIsExclusive == Spec => []OneRunningEntry
<1>1. Slot!Init <=> SlotFacts!Init
  BY DEF Slot!Init, SlotFacts!Init
<1>2. Slot!Next <=> SlotFacts!Next
  BY DEF Slot!Next, SlotFacts!Next, Slot!Admit, SlotFacts!Admit, Slot!Park, SlotFacts!Park,
         Slot!Acquire, SlotFacts!Acquire, Slot!Release, SlotFacts!Release,
         Slot!Drop, SlotFacts!Drop, Slot!Waiting, SlotFacts!Waiting
<1>3. Slot!Exclusive <=> SlotFacts!Exclusive
  BY DEF Slot!Exclusive, SlotFacts!Exclusive
<1> QED
  BY <1>1, <1>2, <1>3, SlotFacts!SlotIsExclusive, QueueImplementsGpuSlot, PTL
  DEF ImplementsGpuSlot, OneRunningEntry, Slot!Spec, SlotFacts!Spec

-----------------------------------------------------------------------------
(* Revisions *)

(* No client knows a later revision than the table's: the strengthening    *)
(* that makes the next theorem inductive, for a step that raises the       *)
(* revision leaves every other view behind.                                *)
NoViewIsAhead == \A c \in Clients : view[c].snap.revision <= revision

ViewsAreSound == NoViewIsAhead /\ CurrentRevisionIsCurrentQueue

(* Every step keeps views sound; a mutation does because all views become  *)
(* outdated, a client step because it reads under the revision it has.     *)
LEMMA StepKeepsViewsSound ==
    ASSUME TypeOK, ViewsAreSound, [Next]_vars
    PROVE  ViewsAreSound'
<1> USE DEF ViewsAreSound, NoViewIsAhead, CurrentRevisionIsCurrentQueue
<1>1. /\ rows \in [Tasks -> Row] /\ revision \in 0..MaxRevision
      /\ view \in [Clients -> [stage : {"none", "revision", "full"}, snap : Snapshots]]
      /\ \A c \in Clients : view[c].snap.revision \in Nat
  BY MaxRevisionAssumption DEF TypeOK, Snapshots
<1>2. ASSUME NEW t \in Tasks, Mutate(t) PROVE ViewsAreSound'
  <2>1. PICK q : Mutation(q)
    BY <1>2, MutateIsSlotStep
  <2>2. revision' = revision + 1 /\ view' = view
    BY <1>1, <2>1, SettledRows DEF Mutation
  <2>3. \A c \in Clients : view[c].snap.revision < revision'
    BY <1>1, <2>2
  <2> QED  BY <1>1, <2>2, <2>3
<1>3. ASSUME NEW c \in Clients, ReadRevision(c) PROVE ViewsAreSound'
  <2>1. view'[c].stage = "revision" /\ view'[c].snap.revision = revision
    BY <1>1, <1>3 DEF ReadRevision, EmptySnapshot
  <2>2. \A d \in Clients \ {c} : view'[d] = view[d]
    BY <1>1, <1>3 DEF ReadRevision
  <2> QED  BY <1>1, <1>3, <2>1, <2>2 DEF ReadRevision
<1>4. ASSUME NEW c \in Clients, ReadEntries(c) PROVE ViewsAreSound'
  <2>1. /\ view'[c].snap.revision = view[c].snap.revision
        /\ view'[c].snap.items = Shown(rows)
    BY <1>1, <1>4 DEF ReadEntries, Snapshots
  <2>2. \A d \in Clients \ {c} : view'[d] = view[d]
    BY <1>1, <1>4 DEF ReadEntries
  <2> QED  BY <1>1, <1>4, <2>1, <2>2 DEF ReadEntries
<1>5. ASSUME NEW c \in Clients, NEW order \in Orders, AcceptReorder(c, order)
      PROVE  ViewsAreSound'
  <2>1. revision' = revision + 1
    BY <1>1, <1>5, ReorderMutates, SettledRows
  <2>2. view'[c].snap.revision = revision' /\ view'[c].snap.items = Shown(rows')
    BY <1>1, <1>5 DEF AcceptReorder, SnapshotOf
  <2>3. \A d \in Clients \ {c} : view'[d] = view[d]
    BY <1>1, <1>5 DEF AcceptReorder
  <2>4. \A d \in Clients \ {c} : view'[d].snap.revision < revision'
    BY <1>1, <2>1, <2>3
  <2>5. NoViewIsAhead'
    <3>1. revision \in Nat /\ revision' \in Nat
      BY <1>1, <2>1, MaxRevisionAssumption
    <3>2. ASSUME NEW d \in Clients, d # c PROVE view'[d].snap.revision <= revision'
      BY <1>1, <2>3, <2>4, <3>1, <3>2
    <3>3. view'[c].snap.revision <= revision'
      BY <2>2, <3>1
    <3> QED  BY <3>2, <3>3
  <2>6. CurrentRevisionIsCurrentQueue'
    BY <1>1, <2>1, <2>2, <2>3, <2>4
  <2> QED  BY <2>5, <2>6
<1>6. ASSUME NEW c \in Clients, NEW order \in Orders, RejectReorder(c, order)
      PROVE  ViewsAreSound'
  <2>1. view'[c].snap.revision = revision /\ view'[c].snap.items = Shown(rows)
    BY <1>1, <1>6 DEF RejectReorder, Snapshot, SnapshotOf
  <2>2. \A d \in Clients \ {c} : view'[d] = view[d]
    BY <1>1, <1>6 DEF RejectReorder
  <2> QED  BY <1>1, <1>6, <2>1, <2>2 DEF RejectReorder
<1>7. CASE UNCHANGED vars
  BY <1>7 DEF vars
<1> QED  BY <1>2, <1>3, <1>4, <1>5, <1>6, <1>7 DEF Next, Browse

(* Whoever holds the current revision has seen the current queue, although *)
(* GET /queue reads the revision and the entries in two statements: the    *)
(* test of expected_revision in reorder_queue is sufficient.               *)
THEOREM RevisionTestIsSufficient == Spec => []CurrentRevisionIsCurrentQueue
<1>1. Init => ViewsAreSound
  BY DEF Init, ViewsAreSound, NoViewIsAhead, CurrentRevisionIsCurrentQueue, EmptySnapshot
<1>2. TypeOK /\ ViewsAreSound /\ [Next]_vars => ViewsAreSound'
  BY StepKeepsViewsSound
<1>3. ViewsAreSound => CurrentRevisionIsCurrentQueue
  BY DEF ViewsAreSound
<1> QED  BY <1>1, <1>2, <1>3, TypeCorrect, PTL DEF Spec


-----------------------------------------------------------------------------
(* The order of the rows, and the positions that follow from it *)

(* No two rows are equally old.                                            *)
DistinctAges(q) == \A t, u \in Present(q) : t # u => q[t].created # q[u].created

Ahead(q, t) == {u \in Present(q) : Precedes(q[u], q[t])}
Rank(q, t) == 1 + Cardinality(Ahead(q, t))

(* A row that is present has a state, and numbers in its columns.          *)
LEMMA PresentRow ==
    ASSUME NEW q \in [Tasks -> Row], NEW t \in Present(q)
    PROVE  /\ t \in Tasks /\ q[t] \in Row /\ q[t].state \in EntryStates
           /\ q[t].priority \in Nat /\ q[t].position \in Nat /\ q[t].created \in Nat
BY DEF Present, Row

(* Different states are different blocks.                                  *)
LEMMA BlocksAreOrdered ==
    /\ \A s \in EntryStates : Block[s] \in Nat
    /\ \A r, s \in EntryStates : Block[r] = Block[s] => r = s
BY DEF Block, EntryStates

(* Precedes is a strict order of the rows, total if no two are equally old. *)
LEMMA PrecedesIsStrict ==
    ASSUME NEW q \in [Tasks -> Row], NEW t \in Present(q)
    PROVE  ~Precedes(q[t], q[t])
BY PresentRow, BlocksAreOrdered DEF Precedes, AheadInLine

(* What comes before a row comes before what follows it.                   *)
LEMMA PrecedesIsTransitive ==
    ASSUME NEW q \in [Tasks -> Row], NEW t \in Present(q), NEW u \in Present(q), NEW v \in Present(q),
           Precedes(q[t], q[u]), Precedes(q[u], q[v])
    PROVE  Precedes(q[t], q[v])
BY PresentRow, BlocksAreOrdered DEF Precedes, AheadInLine

(* Of two rows of different ages one comes first.                          *)
LEMMA PrecedesIsTotal ==
    ASSUME NEW q \in [Tasks -> Row], DistinctAges(q), NEW t \in Present(q), NEW u \in Present(q), t # u
    PROVE  Precedes(q[t], q[u]) \/ Precedes(q[u], q[t])
<1>1. q[t].created # q[u].created
  BY DEF DistinctAges
<1> QED
  BY <1>1, PresentRow, BlocksAreOrdered DEF Precedes, AheadInLine

(* The rank of a row says where it comes in that order.                    *)
LEMMA RanksFollowOrder ==
    ASSUME NEW q \in [Tasks -> Row], DistinctAges(q), NEW t \in Present(q), NEW u \in Present(q)
    PROVE  Rank(q, t) < Rank(q, u) <=> Precedes(q[t], q[u])
<1>1. ASSUME NEW a \in Present(q), NEW b \in Present(q), Precedes(q[a], q[b])
      PROVE  Rank(q, a) < Rank(q, b)
  <2>1. IsFiniteSet(Ahead(q, a)) /\ IsFiniteSet(Ahead(q, b))
    BY TasksAssumption, FS_Subset DEF Ahead, Present
  <2>2. a \notin Ahead(q, a)
    BY PrecedesIsStrict DEF Ahead
  <2>3. Ahead(q, a) \cup {a} \subseteq Ahead(q, b)
    BY <1>1, PrecedesIsTransitive DEF Ahead
  <2>4. Cardinality(Ahead(q, a) \cup {a}) = Cardinality(Ahead(q, a)) + 1
    BY <2>1, <2>2, FS_AddElement
  <2>5. Cardinality(Ahead(q, a) \cup {a}) <= Cardinality(Ahead(q, b))
    BY <2>1, <2>3, FS_Subset
  <2>6. Cardinality(Ahead(q, a)) \in Nat /\ Cardinality(Ahead(q, b)) \in Nat
    BY <2>1, FS_CardinalityType
  <2> QED
    BY <2>4, <2>5, <2>6 DEF Rank
<1>2. Rank(q, t) \in Nat /\ Rank(q, u) \in Nat
  BY CountIsNat DEF Rank, Ahead, Present
<1>3. CASE t = u
  BY <1>2, <1>3, PrecedesIsStrict
<1>4. CASE t # u
  BY <1>1, <1>2, <1>4, PrecedesIsTotal
<1> QED
  BY <1>3, <1>4

(* So the ranks of n rows are the numbers from 1 to n.                     *)
LEMMA RanksAreOneToN ==
    ASSUME NEW q \in [Tasks -> Row], DistinctAges(q)
    PROVE  {Rank(q, t) : t \in Present(q)} = 1..Cardinality(Present(q))
<1> DEFINE n == Cardinality(Present(q))
           f == [t \in Present(q) |-> Rank(q, t)]
<1>1. IsFiniteSet(Present(q)) /\ n \in Nat
  BY TasksAssumption, FS_Subset, FS_CardinalityType DEF Present
<1>2. ASSUME NEW t \in Present(q)
      PROVE  Rank(q, t) \in 1..n
  <2>1. Ahead(q, t) \subseteq Present(q) \ {t}
    BY PrecedesIsStrict DEF Ahead
  <2>2. IsFiniteSet(Present(q) \ {t}) /\ Cardinality(Present(q) \ {t}) = n - 1
    BY <1>1, FS_RemoveElement
  <2>3. Cardinality(Ahead(q, t)) <= n - 1
    BY <2>1, <2>2, FS_Subset
  <2>4. Cardinality(Ahead(q, t)) \in Nat
    BY CountIsNat DEF Ahead, Present
  <2> QED
    BY <1>1, <2>3, <2>4 DEF Rank
<1>3. ASSUME NEW t \in Present(q), NEW u \in Present(q), Rank(q, t) = Rank(q, u)
      PROVE  t = u
  <2>1. Rank(q, t) \in Nat /\ Rank(q, u) \in Nat
    BY <1>2
  <2> QED
    BY <1>3, <2>1, RanksFollowOrder, PrecedesIsTotal
<1>4. f \in Injection(Present(q), 1..n)
  BY <1>2, <1>3 DEF Injection, IsInjective
<1>5. IsFiniteSet(1..n) /\ Cardinality(1..n) = n
  BY <1>1, FS_Interval
<1>6. f \in Surjection(Present(q), 1..n)
  BY <1>4, <1>5, FS_Injection
<1>7. \A i \in 1..n : \E t \in Present(q) : Rank(q, t) = i
  BY <1>6 DEF Surjection
<1> QED
  BY <1>2, <1>7

(* Normalisation gives every row its rank and changes nothing else.        *)
LEMMA NormalizedPosition ==
    ASSUME NEW q \in [Tasks -> Row], NEW t \in Present(q)
    PROVE  /\ Normalized(q)[t].position = Rank(q, t)
           /\ Normalized(q)[t].state = q[t].state
           /\ Normalized(q)[t].priority = q[t].priority
           /\ Normalized(q)[t].created = q[t].created
<1>1. t \in Tasks /\ q[t] \in Row
  BY PresentRow
<1>2. Normalized(q)[t] = [q[t] EXCEPT !.position = Rank(q, t)]
  BY <1>1 DEF Normalized, Rank, Ahead
<1> HIDE DEF Normalized
<1> QED
  BY <1>1, <1>2 DEF Row

(* It neither adds nor removes a row.                                      *)
LEMMA NormalizedPresent ==
    ASSUME NEW q \in [Tasks -> Row]
    PROVE  Normalized(q) \in [Tasks -> Row] /\ Present(Normalized(q)) = Present(q)
BY NormalizedRows DEF Present

(* It keeps the order it numbers.                                          *)
LEMMA NormalizedOrder ==
    ASSUME NEW q \in [Tasks -> Row], DistinctAges(q), NEW t \in Present(q), NEW u \in Present(q)
    PROVE  Precedes(Normalized(q)[t], Normalized(q)[u]) <=> Precedes(q[t], q[u])
<1> DEFINE r == Normalized(q)
<1>1. /\ r[t].position = Rank(q, t) /\ r[t].state = q[t].state
      /\ r[t].priority = q[t].priority /\ r[t].created = q[t].created
      /\ r[u].position = Rank(q, u) /\ r[u].state = q[u].state
      /\ r[u].priority = q[u].priority /\ r[u].created = q[u].created
  BY NormalizedPosition
<1>2. /\ Rank(q, t) < Rank(q, u) <=> Precedes(q[t], q[u])
      /\ Rank(q, u) < Rank(q, t) <=> Precedes(q[u], q[t])
      /\ Rank(q, t) \in Nat /\ Rank(q, u) \in Nat
  BY RanksFollowOrder, CountIsNat DEF Rank, Ahead, Present
<1>3. t = u \/ Precedes(q[t], q[u]) \/ Precedes(q[u], q[t])
  BY PrecedesIsTotal
<1>4. ~(Precedes(q[t], q[u]) /\ Precedes(q[u], q[t]))
  BY PrecedesIsTransitive, PrecedesIsStrict
<1> HIDE DEF r
<1>5. Precedes(q[t], q[u]) => Precedes(r[t], r[u])
  BY <1>1, <1>2, PresentRow, BlocksAreOrdered DEF Precedes, AheadInLine
<1>6. Precedes(q[u], q[t]) => ~Precedes(r[t], r[u])
  BY <1>1, <1>2, <1>4, PresentRow, BlocksAreOrdered DEF Precedes, AheadInLine
<1>7. t = u => ~Precedes(r[t], r[u])
  BY <1>1, PresentRow, BlocksAreOrdered, <1>2 DEF Precedes, AheadInLine
<1> QED
  BY <1>3, <1>4, <1>5, <1>6, <1>7, PrecedesIsStrict DEF r

(* The table between mutations: rows of distinct ages, every position the  *)
(* rank it would be given again.                                           *)
Settled ==
    /\ DistinctAges(rows)
    /\ \A t \in Present(rows) : rows[t].created <= revision /\ rows[t].position = Rank(rows, t)

(* Settling rows of distinct ages sorts them in the order they had.        *)
LEMMA SettlingSorts ==
    ASSUME TypeOK, NEW q \in [Tasks -> Row], Settle(q), DistinctAges(q),
           \A t \in Present(q) : q[t].created <= revision + 1
    PROVE  /\ Settled'
           /\ \A t, u \in Present(q) : rows'[t].position < rows'[u].position <=> Precedes(q[t], q[u])
<1>1. rows' = Normalized(q) /\ revision' = revision + 1
  BY DEF Settle
<1>2. rows' \in [Tasks -> Row] /\ Present(rows') = Present(q)
  BY <1>1, NormalizedPresent
<1>3. \A t \in Present(q) : rows'[t].position = Rank(q, t) /\ rows'[t].created = q[t].created
  BY <1>1, NormalizedPosition
<1>4. DistinctAges(rows')
  BY <1>2, <1>3 DEF DistinctAges
<1>5. ASSUME NEW t \in Present(q)
      PROVE  Rank(rows', t) = Rank(q, t)
  <2>1. Ahead(rows', t) = Ahead(q, t)
    BY <1>1, <1>2, NormalizedOrder DEF Ahead
  <2> QED
    BY <2>1 DEF Rank
<1>6. Settled'
  BY <1>1, <1>2, <1>3, <1>4, <1>5 DEF Settled, DistinctAges, Rank, Ahead, Present
<1> QED
  BY <1>3, <1>6, RanksFollowOrder

(* Once settled, positions are the order.                                  *)
LEMMA SettledOrder ==
    ASSUME TypeOK, Settled, NEW t \in Present(rows), NEW u \in Present(rows)
    PROVE  rows[t].position < rows[u].position <=> Precedes(rows[t], rows[u])
BY RanksFollowOrder DEF Settled, TypeOK

-----------------------------------------------------------------------------
(* What a mutation does to one row *)

(* Every operation on t leaves rows that differ in t only, which keeps     *)
(* its age or is the youngest, and unless it is requeued a queued row that  *)
(* stays queued stays as it is.                                            *)
LEMMA MutateChangesOne ==
    ASSUME TypeOK, NEW t \in Tasks, Mutate(t)
    PROVE  \E q \in [Tasks -> Row] :
               /\ Settle(q)
               /\ \A u \in Tasks \ {t} : q[u] = rows[u]
               /\ q[t].state # "absent" =>
                      \/ rows[t].state # "absent" /\ q[t].created = rows[t].created
                      \/ q[t].created = revision + 1
               /\ rows[t].state = "queued" /\ q[t].state = "queued" =>
                      q[t] = rows[t] \/ RequeueTask(t)
<1> DEFINE Changes(q) ==
      /\ q \in [Tasks -> Row]
      /\ Settle(q)
      /\ \A u \in Tasks \ {t} : q[u] = rows[u]
      /\ q[t].state # "absent" =>
             \/ rows[t].state # "absent" /\ q[t].created = rows[t].created
             \/ q[t].created = revision + 1
      /\ rows[t].state = "queued" /\ q[t].state = "queued" => q[t] = rows[t] \/ RequeueTask(t)
           ChangesOne == \E q : Changes(q)
<1>0. rows \in [Tasks -> Row] /\ rows[t] \in Row /\ revision \in 0..MaxRevision
  BY DEF TypeOK
<1>1. ASSUME NEW p \in Priorities, EnqueueTask(t, p)
      PROVE  ChangesOne
  <2> DEFINE new == [state |-> "queued", priority |-> p,
                     position |-> WaitingCount(rows) + 1, created |-> revision + 1]
             q == [rows EXCEPT ![t] = new]
  <2>1. WaitingCount(rows) \in Nat
    BY CountIsNat DEF WaitingCount
  <2>2. new \in Row
    BY <1>0, <2>1, PrioritiesAssumption, MaxRevisionAssumption DEF Row, EntryStates
  <2>3. rows[t].state = "absent" /\ Settle(q)
    BY <1>1 DEF EnqueueTask, NoRow
  <2>4. Changes(q)
    BY <1>0, <2>2, <2>3
  <2> QED
    BY <2>4
<1>2. ASSUME RequeueTask(t)
      PROVE  ChangesOne
  <2> DEFINE queued == [rows EXCEPT ![t].state = "queued"]
             q == [queued EXCEPT ![t].position = WaitingCount(queued) + 1]
  <2>1. queued \in [Tasks -> Row]
    BY <1>0 DEF Row, EntryStates
  <2>2. WaitingCount(queued) \in Nat
    BY CountIsNat DEF WaitingCount
  <2>3. \A u \in Tasks \ {t} : queued[u] = rows[u]
    BY <1>0
  <2>4. queued[t].created = rows[t].created
    BY <1>0 DEF Row
  <2>5. Settle(q) /\ rows[t].state # "absent"
    BY <1>2 DEF RequeueTask, RequeuedRows, Waiting
  <2>6. q \in [Tasks -> Row] /\ \A u \in Tasks \ {t} : q[u] = rows[u]
    <3> HIDE DEF queued
    <3> QED
      BY <2>1, <2>2, <2>3 DEF Row
  <2>7. q[t].created = rows[t].created
    <3> HIDE DEF queued
    <3> QED
      BY <2>1, <2>4 DEF Row
  <2>8. Changes(q)
    <3> HIDE DEF q
    <3> QED
      BY <1>2, <2>5, <2>6, <2>7
  <2> QED
    BY <2>8
<1>3. ASSUME NEW s \in EntryStates, Settle([rows EXCEPT ![t].state = s]), rows[t].state # "absent"
      PROVE  ChangesOne
  <2> DEFINE q == [rows EXCEPT ![t].state = s]
  <2>1. q \in [Tasks -> Row] /\ q[t].created = rows[t].created /\ q[t].state = s
    BY <1>0 DEF Row
  <2>2. rows[t].state = s => q[t] = rows[t]
    BY <1>0 DEF Row
  <2>3. Changes(q)
    BY <1>0, <1>3, <2>1, <2>2
  <2> QED
    BY <2>3
<1>4. ASSUME NEW s \in Waiting, SetQueueState(t, s)
      PROVE  ChangesOne
  <2>1. s \in EntryStates /\ rows[t].state # "absent" /\ Settle([rows EXCEPT ![t].state = s])
    BY <1>4 DEF SetQueueState, Waiting, EntryStates
  <2> QED
    BY <1>3, <2>1
<1>5. ASSUME ClaimNextQueueEntry(t) \/ FinishQueueEntry(t)
      PROVE  ChangesOne
  <2>1. PICK s \in EntryStates : Settle([rows EXCEPT ![t].state = s]) /\ rows[t].state # "absent"
    BY <1>5 DEF ClaimNextQueueEntry, FirstQueued, FinishQueueEntry, EntryStates
  <2> QED
    BY <1>3, <2>1
<1>6. ASSUME DeleteQueueEntry(t)
      PROVE  ChangesOne
  <2> DEFINE q == [rows EXCEPT ![t] = NoRow]
  <2>1. Changes(q)
    BY <1>0, <1>6 DEF DeleteQueueEntry, Row, NoRow
  <2> QED
    BY <2>1
<1>7. ChangesOne
  <2> HIDE DEF ChangesOne
  <2> QED
    BY <1>1, <1>2, <1>4, <1>5, <1>6 DEF Mutate
<1> QED
  BY <1>7

(* Settled rows stay settled when one of them changes so.                  *)
LEMMA OneChangeSettles ==
    ASSUME TypeOK, Settled, NEW t \in Tasks, NEW q \in [Tasks -> Row],
           \A u \in Tasks \ {t} : q[u] = rows[u],
           q[t].state # "absent" =>
               \/ rows[t].state # "absent" /\ q[t].created = rows[t].created
               \/ q[t].created = revision + 1
    PROVE  DistinctAges(q) /\ \A u \in Present(q) : q[u].created <= revision + 1
<1>1. revision \in Nat
  BY MaxRevisionAssumption DEF TypeOK
<1>2. \A u \in Present(rows) : rows[u].created \in Nat /\ rows[u].created <= revision
  BY PresentRow DEF Settled, TypeOK
<1>3. \A u \in Present(q) \ {t} : u \in Present(rows) /\ q[u].created = rows[u].created
  BY DEF Present
<1>4. t \in Present(q) => \/ t \in Present(rows) /\ q[t].created = rows[t].created
                          \/ q[t].created = revision + 1
  BY DEF Present
<1> QED
  BY <1>1, <1>2, <1>3, <1>4 DEF Settled, DistinctAges

-----------------------------------------------------------------------------
(* The line *)

(* An accepted reorder leaves rows that differ in the positions of the     *)
(* queued rows only, which are those the client sent.                      *)
LEMMA ReorderPositions ==
    ASSUME TypeOK, NEW c \in Clients, NEW order \in Orders, AcceptReorder(c, order)
    PROVE  \E q \in [Tasks -> Row] :
               /\ Settle(q)
               /\ \A u \in Tasks : /\ q[u].state = rows[u].state /\ q[u].priority = rows[u].priority
                                   /\ q[u].created = rows[u].created
               /\ \A i \in DOMAIN order : order[i] \in InState(rows, "queued") /\ q[order[i]].position = i
<1> DEFINE q == [t \in Tasks |-> IF t \in ListedIn(order)
                                 THEN [rows[t] EXCEPT !.position = RankIn(order, t)]
                                 ELSE rows[t]]
<1>1. PICK n \in 0..Cardinality(Tasks) : order \in [1..n -> Tasks]
  BY DEF Orders
<1>2. n \in Nat /\ DOMAIN order = 1..n
  BY <1>1, CountIsNat
<1>3. Settle(q) /\ ~HasDuplicates(order) /\ ListedIn(order) = InState(rows, "queued")
  BY DEF AcceptReorder, ReorderIsCurrent
<1>4. ASSUME NEW i \in 1..n, NEW j \in 1..n, order[i] = order[j]
      PROVE  i = j
  <2>1. order \in Surjection(1..n, ListedIn(order))
    BY <1>1, <1>2 DEF Surjection, ListedIn
  <2>2. IsFiniteSet(1..n)
    BY <1>2, FS_Interval
  <2>3. Cardinality(1..n) = Cardinality(ListedIn(order))
    BY <1>2, <1>3, Zenon DEF HasDuplicates
  <2>4. order \in Injection(1..n, ListedIn(order))
    BY <2>1, <2>2, <2>3, FS_SurjSameCardinalityImpliesInj
  <2> QED
    BY <1>4, <2>4 DEF Injection, IsInjective
<1>5. ASSUME NEW i \in 1..n
      PROVE  RankIn(order, order[i]) = i
  <2>1. \E j \in DOMAIN order : order[j] = order[i]
    BY <1>2
  <2>2. RankIn(order, order[i]) \in 1..n /\ order[RankIn(order, order[i])] = order[i]
    BY <1>2, <2>1 DEF RankIn
  <2> QED
    BY <1>4, <2>2
<1>6. ASSUME NEW t \in Tasks
      PROVE  q[t] \in Row /\ q[t].state = rows[t].state /\ q[t].priority = rows[t].priority
             /\ q[t].created = rows[t].created
  <2>1. rows[t] \in Row
    BY DEF TypeOK
  <2>2. CASE t \in ListedIn(order)
    <3>1. PICK i \in 1..n : order[i] = t
      BY <1>2, <2>2 DEF ListedIn
    <3>2. RankIn(order, t) \in Nat
      BY <1>2, <1>5, <3>1
    <3>3. q[t] = [rows[t] EXCEPT !.position = RankIn(order, t)]
      BY <2>2
    <3> QED
      BY <2>1, <3>2, <3>3 DEF Row
  <2> QED
    BY <2>1, <2>2
<1>7. ASSUME NEW i \in 1..n
      PROVE  order[i] \in InState(rows, "queued") /\ q[order[i]].position = i
  <2>1. order[i] \in ListedIn(order) /\ order[i] \in Tasks
    BY <1>1, <1>2 DEF ListedIn
  <2>2. rows[order[i]] \in Row
    BY <2>1 DEF TypeOK
  <2>3. q[order[i]] = [rows[order[i]] EXCEPT !.position = i]
    BY <1>5, <2>1
  <2> QED
    BY <1>3, <2>1, <2>2, <2>3 DEF Row
<1>8. q \in [Tasks -> Row]
  BY <1>6
<1> HIDE DEF q
<1> QED
  BY <1>2, <1>3, <1>6, <1>7, <1>8

(* An accepted reorder keeps ages and states.                              *)
LEMMA ReorderSettles ==
    ASSUME TypeOK, Settled, NEW q \in [Tasks -> Row],
           \A u \in Tasks : q[u].state = rows[u].state /\ q[u].created = rows[u].created
    PROVE  DistinctAges(q) /\ \A u \in Present(q) : q[u].created <= revision + 1
<1>1. revision \in Nat /\ Present(q) = Present(rows)
  BY MaxRevisionAssumption DEF TypeOK, Present
<1>2. \A u \in Present(rows) : rows[u].created \in Nat /\ rows[u].created <= revision /\ u \in Tasks
  BY PresentRow DEF Settled, TypeOK
<1> QED
  BY <1>1, <1>2 DEF Settled, DistinctAges

(* Every step leaves the table settled.                                    *)
LEMMA StepSettles ==
    ASSUME TypeOK, Settled, [Next]_vars
    PROVE  Settled'
<1>1. ASSUME NEW t \in Tasks, Mutate(t)
      PROVE  Settled'
  <2>1. PICK q \in [Tasks -> Row] :
            /\ Settle(q)
            /\ \A u \in Tasks \ {t} : q[u] = rows[u]
            /\ q[t].state # "absent" =>
                   \/ rows[t].state # "absent" /\ q[t].created = rows[t].created
                   \/ q[t].created = revision + 1
    BY <1>1, MutateChangesOne
  <2> QED
    BY <2>1, OneChangeSettles, SettlingSorts
<1>2. ASSUME NEW c \in Clients, NEW order \in Orders, AcceptReorder(c, order)
      PROVE  Settled'
  <2>1. PICK q \in [Tasks -> Row] :
            /\ Settle(q)
            /\ \A u \in Tasks : q[u].state = rows[u].state /\ q[u].created = rows[u].created
    BY <1>2, ReorderPositions
  <2> QED
    BY <2>1, ReorderSettles, SettlingSorts
<1>3. CASE UNCHANGED <<rows, revision>>
  BY <1>3 DEF Settled, DistinctAges, Rank, Ahead, Present
<1> QED
  BY <1>1, <1>2, <1>3 DEF Next, Browse, ReadRevision, ReadEntries, RejectReorder, vars

(* The table is settled between any two mutations.                         *)
LEMMA AlwaysSettled == Spec => [](TypeOK /\ Settled)
<1>1. Init => Settled
  BY DEF Init, Settled, DistinctAges, Present, NoRow
<1>2. TypeOK /\ Settled /\ [Next]_vars => Settled'
  BY StepSettles
<1> QED
  BY <1>1, <1>2, TypeCorrect, PTL DEF Spec

(* The positions are 1..n, and follow the blocks and the priorities: by the *)
(* invariant that every position is the rank of its row, in an order that   *)
(* renumbering does not change.                                            *)
THEOREM PositionsRank == Spec => []PositionsAreRanks
<1>1. TypeOK /\ Settled => PositionsAreRanks
  <2> SUFFICES ASSUME TypeOK, Settled PROVE PositionsAreRanks
    OBVIOUS
  <2>0. rows \in [Tasks -> Row]
    BY DEF TypeOK
  <2>1. {rows[t].position : t \in Present(rows)} = {Rank(rows, t) : t \in Present(rows)}
    BY DEF Settled
  <2>2. {rows[t].position : t \in Present(rows)} = 1..Cardinality(Present(rows))
    BY <2>0, <2>1, RanksAreOneToN DEF Settled
  <2>3. ASSUME NEW t \in Present(rows), NEW u \in Present(rows), rows[t].position < rows[u].position
        PROVE  \/ Block[rows[t].state] < Block[rows[u].state]
               \/ /\ rows[t].state = rows[u].state
                  /\ rows[t].state \in Waiting => rows[t].priority >= rows[u].priority
    BY <2>0, <2>3, SettledOrder, PresentRow DEF Precedes, AheadInLine
  <2> QED
    BY <2>2, <2>3 DEF PositionsAreRanks
<1> QED
  BY <1>1, AlwaysSettled, PTL

(* The order a client sent is the order of each priority.                  *)
THEOREM ReorderIsKept == Spec => ReorderIsHonoured
<1>1. TypeOK /\ Settled /\ [Next]_vars =>
          [\A c \in Clients, order \in Orders :
              AcceptReorder(c, order) =>
                  \A i, j \in DOMAIN order :
                      i < j /\ rows[order[i]].priority = rows[order[j]].priority
                          => rows'[order[i]].position < rows'[order[j]].position]_vars
  <2> SUFFICES ASSUME TypeOK, Settled, NEW c \in Clients, NEW order \in Orders, AcceptReorder(c, order),
                      NEW i \in DOMAIN order, NEW j \in DOMAIN order, i < j,
                      rows[order[i]].priority = rows[order[j]].priority
               PROVE  rows'[order[i]].position < rows'[order[j]].position
    OBVIOUS
  <2>1. PICK q \in [Tasks -> Row] :
            /\ Settle(q)
            /\ \A u \in Tasks : /\ q[u].state = rows[u].state /\ q[u].priority = rows[u].priority
                                /\ q[u].created = rows[u].created
            /\ \A k \in DOMAIN order : order[k] \in InState(rows, "queued") /\ q[order[k]].position = k
    BY ReorderPositions
  <2>2. /\ order[i] \in Tasks /\ q[order[i]].state = "queued" /\ q[order[i]].position = i
        /\ order[j] \in Tasks /\ q[order[j]].state = "queued" /\ q[order[j]].position = j
        /\ q[order[i]].priority = q[order[j]].priority
    BY <2>1 DEF InState
  <2>3. Precedes(q[order[i]], q[order[j]])
    BY <2>2 DEF Precedes, AheadInLine, Waiting
  <2>4. order[i] \in Present(q) /\ order[j] \in Present(q)
    BY <2>2 DEF Present
  <2> QED
    BY <2>1, <2>3, <2>4, ReorderSettles, SettlingSorts
<1> QED
  BY <1>1, AlwaysSettled, PTL DEF Spec, ReorderIsHonoured

(* A queued row has in front of it the running one and queued ones only.   *)
LEMMA QueuedPositionIsBounded ==
    ASSUME TypeOK, Settled, OneRunningEntry, NEW u \in Tasks, rows[u].state = "queued"
    PROVE  /\ rows[u].position \in Nat /\ Cardinality(InState(rows, "queued")) \in Nat
           /\ rows[u].position <= 1 + Cardinality(InState(rows, "queued"))
<1> DEFINE Q == InState(rows, "queued")
           R == InState(rows, "running")
<1>1. IsFiniteSet(Q) /\ IsFiniteSet(R) /\ Q \subseteq Tasks /\ R \subseteq Tasks
  BY TasksAssumption, FS_Subset DEF InState
<1>2. Cardinality(Q) \in Nat /\ Cardinality(R) \in Nat
  BY <1>1, FS_CardinalityType
<1>3. Cardinality(R) <= 1
  <2>1. \A t, v \in R : t = v
    BY DEF OneRunningEntry, Slot!Exclusive, SlotOf, InState
  <2>2. CASE R = {}
    BY <2>2, FS_EmptySet
  <2>3. CASE R # {}
    <3>1. PICK t \in R : TRUE
      BY <2>3
    <3>2. R = {t}
      BY <2>1, <3>1
    <3>3. Cardinality({t}) = 1
      BY FS_Singleton
    <3>4. Cardinality(R) = 1
      BY <3>2, <3>3, Zenon
    <3> QED
      BY <3>4
  <2> QED
    BY <2>2, <2>3
<1>4. u \in Q /\ u \in Present(rows) /\ rows \in [Tasks -> Row]
  BY DEF InState, Present, TypeOK
<1>5. Ahead(rows, u) \subseteq R \cup (Q \ {u})
  <2> SUFFICES ASSUME NEW v \in Present(rows), Precedes(rows[v], rows[u])
               PROVE  v \in R \cup (Q \ {u})
    BY DEF Ahead
  <2>1. v # u
    BY <1>4, PrecedesIsStrict
  <2>2. rows[v].state \in {"running", "queued"}
    BY <1>4, PresentRow DEF Precedes, Block, EntryStates
  <2> QED
    BY <1>4, <2>1, <2>2, PresentRow DEF InState
<1>6. IsFiniteSet(Q \ {u}) /\ Cardinality(Q \ {u}) = Cardinality(Q) - 1
  BY <1>1, <1>4, FS_RemoveElement
<1>7. /\ IsFiniteSet(R \cup (Q \ {u})) /\ Cardinality(R \cap (Q \ {u})) \in Nat
      /\ Cardinality(R \cup (Q \ {u})) =
             Cardinality(R) + Cardinality(Q \ {u}) - Cardinality(R \cap (Q \ {u}))
  BY <1>1, <1>6, FS_Union, FS_Intersection, FS_CardinalityType
<1>8. Cardinality(Ahead(rows, u)) <= Cardinality(R \cup (Q \ {u}))
  BY <1>5, <1>7, FS_Subset
<1>9. Cardinality(Ahead(rows, u)) \in Nat
  BY CountIsNat DEF Ahead, Present
<1>10. rows[u].position = 1 + Cardinality(Ahead(rows, u))
  BY <1>4 DEF Settled, Rank
<1> HIDE DEF Q, R
<1>11. rows[u].position <= 1 + Cardinality(Q)
  BY <1>2, <1>3, <1>6, <1>7, <1>8, <1>9, <1>10
<1> QED
  BY <1>2, <1>9, <1>10, <1>11 DEF Q

(* Whoever becomes queued comes behind the queued rows of its priority.    *)
LEMMA NewcomersAreBehind ==
    ASSUME TypeOK, Settled, OneRunningEntry, NEW t \in Tasks, Mutate(t), rows[t].state # "queued",
           rows'[t].state = "queued"
    PROVE  \E q \in [Tasks -> Row] :
               /\ Settle(q)
               /\ \A u \in Tasks \ {t} : q[u] = rows[u]
               /\ q[t].state = "queued"
               /\ q[t].state # "absent" =>
                      \/ rows[t].state # "absent" /\ q[t].created = rows[t].created
                      \/ q[t].created = revision + 1
               /\ \A u \in Tasks : rows[u].state = "queued" /\ rows[u].priority = q[t].priority =>
                      AheadInLine(rows[u], q[t])
<1> DEFINE Joins(q) ==
      /\ q \in [Tasks -> Row]
      /\ Settle(q)
      /\ \A u \in Tasks \ {t} : q[u] = rows[u]
      /\ q[t].state = "queued"
      /\ q[t].state # "absent" =>
             \/ rows[t].state # "absent" /\ q[t].created = rows[t].created
             \/ q[t].created = revision + 1
      /\ \A u \in Tasks : rows[u].state = "queued" /\ rows[u].priority = q[t].priority =>
             AheadInLine(rows[u], q[t])
           SomeJoins == \E q : Joins(q)
<1>0. /\ rows \in [Tasks -> Row] /\ rows[t] \in Row /\ revision \in Nat
      /\ \A u \in Tasks : rows[u].state = "queued" =>
             /\ u \in Present(rows) /\ rows[u].created \in Nat /\ rows[u].created <= revision
             /\ rows[u].priority \in Nat /\ rows[u].position \in Nat
             /\ rows[u].position <= 1 + Cardinality(InState(rows, "queued"))
      /\ Cardinality(InState(rows, "queued")) \in Nat
  <2>1. rows \in [Tasks -> Row] /\ revision \in Nat
    BY MaxRevisionAssumption DEF TypeOK
  <2>2. \A u \in Tasks : rows[u].state = "queued" => u \in Present(rows)
    BY DEF Present
  <2>3. \A u \in Present(rows) : rows[u].created <= revision
    BY DEF Settled
  <2> QED
    BY <2>1, <2>2, <2>3, PresentRow, QueuedPositionIsBounded, CountIsNat DEF InState
<1>1. ASSUME NEW p \in Priorities, EnqueueTask(t, p)
      PROVE  SomeJoins
  <2> DEFINE new == [state |-> "queued", priority |-> p,
                     position |-> WaitingCount(rows) + 1, created |-> revision + 1]
             q == [rows EXCEPT ![t] = new]
  <2>1. WaitingCount(rows) \in Nat /\ Cardinality(InState(rows, "queued")) <= WaitingCount(rows)
    <3>1. InState(rows, "queued") \subseteq {u \in Tasks : rows[u].state \in Waiting}
      BY DEF InState, Waiting
    <3>2. IsFiniteSet({u \in Tasks : rows[u].state \in Waiting})
      BY TasksAssumption, FS_Subset
    <3> QED
      BY <3>1, <3>2, FS_Subset, FS_CardinalityType DEF WaitingCount
  <2>2. new \in Row
    BY <1>0, <2>1, PrioritiesAssumption DEF Row, EntryStates
  <2>3. Settle(q)
    BY <1>1 DEF EnqueueTask
  <2>4. q[t] = new /\ q \in [Tasks -> Row] /\ \A u \in Tasks \ {t} : q[u] = rows[u]
    BY <1>0, <2>2
  <2>5. \A u \in Tasks : rows[u].state = "queued" /\ rows[u].priority = p => AheadInLine(rows[u], new)
    BY <1>0, <2>1 DEF AheadInLine
  <2>6. Joins(q)
    BY <2>3, <2>4, <2>5
  <2> QED
    BY <2>6
<1>2. ASSUME RequeueTask(t)
      PROVE  SomeJoins
  <2> DEFINE queued == [rows EXCEPT ![t].state = "queued"]
             W == {u \in Tasks : queued[u].state \in Waiting}
             q == [queued EXCEPT ![t].position = WaitingCount(queued) + 1]
  <2>1. queued \in [Tasks -> Row] /\ queued[t].state = "queued" /\ queued[t].created = rows[t].created
        /\ \A u \in Tasks \ {t} : queued[u] = rows[u]
    BY <1>0 DEF Row, EntryStates
  <2>2. IsFiniteSet(W) /\ WaitingCount(queued) = Cardinality(W)
    BY TasksAssumption, FS_Subset DEF WaitingCount
  <2>3. InState(rows, "queued") \cup {t} \subseteq W
    BY <2>1 DEF InState, Waiting
  <2>4. IsFiniteSet(InState(rows, "queued")) /\ t \notin InState(rows, "queued")
    BY TasksAssumption, FS_Subset DEF InState
  <2> HIDE DEF queued, W
  <2>5. Cardinality(InState(rows, "queued") \cup {t}) = Cardinality(InState(rows, "queued")) + 1
    BY <2>4, FS_AddElement
  <2>6. WaitingCount(queued) \in Nat /\ WaitingCount(queued) >= Cardinality(InState(rows, "queued")) + 1
    BY <1>0, <2>2, <2>3, <2>5, FS_Subset, FS_CardinalityType
  <2>7. /\ q \in [Tasks -> Row] /\ q[t].state = "queued" /\ q[t].created = rows[t].created
        /\ q[t].position = WaitingCount(queued) + 1 /\ q[t].priority \in Nat
        /\ \A u \in Tasks \ {t} : q[u] = rows[u]
    BY <2>1, <2>6 DEF Row
  <2>8. Settle(q) /\ rows[t].state # "absent"
    BY <1>2 DEF RequeueTask, RequeuedRows, Waiting, queued
  <2> HIDE DEF q
  <2>9. \A u \in Tasks : rows[u].state = "queued" /\ rows[u].priority = q[t].priority =>
            AheadInLine(rows[u], q[t])
    BY <1>0, <2>6, <2>7 DEF AheadInLine
  <2>10. Joins(q)
    BY <2>7, <2>8, <2>9
  <2> QED
    BY <2>10
<1>3. ASSUME NEW s \in EntryStates, Settle([rows EXCEPT ![t].state = s])
      PROVE  s = "queued"
  <2>1. [rows EXCEPT ![t].state = s] \in [Tasks -> Row] /\ [rows EXCEPT ![t].state = s][t].state = s
    BY <1>0 DEF Row
  <2>2. rows'[t].state = s
    BY <1>3, <2>1, SettledRows DEF TypeOK
  <2> QED
    BY <2>2
<1>4. ASSUME NEW s \in Waiting, SetQueueState(t, s)
      PROVE  SomeJoins
  <2> DEFINE q == [rows EXCEPT ![t].state = "queued"]
  <2>1. s = "queued" /\ Settle(q) /\ rows[t].state = "paused"
    BY <1>3, <1>4 DEF SetQueueState, Waiting, EntryStates
  <2>2. /\ q \in [Tasks -> Row] /\ q[t].state = "queued" /\ q[t].created = rows[t].created
        /\ q[t].position = rows[t].position /\ q[t].priority = rows[t].priority
        /\ \A u \in Tasks \ {t} : q[u] = rows[u]
    BY <1>0 DEF Row, EntryStates
  <2>3. ASSUME NEW u \in Tasks, rows[u].state = "queued"
        PROVE  rows[u].position < rows[t].position
    <3>1. u \in Present(rows) /\ t \in Present(rows)
      BY <2>1, <2>3 DEF Present
    <3>2. Precedes(rows[u], rows[t])
      BY <2>1, <2>3 DEF Precedes, Block
    <3> QED
      BY <3>1, <3>2, SettledOrder
  <2> HIDE DEF q
  <2>4. Joins(q)
    BY <2>1, <2>2, <2>3 DEF AheadInLine
  <2> QED
    BY <2>4
<1>5. ~ClaimNextQueueEntry(t) /\ ~FinishQueueEntry(t)
  BY <1>3 DEF ClaimNextQueueEntry, FinishQueueEntry, EntryStates
<1>6. ~DeleteQueueEntry(t)
  <2>1. [rows EXCEPT ![t] = NoRow] \in [Tasks -> Row] /\ [rows EXCEPT ![t] = NoRow][t].state = "absent"
    BY <1>0 DEF Row, NoRow
  <2> QED
    BY <2>1, SettledRows DEF DeleteQueueEntry, TypeOK
<1>7. SomeJoins
  <2> HIDE DEF SomeJoins
  <2> QED
    BY <1>1, <1>2, <1>4, <1>5, <1>6 DEF Mutate
<1> QED
  BY <1>7

(* A step that changes states is an operation on the row that changes.     *)
LEMMA StatesChangeByMutation ==
    ASSUME TypeOK, [Next]_vars, NEW t \in Tasks, rows'[t].state # rows[t].state
    PROVE  Mutate(t)
<1>1. ASSUME NEW u \in Tasks, Mutate(u)
      PROVE  u = t
  <2>1. PICK q \in [Tasks -> Row] : Settle(q) /\ \A v \in Tasks \ {u} : q[v] = rows[v]
    BY <1>1, MutateChangesOne
  <2>2. rows'[t].state = q[t].state
    BY <2>1, SettledRows DEF TypeOK
  <2> QED
    BY <2>1, <2>2
<1>2. ASSUME NEW c \in Clients, NEW order \in Orders, AcceptReorder(c, order)
      PROVE  FALSE
  <2>1. PICK q \in [Tasks -> Row] : Settle(q) /\ \A u \in Tasks : q[u].state = rows[u].state
    BY <1>2, ReorderPositions
  <2> QED
    BY <2>1, SettledRows DEF TypeOK
<1> QED
  BY <1>1, <1>2 DEF Next, Browse, ReadRevision, ReadEntries, RejectReorder, vars

(* Whoever is enqueued, requeued or resumed goes behind everybody of its    *)
(* priority, although its position is a count of rows.                     *)
THEOREM NewcomersGoToTheBack == Spec => BackOfTheLine
<1>1. TypeOK /\ Settled /\ OneRunningEntry /\ [Next]_vars =>
          [\A t, u \in Tasks :
              /\ rows[t].state # "queued" /\ rows'[t].state = "queued"
              /\ rows[u].state = "queued" /\ rows'[u].state = "queued"
              /\ rows'[t].priority = rows'[u].priority
              => rows'[u].position < rows'[t].position]_vars
  <2> SUFFICES ASSUME TypeOK, Settled, OneRunningEntry, [Next]_vars, NEW t \in Tasks, NEW u \in Tasks,
                      rows[t].state # "queued", rows'[t].state = "queued",
                      rows[u].state = "queued", rows'[u].state = "queued",
                      rows'[t].priority = rows'[u].priority
               PROVE  rows'[u].position < rows'[t].position
    OBVIOUS
  <2>1. Mutate(t)
    BY StatesChangeByMutation
  <2>2. PICK q \in [Tasks -> Row] :
            /\ Settle(q)
            /\ \A v \in Tasks \ {t} : q[v] = rows[v]
            /\ q[t].state = "queued"
            /\ q[t].state # "absent" =>
                   \/ rows[t].state # "absent" /\ q[t].created = rows[t].created
                   \/ q[t].created = revision + 1
            /\ \A v \in Tasks : rows[v].state = "queued" /\ rows[v].priority = q[t].priority =>
                   AheadInLine(rows[v], q[t])
    BY <2>1, NewcomersAreBehind
  <2>3. q[u] = rows[u] /\ t \in Present(q) /\ u \in Present(q)
    BY <2>2 DEF Present
  <2>4. rows'[t].priority = q[t].priority /\ rows'[u].priority = q[u].priority
    BY <2>2, <2>3, NormalizedPosition DEF Settle
  <2>5. Precedes(q[u], q[t])
    BY <2>2, <2>3, <2>4 DEF Precedes, Waiting
  <2> QED
    BY <2>2, <2>3, <2>5, OneChangeSettles, SettlingSorts
<1> QED
  BY <1>1, AlwaysSettled, QueueIsExclusive, PTL DEF Spec, BackOfTheLine

(* Two tasks that stay queued swap places by a reorder or a requeue only.   *)
THEOREM LineKeepsItsOrder == Spec => LineIsStable
<1>1. TypeOK /\ Settled /\ [Next]_vars =>
          [\A t, u \in InState(rows, "queued") \cap InState(rows', "queued") :
              \/ (rows[t].position < rows[u].position) = (rows'[t].position < rows'[u].position)
              \/ \E v \in {t, u} : RequeueTask(v)
              \/ \E c \in Clients, order \in Orders : AcceptReorder(c, order)]_vars
  <2> SUFFICES ASSUME TypeOK, Settled, [Next]_vars,
                      NEW t \in Tasks, rows[t].state = "queued", rows'[t].state = "queued",
                      NEW u \in Tasks, rows[u].state = "queued", rows'[u].state = "queued",
                      ~RequeueTask(t), ~RequeueTask(u),
                      ~\E c \in Clients, order \in Orders : AcceptReorder(c, order)
               PROVE  rows[t].position < rows[u].position <=> rows'[t].position < rows'[u].position
    BY DEF InState
  <2>1. ASSUME NEW v \in Tasks, Mutate(v)
        PROVE  rows[t].position < rows[u].position <=> rows'[t].position < rows'[u].position
    <3>1. PICK q \in [Tasks -> Row] :
              /\ Settle(q)
              /\ \A w \in Tasks \ {v} : q[w] = rows[w]
              /\ q[v].state # "absent" =>
                     \/ rows[v].state # "absent" /\ q[v].created = rows[v].created
                     \/ q[v].created = revision + 1
              /\ rows[v].state = "queued" /\ q[v].state = "queued" => q[v] = rows[v] \/ RequeueTask(v)
      BY <2>1, MutateChangesOne
    <3>2. q[t].state = "queued" /\ q[u].state = "queued"
      BY <3>1, SettledRows DEF TypeOK
    <3>3. q[t] = rows[t] /\ q[u] = rows[u]
      BY <3>1, <3>2
    <3>4. t \in Present(rows) /\ u \in Present(rows) /\ t \in Present(q) /\ u \in Present(q)
      BY <3>2 DEF Present
    <3>5. rows'[t].position < rows'[u].position <=> Precedes(q[t], q[u])
      BY <3>1, <3>4, OneChangeSettles, SettlingSorts
    <3> QED
      BY <3>3, <3>4, <3>5, SettledOrder
  <2>2. CASE UNCHANGED rows
    BY <2>2
  <2> QED
    BY <2>1, <2>2 DEF Next, Browse, ReadRevision, ReadEntries, RejectReorder, vars
<1> QED
  BY <1>1, AlwaysSettled, PTL DEF Spec, LineIsStable
=============================================================================

--------------------------- MODULE GpuSlotProofs ---------------------------
(***************************************************************************)
(* The GPU slot is exclusive, for any set of tasks.                        *)
(***************************************************************************)
EXTENDS GpuSlot, TLAPS

(* Every step of the slot keeps every entry in one of its states.          *)
LEMMA StepKeepsType ==
    ASSUME TypeOK, [Next]_slot
    PROVE  TypeOK'
<1> USE DEF TypeOK, EntryStates, Waiting
<1>1. ASSUME NEW t \in Tasks, Admit(t) PROVE TypeOK'
  BY <1>1 DEF Admit
<1>2. ASSUME NEW t \in Tasks, NEW s \in Waiting, Park(t, s) PROVE TypeOK'
  BY <1>2 DEF Park
<1>3. ASSUME NEW t \in Tasks, Acquire(t) PROVE TypeOK'
  BY <1>3 DEF Acquire
<1>4. ASSUME NEW t \in Tasks, Drop(t) PROVE TypeOK'
  BY <1>4 DEF Drop
<1>5. ASSUME NEW T \in SUBSET Tasks, Release(T) PROVE TypeOK'
  BY <1>5 DEF Release
<1>6. CASE UNCHANGED slot
  BY <1>6
<1> QED  BY <1>1, <1>2, <1>3, <1>4, <1>5, <1>6 DEF Next

(* Type correctness of the slot: an entry is absent or in one of the four  *)
(* states of QueueEntry.state.                                             *)
THEOREM TypeCorrect == Spec => []TypeOK
<1>1. Init => TypeOK
  BY DEF Init, TypeOK, EntryStates
<1>2. TypeOK /\ [Next]_slot => TypeOK'
  BY StepKeepsType
<1> QED  BY <1>1, <1>2, PTL DEF Spec

(* Only Acquire makes an entry running, and it finds no other one running. *)
LEMMA StepKeepsExclusive ==
    ASSUME TypeOK, Exclusive, [Next]_slot
    PROVE  Exclusive'
<1> USE DEF TypeOK, Exclusive
<1>1. ASSUME NEW t \in Tasks, Admit(t) PROVE Exclusive'
  BY <1>1 DEF Admit
<1>2. ASSUME NEW t \in Tasks, NEW s \in Waiting, Park(t, s) PROVE Exclusive'
  BY <1>2 DEF Park, Waiting
<1>3. ASSUME NEW t \in Tasks, Acquire(t) PROVE Exclusive'
  BY <1>3 DEF Acquire
<1>4. ASSUME NEW t \in Tasks, Drop(t) PROVE Exclusive'
  BY <1>4 DEF Drop
<1>5. ASSUME NEW T \in SUBSET Tasks, Release(T) PROVE Exclusive'
  BY <1>5 DEF Release
<1>6. CASE UNCHANGED slot
  BY <1>6
<1> QED  BY <1>1, <1>2, <1>3, <1>4, <1>5, <1>6 DEF Next

(* At most one queue entry is running: the sole GPU is never claimed twice. *)
THEOREM SlotIsExclusive == Spec => []Exclusive
<1>1. Init => Exclusive
  BY DEF Init, Exclusive
<1>2. TypeOK /\ Exclusive /\ [Next]_slot => Exclusive'
  BY StepKeepsExclusive
<1> QED  BY <1>1, <1>2, TypeCorrect, PTL DEF Spec

=============================================================================

------------------------- MODULE EventStreamProofs -------------------------
(***************************************************************************)
(* Proofs about EventStream, for any projections, page size, retention,    *)
(* number of delays and bounds: type correctness, replay without gaps, the *)
(* truth of the banner, and the end of every optimistic order.             *)
(*                                                                         *)
(* The inductive invariant has three parts, one for each group of          *)
(* variables, and a step disturbs few of them.                             *)
(***************************************************************************)
EXTENDS EventStream, SequenceTheorems, TLAPS

LEMMA SizeTypes ==
    /\ PageSize \in Nat /\ PageSize > 0 /\ Retain \in Nat /\ Retain > 0
    /\ Delays \in Nat /\ Delays > 0 /\ MaxEvents \in Nat /\ MaxFaults \in Nat
BY SizesAssumption

-----------------------------------------------------------------------------
(* The database *)

\* What was deleted was expired and outside the retained window.
PrunedIsPruneable == \A e \in 1 .. low - 1 : Pruneable(e)

DataInv ==
    /\ version \in [Topics -> Versions] /\ log \in Seq(Topics) /\ Len(log) <= MaxEvents
    /\ low \in 1..MaxEvents + 1 /\ expired \in Ids
    /\ \A t \in Topics : version[t] <= Len(log)
    /\ PrunedIsPruneable

(* What a step can do to the database.                                     *)
LEMMA DataSteps ==
    ASSUME [Next]_vars
    PROVE  \/ \E t \in Topics : Commit(t) /\ UNCHANGED expired
           \/ Expire
           \/ UNCHANGED <<data, expired>>
<1> USE QueueAssumption DEF connection, stream, data, queries
<1>1. ASSUME NEW t \in Topics, Publish(t) \/ Fetch(t)
      PROVE  (Commit(t) /\ UNCHANGED expired) \/ UNCHANGED <<data, expired>>
  BY <1>1 DEF Publish, Fetch, FetchReads, FetchArrives, FetchFails, Retry
<1>2. CASE Connection
  BY <1>2 DEF Connection, Open, SendPage, Break, Reconnect, Receive, TakeFrame, Poll
<1>3. CASE QueuePage
  BY <1>3 DEF QueuePage, Mutate, Accept, Reject, Refuse, LoseMutation, Settle, Unlock
<1>4. CASE UNCHANGED vars
  BY <1>4 DEF vars
<1> QED  BY <1>1, <1>2, <1>3, <1>4 DEF Next

(* An event that may be deleted may be deleted for ever after.             *)
LEMMA PruneableForEver ==
    ASSUME DataInv, [Next]_vars, NEW e \in Nat, Pruneable(e)
    PROVE  Pruneable(e)'
<1> USE SizeTypes DEF Pruneable, DataInv, Ids
<1>1. ASSUME NEW t \in Topics, Commit(t), UNCHANGED expired PROVE Pruneable(e)'
  BY <1>1 DEF Commit
<1>2. CASE Expire
  BY <1>2 DEF Expire, data
<1>3. CASE UNCHANGED <<data, expired>>
  BY <1>3 DEF data
<1> QED  BY <1>1, <1>2, <1>3, DataSteps

(* A commit prunes no more than it may.                                    *)
LEMMA CommitPrunes ==
    ASSUME DataInv, NEW t \in Topics, Commit(t), UNCHANGED expired
    PROVE  /\ low' \in 1..MaxEvents + 1
           /\ \A e \in 1 .. low' - 1 : e < low \/ Pruneable(e)'
<1>1. Len(log') = Len(log) + 1 /\ Len(log') <= MaxEvents
  BY SizeTypes DEF Commit, DataInv
<1>2. low' = Pruned(Len(log')) /\ expired' = expired
  BY DEF Commit
<1>3. low' = low \/ low' = Larger(low, Smaller(expired + 1, Len(log') - Retain + 1))
  BY <1>2 DEF Pruned
<1>4. low' \in Int /\ (low' = low \/ (low' > low /\ low' <= expired + 1 /\ low' <= Len(log') - Retain + 1))
  BY <1>1, <1>3, SizeTypes DEF Larger, Smaller, DataInv, Ids
<1> QED  BY <1>1, <1>2, <1>4, SizeTypes DEF DataInv, Ids, Pruneable

LEMMA DataStep ==
    ASSUME DataInv, [Next]_vars
    PROVE  DataInv'
<1> USE SizeTypes DEF Ids, Versions
<1>1. ASSUME NEW t \in Topics, Commit(t), UNCHANGED expired PROVE DataInv'
  <2>1. /\ log' = Append(log, t) /\ Len(log) < MaxEvents
        /\ version' = [version EXCEPT ![t] = @ + 1]
    BY <1>1 DEF Commit
  <2>2. log' \in Seq(Topics) /\ Len(log') = Len(log) + 1
    BY <2>1 DEF DataInv
  <2>3. version' \in [Topics -> Versions] /\ \A u \in Topics : version'[u] <= Len(log')
    BY <2>1, <2>2 DEF DataInv
  <2>4. PrunedIsPruneable'
    <3> SUFFICES ASSUME NEW e \in 1 .. low' - 1 PROVE Pruneable(e)'
      BY DEF PrunedIsPruneable
    <3>1. low' \in Nat /\ low \in Nat /\ (e < low \/ Pruneable(e)')
      BY <1>1, CommitPrunes DEF DataInv
    <3>2. e < low => Pruneable(e)
      BY <3>1 DEF DataInv, PrunedIsPruneable
    <3> QED  BY <3>1, <3>2, PruneableForEver
  <2> QED  BY <1>1, <2>1, <2>2, <2>3, <2>4, CommitPrunes DEF DataInv
<1>2. CASE Expire
  <2>1. expired' \in Ids /\ UNCHANGED data
    BY <1>2 DEF Expire, DataInv
  <2>2. PrunedIsPruneable'
    BY <2>1, PruneableForEver DEF PrunedIsPruneable, DataInv, data
  <2> QED  BY <2>1, <2>2 DEF DataInv, data
<1>3. CASE UNCHANGED <<data, expired>>
  BY <1>3 DEF DataInv, PrunedIsPruneable, Pruneable, data
<1> QED  BY <1>1, <1>2, <1>3, DataSteps

-----------------------------------------------------------------------------
(* The stream *)

\* The wire holds the identifiers up to the cursor; what lies between the
\* browser and the wire, and what it never received, was pruned.
StreamInv ==
    /\ cursor \in Ids /\ wire \in Seq(1..MaxEvents) /\ lastId \in Ids
    /\ link \in {"connecting", "open", "waiting"} /\ received \subseteq 1..MaxEvents
    /\ link # "open" => wire = <<>>
    /\ Len(wire) <= cursor
    /\ \A i \in 1..Len(wire) : wire[i] = cursor - Len(wire) + i
    /\ link = "open" => lastId <= cursor - Len(wire)
    /\ link = "open" => \A e \in lastId + 1 .. cursor - Len(wire) : Pruneable(e)
    /\ NoEventSkipped

\* The banner and the fallback timer follow the count of failures.
BannerInv ==
    /\ failures \in Nat /\ faults \in 0..MaxFaults /\ failures <= faults
    /\ polling \in BOOLEAN
    /\ polling <=> (failures >= Delays)
    /\ banner \in {"connecting", "open", "fallback"}
    /\ BannerIsTruthful

\* What a step may do that leaves the stream and the banner alone.
OtherFault == UNCHANGED faults \/ Fault

(* What a step can do to the connection.                                   *)
LEMMA ConnectionSteps ==
    ASSUME [Next]_vars
    PROVE  \/ Open \/ SendPage \/ Break \/ Reconnect
           \/ TakeFrame
           \/ UNCHANGED <<stream, connection>> /\ OtherFault
<1> USE QueueAssumption DEF connection, stream, OtherFault
<1>1. ASSUME NEW t \in Topics, Publish(t) \/ Fetch(t)
      PROVE  UNCHANGED <<stream, connection>> /\ OtherFault
  BY <1>1 DEF Publish, Fetch, FetchReads, FetchArrives, FetchFails, Retry
<1>2. CASE Expire
  BY <1>2 DEF Expire
<1>3. CASE Connection
  BY <1>3 DEF Connection, Receive, Poll
<1>4. CASE QueuePage
  BY <1>4 DEF QueuePage, Mutate, Accept, Reject, Refuse, LoseMutation, Settle, Unlock
<1>5. CASE UNCHANGED vars
  BY <1>5 DEF vars
<1> QED  BY <1>1, <1>2, <1>3, <1>4, <1>5 DEF Next

(* The page that iter_events reads is the table behind its cursor.         *)
LEMMA PageIsNext ==
    ASSUME DataInv, StreamInv, SendPage
    PROVE  /\ cursor' \in Ids /\ wire' \in Seq(1..MaxEvents)
           /\ Len(wire') <= cursor'
           /\ \A i \in 1..Len(wire') : wire'[i] = cursor' - Len(wire') + i
           /\ cursor' - Len(wire') >= cursor
           /\ \A e \in cursor + 1 .. cursor' - Len(wire') : e < low
<1> DEFINE first == Larger(cursor + 1, low)
<1> DEFINE last == Smaller(first + PageSize - 1, Len(log))
<1>1. /\ first <= last /\ cursor' = last
      /\ wire' = [i \in 1 .. last - first + 1 |-> first + i - 1]
  BY DEF SendPage
<1>2. cursor \in Nat /\ low \in Nat /\ Len(log) \in Nat /\ Len(log) <= MaxEvents
  BY SizeTypes DEF DataInv, StreamInv, Ids
<1>3. /\ first \in Nat /\ first >= cursor + 1 /\ first > 0
      /\ \A e \in cursor + 1 .. first - 1 : e < low
  BY <1>2 DEF Larger
<1>4. last \in Int /\ last <= Len(log)
  BY <1>2, <1>3, SizeTypes DEF Smaller
<1> HIDE DEF first, last
<1>5. last - first + 1 \in Nat /\ last \in Ids
  BY <1>1, <1>2, <1>3, <1>4, SizeTypes DEF Ids
<1>6. \A i \in 1 .. last - first + 1 : first + i - 1 \in 1..MaxEvents
  BY <1>2, <1>3, <1>4, SizeTypes
<1>7. wire' \in Seq(1..MaxEvents) /\ Len(wire') = last - first + 1
  <2> DEFINE n == last - first + 1
  <2>1. n \in Nat /\ wire' \in [1..n -> 1..MaxEvents]
    BY <1>1, <1>5, <1>6
  <2> HIDE DEF n
  <2>2. wire' \in Seq(1..MaxEvents) /\ Len(wire') = n
    <3>1. wire' \in Seq(1..MaxEvents)
      BY <2>1, SeqDef
    <3>2. Len(wire') \in Nat /\ 1..Len(wire') = 1..n
      BY <2>1, <3>1, LenProperties
    <3> QED  BY <2>1, <3>1, <3>2
  <2> QED  BY <2>2 DEF n
<1>8. \A i \in 1..Len(wire') : wire'[i] = first + i - 1
  BY <1>1, <1>7
<1> QED  BY <1>1, <1>2, <1>3, <1>4, <1>5, <1>7, <1>8

LEMMA StreamStep ==
    ASSUME DataInv, StreamInv, [Next]_vars
    PROVE  StreamInv'
<1> USE SizeTypes DEF Ids
<1>1. \A e \in Nat : Pruneable(e) => Pruneable(e)'
  BY PruneableForEver
<1>2. (UNCHANGED <<lastId, received>>) => NoEventSkipped'
  BY <1>1 DEF StreamInv, NoEventSkipped
<1>3. CASE Open
  <2>1. wire = <<>> /\ wire' = <<>> /\ link' = "open" /\ UNCHANGED <<lastId, received>> /\ cursor' = lastId
    BY <1>3 DEF Open, StreamInv
  <2>2. \A e \in lastId' + 1 .. cursor' - Len(wire') : Pruneable(e)'
    BY <2>1 DEF StreamInv
  <2> QED  BY <1>2, <2>1, <2>2 DEF StreamInv
<1>4. CASE SendPage
  <2>1. link = "open" /\ wire = <<>> /\ UNCHANGED connection
    BY <1>4 DEF SendPage
  <2>2. ASSUME NEW e \in lastId' + 1 .. cursor' - Len(wire') PROVE Pruneable(e)'
    <3>1. CASE e \in lastId + 1 .. cursor
      BY <1>1, <2>1, <3>1 DEF StreamInv
    <3>2. CASE e \in cursor + 1 .. cursor' - Len(wire')
      <4>1. e \in 1 .. low - 1
        BY <1>4, <3>2, PageIsNext DEF DataInv, StreamInv
      <4> QED  BY <1>1, <4>1 DEF DataInv, PrunedIsPruneable
    <3> QED  BY <1>4, <2>1, <3>1, <3>2, PageIsNext DEF connection, StreamInv
  <2>3. lastId' <= cursor' - Len(wire')
    BY <1>4, <2>1, PageIsNext DEF connection, StreamInv
  <2> QED  BY <1>2, <1>4, <2>1, <2>2, <2>3, PageIsNext DEF connection, StreamInv
<1>5. CASE TakeFrame
  <2>1. /\ wire # <<>> /\ lastId' = Head(wire) /\ wire' = Tail(wire)
        /\ received' = received \cup {Head(wire)} /\ UNCHANGED <<cursor, link>>
    BY <1>5 DEF TakeFrame
  <2>2. /\ link = "open" /\ Head(wire) = wire[1] /\ Head(wire) = cursor - Len(wire) + 1
        /\ Head(wire) \in 1..MaxEvents
    BY <2>1 DEF StreamInv
  <2>3. /\ wire' \in Seq(1..MaxEvents) /\ Len(wire') = Len(wire) - 1
        /\ \A i \in 1..Len(wire') : wire'[i] = wire[i + 1]
    BY <2>1 DEF StreamInv
  <2>4. \A i \in 1..Len(wire') : wire'[i] = cursor' - Len(wire') + i
    BY <2>1, <2>3 DEF StreamInv
  <2>5. NoEventSkipped'
    <3> SUFFICES ASSUME NEW e \in 1..lastId' PROVE e \in received' \/ Pruneable(e)'
      BY DEF NoEventSkipped
    <3>1. CASE e \in 1..lastId
      BY <1>1, <2>1, <3>1 DEF StreamInv, NoEventSkipped
    <3>2. CASE e \in lastId + 1 .. cursor - Len(wire)
      BY <1>1, <2>2, <3>2 DEF StreamInv
    <3>3. CASE e = Head(wire)
      BY <2>1, <3>3
    <3> QED  BY <2>1, <2>2, <3>1, <3>2, <3>3 DEF StreamInv
  <2>6. lastId' = cursor' - Len(wire') /\ lastId' \in Ids /\ received' \subseteq 1..MaxEvents
    <3>1. cursor \in Int /\ Len(wire) \in Int /\ received \subseteq 1..MaxEvents
      BY DEF StreamInv
    <3>2. lastId' = cursor - Len(wire) + 1 /\ cursor' = cursor
      BY <2>1, <2>2
    <3>3. lastId' = cursor' - Len(wire')
      BY <2>3, <3>1, <3>2
    <3>4. lastId' \in Ids
      BY <2>1, <2>2
    <3>5. received' \subseteq 1..MaxEvents
      BY <2>1, <2>2, <3>1
    <3> QED  BY <3>3, <3>4, <3>5
  <2>7. cursor' \in Ids /\ link' = "open" /\ Len(wire') <= cursor'
    BY <2>1, <2>2, <2>3 DEF StreamInv
  <2>8. Len(wire') \in Nat
    BY <2>3
  <2> QED  BY <2>3, <2>4, <2>5, <2>6, <2>7, <2>8 DEF StreamInv
<1>6. CASE Break
  BY <1>2, <1>6 DEF Break, StreamInv
<1>7. CASE Reconnect
  BY <1>2, <1>7 DEF Reconnect, stream, StreamInv
<1>8. CASE UNCHANGED <<stream, connection>>
  BY <1>1, <1>2, <1>8 DEF stream, connection, StreamInv
<1> QED  BY <1>3, <1>4, <1>5, <1>6, <1>7, <1>8, ConnectionSteps

(* The banner and the timer change together, at the last of the delays.    *)
LEMMA BannerStep ==
    ASSUME BannerInv, [Next]_vars
    PROVE  BannerInv'
<1> USE SizeTypes
<1>1. CASE Open
  <2>1. failures' \in Nat /\ faults' \in 0..MaxFaults /\ failures' <= faults' /\ ~(failures' >= Delays)
    BY <1>1 DEF Open, BannerInv
  <2>2. link' = "open" /\ banner' = "open" /\ polling' = FALSE
    BY <1>1 DEF Open
  <2> QED  BY <2>1, <2>2 DEF BannerInv, BannerIsTruthful
<1>2. CASE SendPage
  BY <1>2 DEF SendPage, connection, BannerInv, BannerIsTruthful
<1>3. CASE Break
  <2>1. failures' \in Nat /\ faults' \in 0..MaxFaults /\ failures' <= faults' /\ failures' = failures + 1
    BY <1>3 DEF Break, Fault, BannerInv
  <2>2. polling => failures' >= Delays
    BY <2>1 DEF BannerInv
  <2>3. link' = "waiting" /\ polling' = (polling \/ failures' >= Delays)
    BY <1>3 DEF Break
  <2>4. banner' = IF failures' >= Delays THEN "fallback" ELSE "connecting"
    BY <1>3 DEF Break
  <2>5. polling' \in BOOLEAN /\ (polling' <=> (failures' >= Delays))
    BY <2>2, <2>3
  <2> QED  BY <2>1, <2>3, <2>4, <2>5 DEF BannerInv, BannerIsTruthful
<1> USE DEF BannerInv, BannerIsTruthful
<1>4. CASE Reconnect
  BY <1>4 DEF Reconnect
<1>5. CASE TakeFrame
  BY <1>5 DEF TakeFrame
<1>6. CASE UNCHANGED <<stream, connection>> /\ OtherFault
  BY <1>6 DEF connection, OtherFault, Fault
<1> QED  BY <1>1, <1>2, <1>3, <1>4, <1>5, <1>6, ConnectionSteps

-----------------------------------------------------------------------------
(* The queries and the queue page *)

\* A rollback restores a confirmed order because a reorder starts from one.
QueryInv ==
    /\ cache \in [Topics -> Shown] /\ fetch \in [Topics -> Requests] /\ errored \subseteq Topics
    /\ mutation \in Mutations
    /\ \A t \in Topics : cache[t] = Optimistic => t = Queue
    /\ OptimismEnds

(* What a step can do to the queries.                                      *)
LEMMA QuerySteps ==
    ASSUME [Next]_vars
    PROVE  \/ \E T \in SUBSET Topics : Invalidate(T)
           \/ \E t \in Topics : FetchReads(t) \/ FetchArrives(t) \/ FetchFails(t)
           \/ QueuePage
           \/ UNCHANGED queries
<1>1. ASSUME NEW t \in Topics, Publish(t) \/ Fetch(t)
      PROVE  \/ Invalidate({t}) \/ FetchReads(t) \/ FetchArrives(t) \/ FetchFails(t)
             \/ UNCHANGED queries
  BY <1>1 DEF Publish, Fetch, Retry
<1>2. CASE Expire
  BY <1>2 DEF Expire
<1>3. CASE Receive
  <2> DEFINE T == {log[Head(wire)]} \cap Topics
  <2>1. Invalidate({log[Head(wire)]})
    BY <1>3 DEF Receive
  <2>2. Invalidate(T)
    BY <2>1 DEF Invalidate
  <2> QED  BY <2>2
<1>4. CASE Connection /\ ~Receive
  BY <1>4 DEF Connection, Open, SendPage, Break, Reconnect, Poll
<1>5. CASE UNCHANGED vars
  BY <1>5 DEF vars, queries
<1> QED  BY <1>1, <1>2, <1>3, <1>4, <1>5 DEF Next

LEMMA QueryStep ==
    ASSUME DataInv, QueryInv, [Next]_vars
    PROVE  QueryInv'
<1> USE QueueAssumption, SizeTypes
<1>1. version \in [Topics -> Versions] /\ version' \in [Topics -> Versions]
  BY DataStep DEF DataInv
<1>2. 0 \in Versions /\ Optimistic \notin Versions /\ Versions \subseteq Shown /\ Optimistic \in Shown
  BY DEF Versions, Optimistic, Shown
<1> USE DEF QueryInv, OptimismEnds
<1>3. ASSUME NEW T \in SUBSET Topics, Invalidate(T) PROVE QueryInv'
  <2>1. Asked \in Requests
    BY <1>2 DEF Asked, Requests
  <2> QED  BY <1>3, <2>1 DEF Invalidate
<1>4. ASSUME NEW t \in Topics, FetchReads(t) PROVE QueryInv'
  <2>1. [phase |-> "read", value |-> version[t]] \in Requests
    BY <1>1 DEF Requests
  <2> QED  BY <1>4, <2>1 DEF FetchReads
<1>5. ASSUME NEW t \in Topics, FetchArrives(t) PROVE QueryInv'
  <2>1. fetch[t].value \in Versions /\ Idle \in Requests
    BY <1>2 DEF Requests, Idle
  <2> QED  BY <1>2, <1>5, <2>1 DEF FetchArrives
<1>6. ASSUME NEW t \in Topics, FetchFails(t) PROVE QueryInv'
  <2>1. Idle \in Requests
    BY <1>2 DEF Requests, Idle
  <2> QED  BY <1>6, <2>1 DEF FetchFails
<1>7. CASE QueuePage
  <2>1. ASSUME NEW reorder \in BOOLEAN, Mutate(reorder) PROVE QueryInv'
    <3>1. mutation.phase = "none" /\ cache[Queue] \in Versions
      BY <1>2, <2>1 DEF Mutate, Shown
    <3>2. mutation' = [phase |-> "sent", previous |-> cache[Queue], reorder |-> reorder, answer |-> 0]
      BY <2>1 DEF Mutate
    <3>3. mutation' \in Mutations /\ mutation'.phase = "sent" /\ mutation'.reorder = reorder
      BY <1>2, <3>1, <3>2 DEF Mutations
    <3>4. fetch' \in [Topics -> Requests] /\ errored' = errored
      BY <1>2, <2>1 DEF Mutate, CancelQueueFetch, Idle, Requests
    <3>5. cache' = IF reorder THEN [cache EXCEPT ![Queue] = Optimistic] ELSE cache
      BY <2>1 DEF Mutate
    <3>6. cache' \in [Topics -> Shown] /\ \A t \in Topics : cache'[t] = Optimistic => t = Queue
      BY <1>2, <3>5
    <3>7. cache'[Queue] = Optimistic => reorder
      BY <1>2, <3>1, <3>5
    <3> QED  BY <3>3, <3>4, <3>6, <3>7
  <2>2. CASE Accept \/ Reject
    <3>1. /\ UNCHANGED <<cache, fetch, errored>>
          /\ mutation.phase = "sent"
          /\ \E p \in {"done", "conflict"}, v \in Versions :
                mutation' = [mutation EXCEPT !.phase = p, !.answer = v]
      BY <1>1, <2>2 DEF Accept, Reject
    <3>2. /\ mutation' \in Mutations /\ mutation'.reorder = mutation.reorder
          /\ mutation'.phase \in {"done", "conflict"}
      BY <3>1 DEF Mutations
    <3> QED  BY <3>1, <3>2
  <2>3. CASE Refuse \/ LoseMutation
    <3>1. UNCHANGED <<cache, fetch, errored>> /\ mutation' = [mutation EXCEPT !.phase = "failed"]
      BY <2>3 DEF Refuse, LoseMutation
    <3>2. mutation' \in Mutations /\ mutation'.reorder = mutation.reorder /\ mutation'.phase = "failed"
      BY <3>1 DEF Mutations
    <3> QED  BY <3>1, <3>2
  <2>4. CASE Settle
    <3>1. SettledValue \in Versions
      BY <1>2, <2>4 DEF Settle, SettledValue, Mutations, Shown
    <3>2. /\ cache' = [cache EXCEPT ![Queue] = SettledValue]
          /\ fetch' = [fetch EXCEPT ![Queue] = Asked]
          /\ errored' \subseteq errored
          /\ mutation' = [mutation EXCEPT !.phase = "settling"]
      BY <2>4 DEF Settle
    <3>3. mutation' \in Mutations
      BY <3>2 DEF Mutations
    <3>4. fetch' \in [Topics -> Requests]
      BY <1>2, <3>2 DEF Asked, Requests
    <3>5. /\ cache' \in [Topics -> Shown] /\ cache'[Queue] # Optimistic
          /\ \A t \in Topics : cache'[t] = Optimistic => t = Queue
      BY <1>2, <3>1, <3>2
    <3> QED  BY <3>2, <3>3, <3>4, <3>5
  <2>5. CASE Unlock
    <3>1. mutation.phase = "settling" /\ mutation' = Unlocked /\ UNCHANGED <<cache, fetch, errored>>
      BY <2>5 DEF Unlock
    <3>2. mutation' \in Mutations
      BY <1>2, <3>1 DEF Unlocked, Mutations
    <3> QED  BY <3>1, <3>2
  <2> QED  BY <1>7, <2>1, <2>2, <2>3, <2>4, <2>5 DEF QueuePage
<1>8. CASE UNCHANGED queries
  BY <1>8 DEF queries
<1> QED  BY <1>3, <1>4, <1>5, <1>6, <1>7, <1>8, QuerySteps

-----------------------------------------------------------------------------
(* News *)

\* No event is known before it is committed.
KnownInv ==
    /\ cursor <= Len(log) /\ lastId <= Len(log) /\ received \subseteq 1..Len(log)

(* The log only grows.                                                     *)
LEMMA LogGrows ==
    ASSUME DataInv, [Next]_vars
    PROVE  Len(log) \in Nat /\ Len(log') \in Nat /\ Len(log') >= Len(log)
<1>1. ASSUME NEW t \in Topics, Commit(t) PROVE Len(log') = Len(log) + 1
  BY <1>1 DEF Commit, DataInv
<1>2. CASE Expire
  BY <1>2 DEF Expire, data
<1>3. CASE UNCHANGED <<data, expired>>
  BY <1>3 DEF data
<1>4. Len(log) \in Nat
  BY DEF DataInv
<1> QED  BY <1>1, <1>2, <1>3, <1>4, DataSteps

LEMMA KnownStep ==
    ASSUME DataInv, StreamInv, KnownInv, [Next]_vars
    PROVE  KnownInv'
<1> DEFINE n == Len(log)
<1>1. n \in Nat /\ n' \in Nat /\ n' >= n
  BY LogGrows
<1>2. cursor \in Nat /\ lastId \in Nat /\ cursor' \in Nat /\ lastId' \in Nat
  BY StreamStep, SizeTypes DEF StreamInv, Ids
<1>3. cursor <= n /\ lastId <= n /\ received \subseteq 1..n
  BY DEF KnownInv
<1>4. SUFFICES cursor' <= n' /\ lastId' <= n' /\ received' \subseteq 1..n'
  BY DEF KnownInv
<1>5. CASE SendPage
  <2>1. cursor' <= n
    BY <1>1, <1>2, <1>5, SizeTypes DEF SendPage, Smaller, Larger, DataInv
  <2>2. UNCHANGED <<lastId, received>>
    BY <1>5 DEF SendPage, connection
  <2> HIDE DEF n
  <2> QED  BY <1>1, <1>2, <1>3, <2>1, <2>2
<1>6. CASE TakeFrame
  <2>1. lastId' = Head(wire) /\ received' = received \cup {Head(wire)} /\ cursor' = cursor
    BY <1>6 DEF TakeFrame
  <2>2. Head(wire) \in 1..n
    <3>1. wire # <<>>
      BY <1>6 DEF TakeFrame
    <3>2. Head(wire) \in 1..MaxEvents /\ Len(wire) >= 1 /\ Head(wire) = cursor - Len(wire) + 1
      BY <3>1, SizeTypes DEF StreamInv
    <3> QED  BY <1>1, <1>2, <1>3, <3>1, <3>2, LenProperties DEF StreamInv
  <2> HIDE DEF n
  <2>3. received' \subseteq 1..n
    BY <1>3, <2>1, <2>2
  <2>4. 1..n \subseteq 1..n'
    BY <1>1
  <2> QED  BY <1>1, <1>2, <1>3, <2>1, <2>2, <2>3, <2>4
<1>7. CASE Open \/ Break \/ Reconnect \/ UNCHANGED <<stream, connection>>
  <2>1. cursor' \in {cursor, lastId} /\ UNCHANGED <<lastId, received>>
    BY <1>7 DEF Open, Break, Reconnect, stream, connection
  <2> HIDE DEF n
  <2> QED  BY <1>1, <1>2, <1>3, <2>1
<1> QED  BY <1>5, <1>6, <1>7, ConnectionSteps

\* What NewsIsActedUpon says of one projection.
IsActedUpon(t) ==
    HasHeardOf(t) =>
        IsComing(t) \/ WillRequest(t) \/ (t \in errored /\ fetch[t].phase = "idle")

(* Nobody has heard of an event that is being committed; a commit leaves    *)
(* the last events of the other projections where they are.                *)
LEMMA CommitIsNews ==
    ASSUME DataInv, KnownInv, NEW t \in Topics, Commit(t), UNCHANGED received, NEW u \in Topics
    PROVE  /\ HasHeardOf(u)' => u # t /\ HasHeardOf(u)
           /\ u # t => version'[u] = version[u]
<1> DEFINE n == Len(log)
<1>1. /\ log' = Append(log, t) /\ n \in Nat /\ Len(log') = n + 1
      /\ log'[n + 1] = t /\ \A e \in 1..n : log'[e] = log[e]
      /\ version' = [version EXCEPT ![t] = @ + 1] /\ version \in [Topics -> Versions]
  BY DEF Commit, DataInv
<1>2. received' \subseteq 1..n
  BY DEF KnownInv
<1> SUFFICES ASSUME HasHeardOf(u)' PROVE u # t /\ HasHeardOf(u)
  BY <1>1
<1>3. \A e \in 1 .. n + 1 : IsNewest(e, u)' => e \in received'
  BY <1>1 DEF HasHeardOf
<1>4. u # t
  <2> SUFFICES ASSUME u = t PROVE FALSE
    OBVIOUS
  <2>1. PICK m \in Nat : m = n
    BY <1>1
  <2>2. IsNewest(m + 1, u)'
    BY <1>1, <2>1 DEF IsNewest
  <2>3. m + 1 \in received'
    BY <1>3, <2>1, <2>2
  <2> QED  BY <1>2, <2>1, <2>3
<1>5. ASSUME NEW e \in 1..n, IsNewest(e, u) PROVE e \in received
  <2>1. log'[e] = u /\ \A i \in e + 1 .. n + 1 : log'[i] # u
    BY <1>1, <1>4, <1>5 DEF IsNewest
  <2>2. IsNewest(e, u)'
    BY <1>1, <2>1 DEF IsNewest
  <2> QED  BY <1>1, <1>3, <2>2
<1> QED  BY <1>4, <1>5 DEF HasHeardOf

(* Who has heard of what, when nothing is committed.                       *)
LEMMA OldNews ==
    ASSUME UNCHANGED data, UNCHANGED received, NEW t \in Topics
    PROVE  (HasHeardOf(t)' <=> HasHeardOf(t)) /\ version' = version
BY DEF data, HasHeardOf, IsNewest

LEMMA NewsStep ==
    ASSUME DataInv, StreamInv, KnownInv, QueryInv, NewsIsActedUpon, [Next]_vars
    PROVE  NewsIsActedUpon'
<1> USE QueueAssumption
<1>1. SUFFICES ASSUME NEW t \in Topics PROVE IsActedUpon(t)'
  BY DEF NewsIsActedUpon, IsActedUpon
<1>2. IsActedUpon(t)
  BY DEF NewsIsActedUpon, IsActedUpon
<1> USE DEF IsActedUpon, IsComing, WillRequest
<1>3. cache \in [Topics -> Shown] /\ fetch \in [Topics -> Requests] /\ mutation \in Mutations
  BY DEF QueryInv
<1>4. ASSUME NEW u \in Topics, Publish(u) PROVE IsActedUpon(t)'
  <2>1. Commit(u) /\ UNCHANGED <<received, cache, fetch, errored, mutation>>
    BY <1>4 DEF Publish, connection, queries
  <2> QED  BY <1>2, <2>1, CommitIsNews
<1>5. CASE Accept
  <2>1. /\ Commit(Queue) /\ UNCHANGED <<received, cache, fetch, errored>>
        /\ mutation' = [mutation EXCEPT !.phase = "done", !.answer = version'[Queue]]
    BY <1>5 DEF Accept, connection
  <2>2. t = Queue => ~HasHeardOf(t)'
    BY <2>1, CommitIsNews
  <2>3. t # Queue => (HasHeardOf(t)' => HasHeardOf(t)) /\ version'[t] = version[t]
    BY <2>1, CommitIsNews
  <2> QED  BY <1>2, <2>1, <2>2, <2>3
<1>6. CASE Receive
  <2>1. TakeFrame /\ Invalidate({log[Head(wire)]}) /\ UNCHANGED data
    BY <1>6 DEF Receive, TakeFrame
  <2>2. /\ fetch' = [u \in Topics |-> IF u = log[Head(wire)] THEN Asked ELSE fetch[u]]
        /\ UNCHANGED <<cache, errored, mutation, version, log>>
        /\ received' = received \cup {Head(wire)}
    BY <2>1 DEF Invalidate, TakeFrame, data
  <2>3. CASE t = log[Head(wire)]
    BY <2>2, <2>3 DEF Asked
  <2>4. CASE t # log[Head(wire)]
    <3>1. HasHeardOf(t)' => HasHeardOf(t)
      BY <2>2, <2>4 DEF HasHeardOf, IsNewest
    <3> QED  BY <1>2, <2>2, <2>4, <3>1
  <2> QED  BY <2>3, <2>4
<1>7. ASSUME NEW T \in SUBSET Topics, Invalidate(T), UNCHANGED data, UNCHANGED received
      PROVE  IsActedUpon(t)'
  BY <1>2, <1>7, OldNews DEF Invalidate, Asked
<1>8. ASSUME NEW u \in Topics, FetchReads(u) \/ FetchArrives(u) \/ FetchFails(u)
      PROVE  IsActedUpon(t)'
  <2>1. UNCHANGED <<data, received>> /\ UNCHANGED mutation
    BY <1>8 DEF FetchReads, FetchArrives, FetchFails, connection
  <2>2. CASE FetchReads(u)
    BY <1>2, <1>3, <2>1, <2>2, OldNews DEF FetchReads
  <2>3. CASE FetchArrives(u)
    BY <1>2, <1>3, <2>1, <2>3, OldNews DEF FetchArrives, Idle
  <2>4. CASE FetchFails(u)
    BY <1>2, <1>3, <2>1, <2>4, OldNews DEF FetchFails, Idle
  <2> QED  BY <1>8, <2>2, <2>3, <2>4
<1>9. CASE QueuePage /\ ~Accept
  <2>1. UNCHANGED data /\ UNCHANGED received
    BY <1>9 DEF QueuePage, Mutate, Reject, Refuse, LoseMutation, Settle, Unlock, connection
  <2>2. ASSUME NEW reorder \in BOOLEAN, Mutate(reorder) PROVE IsActedUpon(t)'
    <3>1. /\ mutation'.phase = "sent" /\ errored' = errored
          /\ t # Queue => cache'[t] = cache[t] /\ fetch'[t] = fetch[t]
      BY <1>3, <2>2 DEF Mutate, CancelQueueFetch
    <3> QED  BY <1>2, <2>1, <3>1, OldNews
  <2>3. CASE Reject \/ Refuse \/ LoseMutation
    <3>1. UNCHANGED <<cache, fetch, errored>>
      BY <2>3 DEF Reject, Refuse, LoseMutation
    <3>2. mutation'.phase \in {"conflict", "failed"}
      BY <1>3, <2>3 DEF Reject, Refuse, LoseMutation, Mutations
    <3> QED  BY <1>2, <2>1, <3>1, <3>2, OldNews
  <2>4. CASE Settle
    <3>1. /\ cache' = [cache EXCEPT ![Queue] = SettledValue]
          /\ fetch' = [fetch EXCEPT ![Queue] = Asked]
          /\ errored' \in {errored, errored \ {Queue}}
      BY <2>4 DEF Settle
    <3>2. CASE t = Queue
      BY <1>3, <3>1, <3>2 DEF Asked
    <3>3. CASE t # Queue
      BY <1>2, <1>3, <2>1, <3>1, <3>3, OldNews
    <3> QED  BY <3>2, <3>3
  <2>5. CASE Unlock
    BY <1>2, <2>1, <2>5, OldNews DEF Unlock
  <2> QED  BY <1>9, <2>2, <2>3, <2>4, <2>5 DEF QueuePage
<1>10. CASE UNCHANGED queries /\ UNCHANGED data /\ UNCHANGED received
  BY <1>2, <1>10, OldNews DEF queries
<1>11. ASSUME NEW u \in Topics, Fetch(u) PROVE IsActedUpon(t)'
  <2>1. Retry(u) => Invalidate({u}) /\ UNCHANGED data /\ UNCHANGED received
    BY DEF Retry, connection
  <2> QED  BY <1>7, <1>8, <1>11, <2>1 DEF Fetch
<1>12. CASE Connection
  <2>1. Poll => Invalidate(Topics) /\ UNCHANGED data /\ UNCHANGED received
    BY DEF Poll, connection
  <2>2. Open \/ SendPage \/ Break \/ Reconnect => UNCHANGED queries /\ UNCHANGED data /\ UNCHANGED received
    BY DEF Open, SendPage, Break, Reconnect, connection
  <2> QED  BY <1>6, <1>7, <1>10, <1>12, <2>1, <2>2 DEF Connection
<1>13. CASE Expire \/ UNCHANGED vars
  BY <1>10, <1>13 DEF Expire, connection, data, queries, vars
<1> QED  BY <1>4, <1>5, <1>9, <1>11, <1>12, <1>13 DEF Next

-----------------------------------------------------------------------------
(* The theorems *)

IInv == DataInv /\ StreamInv /\ BannerInv /\ QueryInv /\ KnownInv /\ NewsIsActedUpon

LEMMA InitialState == Init => IInv
<1> SUFFICES ASSUME Init PROVE IInv
  OBVIOUS
<1> USE SizeTypes, QueueAssumption DEF Init
<1>1. DataInv
  BY DEF DataInv, PrunedIsPruneable, Versions, Ids
<1>2. StreamInv
  BY DEF StreamInv, NoEventSkipped, Ids
<1>3. BannerInv
  <2>1. failures \in Nat /\ faults \in 0..MaxFaults /\ failures <= faults /\ ~(failures >= Delays)
    OBVIOUS
  <2> QED  BY <2>1 DEF BannerInv, BannerIsTruthful
<1>4. QueryInv
  <2>1. cache \in [Topics -> Shown] /\ \A t \in Topics : cache[t] # Optimistic
    BY DEF Shown, Versions, Optimistic
  <2>2. fetch \in [Topics -> Requests] /\ mutation \in Mutations
    BY DEF Idle, Requests, Unlocked, Mutations, Versions
  <2> QED  BY <2>1, <2>2 DEF QueryInv, OptimismEnds
<1>5. KnownInv
  BY DEF KnownInv
<1>6. NewsIsActedUpon
  BY DEF NewsIsActedUpon, IsComing, Idle
<1> QED  BY <1>1, <1>2, <1>3, <1>4, <1>5, <1>6 DEF IInv

LEMMA Invariance == Spec => []IInv
<1>1. IInv /\ [Next]_vars => IInv'
  BY DataStep, StreamStep, BannerStep, QueryStep, KnownStep, NewsStep DEF IInv
<1> QED  BY <1>1, InitialState, PTL DEF Spec

(* Type correctness of the database, the connection and the queries.       *)
THEOREM TypeCorrect == Spec => []TypeOK
<1>1. IInv => TypeOK
  <2> SUFFICES ASSUME IInv PROVE TypeOK
    OBVIOUS
  <2>1. failures \in 0..MaxFaults
    BY SizeTypes DEF IInv, BannerInv
  <2> QED  BY <2>1 DEF IInv, DataInv, StreamInv, BannerInv, QueryInv, TypeOK
<1> QED  BY <1>1, Invariance, PTL

(* Replay leaves no gap: over every failure, page and pruning, a browser   *)
(* has received whatever lies before its cursor, unless the event was      *)
(* expired and outside the retained window.                                *)
THEOREM ReplayLeavesNoGap == Spec => []NoEventSkipped
<1>1. IInv => NoEventSkipped
  BY DEF IInv, StreamInv
<1> QED  BY <1>1, Invariance, PTL

(* The banner tells the truth: "open" of an open stream only, "fallback"   *)
(* exactly while the fallback timer runs.                                  *)
THEOREM BannerTellsTheTruth == Spec => []BannerIsTruthful
<1>1. IInv => BannerIsTruthful
  BY DEF IInv, BannerInv
<1> QED  BY <1>1, Invariance, PTL

(* An order no server has confirmed is shown only while its reorder runs.  *)
THEOREM OptimismIsRolledBack == Spec => []OptimismEnds
<1>1. IInv => OptimismEnds
  BY DEF IInv, QueryInv
<1> QED  BY <1>1, Invariance, PTL

(* No received event is lost on the way to the screen: a projection whose   *)
(* latest event arrived is current, is being read, will be read when the   *)
(* mutation settles, or says that reading it failed.                       *)
THEOREM NoNewsIsLost == Spec => []NewsIsActedUpon
<1>1. IInv => NewsIsActedUpon
  BY DEF IInv
<1> QED  BY <1>1, Invariance, PTL

-----------------------------------------------------------------------------
(* A browser at rest *)

\* What the browser has passed without receiving it is no longer in the table.
SkippedIsPruned ==
    /\ \A e \in 1..lastId : e \in received \/ e < low
    /\ link = "open" => \A e \in lastId + 1 .. cursor - Len(wire) : e < low

LEMMA SkippedStep ==
    ASSUME IInv, SkippedIsPruned, [Next]_vars
    PROVE  SkippedIsPruned'
<1> USE DEF Ids
<1>0. /\ DataInv /\ StreamInv /\ low \in Nat /\ lastId \in Nat /\ cursor \in Nat
      /\ DataInv' /\ low' \in Nat
  BY DataStep, SizeTypes DEF IInv, DataInv, StreamInv
<1>1. low' >= low
  <2>1. ASSUME NEW t \in Topics, Commit(t) PROVE low' >= low
    BY <1>0, <2>1 DEF Commit, Pruned, Larger
  <2> QED  BY <1>0, <2>1, DataSteps DEF Expire, data
<1>2. (UNCHANGED <<lastId, received>>) => \A e \in 1..lastId' : e \in received' \/ e < low'
  BY <1>0, <1>1 DEF SkippedIsPruned
<1>3. CASE Open
  BY <1>0, <1>1, <1>2, <1>3 DEF Open, StreamInv, SkippedIsPruned
<1>4. CASE SendPage
  <2>1. link = "open" /\ wire = <<>> /\ UNCHANGED <<lastId, received, low>>
    BY <1>4 DEF SendPage, connection, data
  <2>2. ASSUME NEW e \in lastId' + 1 .. cursor' - Len(wire') PROVE e < low'
    <3>1. cursor' \in Nat /\ Len(wire') \in Nat /\ \A d \in cursor + 1 .. cursor' - Len(wire') : d < low
      <4>1. /\ cursor' \in Ids /\ wire' \in Seq(1..MaxEvents)
            /\ \A d \in cursor + 1 .. cursor' - Len(wire') : d < low
        BY <1>0, <1>4, PageIsNext
      <4>2. Len(wire') \in Nat /\ cursor' \in Nat
        BY <4>1, SizeTypes
      <4> QED  BY <4>1, <4>2
    <3>2. CASE e \in lastId + 1 .. cursor
      BY <1>0, <2>1, <3>2 DEF SkippedIsPruned
    <3>3. CASE e \in cursor + 1 .. cursor' - Len(wire')
      BY <2>1, <3>1, <3>3
    <3> QED  BY <1>0, <2>1, <3>1, <3>2, <3>3
  <2> QED  BY <1>2, <2>1, <2>2 DEF SkippedIsPruned
<1>5. CASE TakeFrame
  <2>1. /\ wire # <<>> /\ lastId' = Head(wire) /\ wire' = Tail(wire)
        /\ received' = received \cup {Head(wire)} /\ UNCHANGED <<cursor, link, low>>
    BY <1>5 DEF TakeFrame, data
  <2>2. /\ link = "open" /\ Head(wire) = cursor - Len(wire) + 1
        /\ Len(wire) \in Nat /\ Len(wire') = Len(wire) - 1
    BY <1>0, <2>1 DEF StreamInv
  <2>3. ASSUME NEW e \in 1..lastId' PROVE e \in received' \/ e < low'
    BY <1>0, <2>1, <2>2, <2>3 DEF SkippedIsPruned
  <2>4. cursor' - Len(wire') = lastId'
    BY <1>0, <2>1, <2>2
  <2> QED  BY <1>0, <2>1, <2>3, <2>4 DEF SkippedIsPruned
<1>6. CASE Break
  BY <1>2, <1>6 DEF Break, SkippedIsPruned
<1>7. CASE Reconnect
  BY <1>2, <1>7 DEF Reconnect, SkippedIsPruned
<1>8. CASE UNCHANGED <<stream, connection>>
  <2>1. UNCHANGED <<cursor, wire, link, lastId, received>> /\ Len(wire) \in Nat
    BY <1>0, <1>8 DEF stream, connection, StreamInv
  <2>2. ASSUME NEW e \in lastId' + 1 .. cursor' - Len(wire'), link' = "open" PROVE e < low'
    <3>1. e \in lastId + 1 .. cursor - Len(wire) /\ link = "open"
      BY <2>1, <2>2
    <3>2. e < low /\ e \in Int
      BY <1>0, <2>1, <3>1 DEF SkippedIsPruned
    <3> QED  BY <1>0, <1>1, <3>2
  <2> QED  BY <1>2, <2>1, <2>2 DEF SkippedIsPruned
<1> QED  BY <1>3, <1>4, <1>5, <1>6, <1>7, <1>8, ConnectionSteps

(* A browser at rest is up to date: no interleaving of commits, pruning,    *)
(* reconnections, polls, failed requests and mutations of the queue comes   *)
(* to a state in which nothing is left to do and a page is stale without    *)
(* saying so, unless its last event was pruned unseen.  With fair scheduling*)
(* this is what makes pages eventually fresh.                               *)
THEOREM QuietIsFresh == Spec => []QuietPagesAreFresh
<1>1. Init => SkippedIsPruned
  BY DEF Init, SkippedIsPruned
<1>2. IInv /\ SkippedIsPruned /\ [Next]_vars => SkippedIsPruned'
  BY SkippedStep
<1>3. IInv /\ SkippedIsPruned => QuietPagesAreFresh
  <2> SUFFICES ASSUME IInv, SkippedIsPruned, Quiet, NEW t \in Topics,
                      ~ \E e \in 1 .. low - 1 : IsNewest(e, t) /\ e \notin received
               PROVE  cache[t] = version[t] \/ t \in errored
    BY DEF QuietPagesAreFresh
  <2>1. /\ low \in Nat /\ lastId \in Nat /\ cursor \in Nat /\ Len(log) \in Nat
        /\ link = "open" /\ Len(wire) = 0 /\ Len(log) < Larger(cursor + 1, low)
    BY SizeTypes DEF Quiet, IInv, DataInv, StreamInv, Ids
  <2>2. ASSUME NEW e \in 1..Len(log), e \notin received
        PROVE  e < low
    <3>1. e \in 1..lastId => e < low
      BY <2>2 DEF SkippedIsPruned
    <3>2. e \in lastId + 1 .. cursor => e < low
      BY <2>1 DEF SkippedIsPruned
    <3>3. e > cursor => e < low
      BY <2>1 DEF Larger
    <3> QED  BY <2>1, <3>1, <3>2, <3>3
  <2>3. HasHeardOf(t)
    BY <2>1, <2>2 DEF HasHeardOf
  <2>4. fetch[t].phase = "idle" /\ ~WillRequest(t)
    BY DEF Quiet, Idle, WillRequest
  <2> QED  BY <2>3, <2>4 DEF IInv, NewsIsActedUpon, IsComing
<1> QED  BY <1>1, <1>2, <1>3, Invariance, PTL DEF Spec

=============================================================================

---------------------------- MODULE EventStream ----------------------------
(***************************************************************************)
(* How a browser follows the database.                                     *)
(*                                                                         *)
(* A transaction that changes what a browser shows (the task list, the queue)*)
(* stages an event in the durable WorkstationEvent table.  The API streams the*)
(* table to a browser (services/workstation_events.py), which refetches the*)
(* projection an event names (web/src/workstation/api), reconnects after a *)
(* failure with the last identifier it saw, and polls once it has failed too*)
(* often.  The queue page also changes the queue, showing the new order before*)
(* the server has answered (features/queue/QueuePage.tsx).                 *)
(*                                                                         *)
(* A projection is known by its version.  The caches start loaded.         *)
(***************************************************************************)
EXTENDS Integers, Sequences

CONSTANTS
    Topics,       \* projections a browser caches
    Queue,        \* the one the queue page changes
    PageSize,     \* _EVENT_PAGE_SIZE
    Retain,       \* _EVENT_RETENTION_COUNT
    Delays,       \* length of workstationReconnectDelays
    MaxEvents,    \* bound: events ever published
    MaxFaults     \* bound: broken connections and failed requests

ASSUME QueueAssumption == Queue \in Topics
ASSUME SizesAssumption ==
    /\ PageSize \in Nat \ {0} /\ Retain \in Nat \ {0} /\ Delays \in Nat \ {0}
    /\ MaxEvents \in Nat /\ MaxFaults \in Nat

VARIABLES
    version,    \* how often each projection has changed
    log,        \* the topic of every event ever published; its index is its id
    low,        \* the oldest event still in the table
    expired,    \* events up to here are older than _EVENT_RETENTION
    cursor,     \* iter_events: the last event read from the table
    wire,       \* frames on their way to the browser
    link,       \* the EventSource: "connecting", "open", or "waiting" to retry
    lastId,     \* lastReceivedEventId
    received,   \* history: every event this browser has received
    failures,   \* consecutiveFailures
    polling,    \* the fallback timer runs
    banner,     \* the connection state the user sees
    cache,      \* the version each query holds
    fetch,      \* the request each query has under way
    errored,    \* queries whose last request failed, and say so
    mutation,   \* the queue page's mutation
    faults      \* failures so far

data == <<version, log, low>>
stream == <<cursor, wire>>
connection == <<link, lastId, received, failures, polling, banner>>
queries == <<cache, fetch, errored, mutation>>
vars == <<version, log, low, expired, cursor, wire, link, lastId, received, failures,
          polling, banner, cache, fetch, errored, mutation, faults>>

-----------------------------------------------------------------------------
Optimistic == -1     \* an order of the queue no server has confirmed
Versions == 0..MaxEvents
Shown == Versions \cup {Optimistic}

Idle == [phase |-> "idle", value |-> 0]
Asked == [phase |-> "asked", value |-> 0]
Requests == [phase : {"idle", "asked", "read"}, value : Versions]

\* previous is the rollback of a reorder; answer is what the server said.
Unlocked == [phase |-> "none", previous |-> 0, reorder |-> FALSE, answer |-> 0]
Mutations == [phase : {"none", "sent", "done", "conflict", "failed", "settling"},
              previous : Versions, reorder : BOOLEAN, answer : Versions]

Larger(a, b) == IF a > b THEN a ELSE b
Smaller(a, b) == IF a < b THEN a ELSE b

Init ==
    /\ version = [t \in Topics |-> 0]
    /\ log = <<>>
    /\ low = 1
    /\ expired = 0
    /\ cursor = 0 /\ wire = <<>>
    /\ link = "connecting"
    /\ lastId = 0 /\ received = {}
    /\ failures = 0
    /\ polling = FALSE
    /\ banner = "connecting"
    /\ cache = [t \in Topics |-> 0]
    /\ fetch = [t \in Topics |-> Idle]
    /\ errored = {}
    /\ mutation = Unlocked
    /\ faults = 0

Fault == faults < MaxFaults /\ faults' = faults + 1

-----------------------------------------------------------------------------
(* The database *)

\* _prune_expired_events: drop what is both expired and before the newest
\* Retain events.
Pruned(length) ==
    IF length - low + 1 < Retain THEN low
    ELSE Larger(low, Smaller(expired + 1, length - Retain + 1))

\* A projection changes, and its event is staged in the same transaction.
Commit(t) ==
    /\ Len(log) < MaxEvents
    /\ version' = [version EXCEPT ![t] = @ + 1]
    /\ log' = Append(log, t)
    /\ low' = Pruned(Len(log'))

\* The worker or another browser commits.  (The last event of the bound is
\* kept for a mutation under way.)
Publish(t) ==
    /\ mutation.phase = "sent" => Len(log) + 1 < MaxEvents
    /\ Commit(t)
    /\ UNCHANGED <<expired, stream, connection, queries, faults>>

\* Seven days pass for some events.
Expire ==
    /\ \E e \in expired + 1 .. Len(log) : expired' = e
    /\ UNCHANGED <<data, stream, connection, queries, faults>>

-----------------------------------------------------------------------------
(* The connection *)

\* Fault: the stream starts at the newest event, whatever the browser saw.
OpenAtEnd ==
    /\ link = "connecting"
    /\ link' = "open" /\ failures' = 0 /\ polling' = FALSE /\ banner' = "open"
    /\ cursor' = Len(log)
    /\ UNCHANGED <<data, expired, wire, lastId, received, queries, faults>>

\* onopen: iter_events starts behind the cursor the browser asked for.
Open ==
    /\ link = "connecting"
    /\ link' = "open" /\ failures' = 0 /\ polling' = FALSE /\ banner' = "open"
    /\ cursor' = lastId
    /\ UNCHANGED <<data, expired, wire, lastId, received, queries, faults>>

\* Fault: the page starts at the cursor instead of behind it.
SendPageInclusive ==
    /\ link = "open" /\ wire = <<>>
    /\ LET first == Larger(Larger(cursor, 1), low)
           last == Smaller(first + PageSize - 1, Len(log))
       IN  /\ first <= last
           /\ wire' = [i \in 1 .. last - first + 1 |-> first + i - 1]
           /\ cursor' = last
    /\ UNCHANGED <<data, expired, connection, queries, faults>>

\* iter_events: the next page of the table.  Frames arrive in order, so one
\* page under way stands for any number of them.
SendPage ==
    /\ link = "open" /\ wire = <<>>
    /\ LET first == Larger(cursor + 1, low)
           last == Smaller(first + PageSize - 1, Len(log))
       IN  /\ first <= last
           /\ wire' = [i \in 1 .. last - first + 1 |-> first + i - 1]
           /\ cursor' = last
    /\ UNCHANGED <<data, expired, connection, queries, faults>>

\* Fault: the retry that follows the last delay does not start the polling.
BreakWithoutPolling ==
    /\ link \in {"connecting", "open"}
    /\ Fault
    /\ link' = "waiting" /\ wire' = <<>>
    /\ failures' = failures + 1
    /\ polling' = (polling \/ failures' > Delays)
    /\ banner' = IF failures' >= Delays THEN "fallback" ELSE "connecting"
    /\ UNCHANGED <<data, expired, cursor, lastId, received, queries>>

\* onerror: close, count, and try again after a delay.  Undelivered frames go.
Break ==
    /\ link \in {"connecting", "open"}
    /\ Fault
    /\ link' = "waiting" /\ wire' = <<>>
    /\ failures' = failures + 1
    /\ polling' = (polling \/ failures' >= Delays)
    /\ banner' = IF failures' >= Delays THEN "fallback" ELSE "connecting"
    /\ UNCHANGED <<data, expired, cursor, lastId, received, queries>>

\* The retry timer: connect.
Reconnect ==
    /\ link = "waiting"
    /\ link' = "connecting"
    /\ banner' = IF failures >= Delays THEN "fallback" ELSE "connecting"
    /\ UNCHANGED <<data, expired, stream, lastId, received, failures, polling, queries, faults>>

-----------------------------------------------------------------------------
(* The queries of the browser *)

\* invalidateQueries: the queries T are requested anew.  A request under way is
\* superseded, and whoever awaits it awaits the new one.
Invalidate(T) ==
    /\ fetch' = [t \in Topics |-> IF t \in T THEN Asked ELSE fetch[t]]
    /\ UNCHANGED <<cache, errored, mutation>>

\* A frame of the stream is taken: lastReceivedEventId is its identifier.
TakeFrame ==
    /\ wire # <<>>
    /\ lastId' = Head(wire) /\ wire' = Tail(wire)
    /\ received' = received \cup {Head(wire)}
    /\ UNCHANGED <<data, expired, cursor, link, failures, polling, banner, faults>>

\* Fault: a projection that is being requested is not requested again.
ReceiveOncePerFetch ==
    /\ TakeFrame
    /\ LET t == log[Head(wire)]
       IN  IF fetch[t] = Idle THEN Invalidate({t}) ELSE UNCHANGED queries

\* An event arrives: remember its identifier, request its projection.
Receive ==
    /\ TakeFrame
    /\ Invalidate({log[Head(wire)]})

\* The fallback timer requests everything.
Poll ==
    /\ polling
    /\ Invalidate(Topics)
    /\ UNCHANGED <<data, expired, stream, connection, faults>>

\* A user presses "read again" on a page that shows an error.
Retry(t) ==
    /\ t \in errored
    /\ Invalidate({t})
    /\ UNCHANGED <<data, expired, stream, connection, faults>>

\* The server answers a request ...
FetchReads(t) ==
    /\ fetch[t].phase = "asked"
    /\ fetch' = [fetch EXCEPT ![t] = [phase |-> "read", value |-> version[t]]]
    /\ UNCHANGED <<data, expired, stream, connection, cache, errored, mutation, faults>>

\* ... and the answer arrives.
FetchArrives(t) ==
    /\ fetch[t].phase = "read"
    /\ cache' = [cache EXCEPT ![t] = fetch[t].value]
    /\ fetch' = [fetch EXCEPT ![t] = Idle]
    /\ errored' = errored \ {t}
    /\ UNCHANGED <<data, expired, stream, connection, mutation, faults>>

\* A failed request is not repeated ("retry: false"): the page shows an error.
FetchFails(t) ==
    /\ fetch[t].phase # "idle"
    /\ Fault
    /\ fetch' = [fetch EXCEPT ![t] = Idle]
    /\ errored' = errored \cup {t}
    /\ UNCHANGED <<data, expired, stream, connection, cache, mutation>>

-----------------------------------------------------------------------------
(* The queue page *)

CancelQueueFetch == fetch' = [fetch EXCEPT ![Queue] = Idle]

\* Fault: the rollback is remembered after the new order is shown.
MutateThenRemember(reorder) ==
    /\ Len(log) < MaxEvents
    /\ mutation.phase = "none" /\ Queue \notin errored
    /\ CancelQueueFetch
    /\ cache' = IF reorder THEN [cache EXCEPT ![Queue] = Optimistic] ELSE cache
    /\ mutation' = [phase |-> "sent", previous |-> cache'[Queue],
                    reorder |-> reorder, answer |-> 0]
    /\ UNCHANGED <<data, expired, stream, connection, errored, faults>>

\* reorder and setState, unless a mutation runs.  A reorder is shown at once.
Mutate(reorder) ==
    /\ Len(log) < MaxEvents
    /\ mutation.phase = "none" /\ Queue \notin errored
    /\ mutation' = [phase |-> "sent", previous |-> cache[Queue],
                    reorder |-> reorder, answer |-> 0]
    /\ CancelQueueFetch
    /\ cache' = IF reorder THEN [cache EXCEPT ![Queue] = Optimistic] ELSE cache
    /\ UNCHANGED <<data, expired, stream, connection, errored, faults>>

\* The server commits, the answer carries the new snapshot.  A reorder must
\* have been made on the current revision.
Accept ==
    /\ mutation.phase = "sent"
    /\ mutation.reorder => mutation.previous = version[Queue]
    /\ Commit(Queue)
    /\ mutation' = [mutation EXCEPT !.phase = "done", !.answer = version'[Queue]]
    /\ UNCHANGED <<expired, stream, connection, cache, fetch, errored, faults>>

\* 409 with the authoritative snapshot.
Reject ==
    /\ mutation.phase = "sent" /\ mutation.reorder
    /\ mutation.previous # version[Queue]
    /\ mutation' = [mutation EXCEPT !.phase = "conflict", !.answer = version[Queue]]
    /\ UNCHANGED <<data, expired, stream, connection, cache, fetch, errored, faults>>

\* A state change of a task that no longer waits: 404 or 409 without a snapshot.
Refuse ==
    /\ mutation.phase = "sent" /\ ~mutation.reorder
    /\ mutation' = [mutation EXCEPT !.phase = "failed"]
    /\ UNCHANGED <<data, expired, stream, connection, cache, fetch, errored, faults>>

\* The request or its answer is lost, or another error comes back.
LoseMutation ==
    /\ mutation.phase \in {"sent", "done", "conflict"}
    /\ Fault
    /\ mutation' = [mutation EXCEPT !.phase = "failed"]
    /\ UNCHANGED <<data, expired, stream, connection, cache, fetch, errored>>

\* Fault: a failed reorder is not rolled back.
SettledValueWithoutRollback ==
    IF mutation.phase = "failed" THEN cache[Queue] ELSE mutation.answer

\* What onSuccess or onError leaves in the cache.
SettledValue ==
    CASE mutation.phase \in {"done", "conflict"} -> mutation.answer
      [] mutation.phase = "failed" /\ mutation.reorder -> mutation.previous
      [] OTHER -> cache[Queue]

\* onSuccess or onError, then onSettled requests the queue anew.
Settle ==
    /\ mutation.phase \in {"done", "conflict", "failed"}
    /\ cache' = [cache EXCEPT ![Queue] = SettledValue]
    /\ fetch' = [fetch EXCEPT ![Queue] = Asked]
    /\ errored' = IF mutation.phase = "failed" /\ ~mutation.reorder
                  THEN errored ELSE errored \ {Queue}
    /\ mutation' = [mutation EXCEPT !.phase = "settling"]
    /\ UNCHANGED <<data, expired, stream, connection, faults>>

\* Fault: the lock is released only by a refetch that succeeds.
UnlockOnSuccess ==
    /\ mutation.phase = "settling" /\ fetch[Queue] = Idle /\ Queue \notin errored
    /\ mutation' = Unlocked
    /\ UNCHANGED <<data, expired, stream, connection, cache, fetch, errored, faults>>

\* The refetch has ended, one way or the other: mutationLockRef is released.
Unlock ==
    /\ mutation.phase = "settling" /\ fetch[Queue] = Idle
    /\ mutation' = Unlocked
    /\ UNCHANGED <<data, expired, stream, connection, cache, fetch, errored, faults>>

-----------------------------------------------------------------------------
Connection == Open \/ SendPage \/ Break \/ Reconnect \/ Receive \/ Poll

Fetch(t) == FetchReads(t) \/ FetchArrives(t) \/ FetchFails(t) \/ Retry(t)

QueuePage ==
    \/ \E reorder \in BOOLEAN : Mutate(reorder)
    \/ Accept \/ Reject \/ Refuse \/ LoseMutation \/ Settle \/ Unlock

Next ==
    \/ \E t \in Topics : Publish(t) \/ Fetch(t)
    \/ Expire
    \/ Connection
    \/ QueuePage

Spec == Init /\ [][Next]_vars

\* The API answers or the request fails, the event loops run, timers fire; an
\* answer is not overtaken by the next poll for ever.
Fairness ==
    /\ WF_vars(Open) /\ WF_vars(SendPage) /\ WF_vars(Reconnect) /\ WF_vars(Receive)
    /\ \A t \in Topics : WF_vars(FetchReads(t)) /\ SF_vars(FetchArrives(t))
    /\ WF_vars(Accept \/ Reject \/ Refuse \/ LoseMutation)
    /\ WF_vars(Settle) /\ WF_vars(Unlock)

FairSpec == Spec /\ Fairness

-----------------------------------------------------------------------------
(* Properties *)

Ids == 0..MaxEvents

\* Every variable holds a value of its kind.
TypeOK ==
    /\ version \in [Topics -> Versions] /\ log \in Seq(Topics)
    /\ low \in 1..MaxEvents + 1 /\ expired \in Ids
    /\ cursor \in Ids /\ wire \in Seq(1..MaxEvents)
    /\ link \in {"connecting", "open", "waiting"} /\ lastId \in Ids /\ received \subseteq 1..MaxEvents
    /\ failures \in 0..MaxFaults /\ polling \in BOOLEAN
    /\ banner \in {"connecting", "open", "fallback"}
    /\ cache \in [Topics -> Shown] /\ fetch \in [Topics -> Requests] /\ errored \subseteq Topics
    /\ mutation \in Mutations /\ faults \in 0..MaxFaults

IsNewest(e, t) == log[e] = t /\ \A i \in e + 1 .. Len(log) : log[i] # t

\* The browser has received the last event of a projection, if there is one.
HasHeardOf(t) == \A e \in 1..Len(log) : IsNewest(e, t) => e \in received

\* Deleted although the browser had not received it.
Pruneable(e) == e <= expired /\ e + Retain <= Len(log)

\* A reconnecting browser resumes behind the last event it received, over
\* every failure, page and pruning: whatever lies before its cursor it has
\* received, or it slept until the event was both expired and outside the
\* retained window (iter_events, _prune_expired_events, lastReceivedEventId).
NoEventSkipped == \A e \in 1..lastId : e \in received \/ Pruneable(e)

\* The queue page has yet to request the queue for its mutation.
WillRequest(t) == t = Queue /\ mutation.phase \in {"sent", "done", "conflict", "failed"}

\* What the browser shows, once what it has asked for arrives.
IsComing(t) ==
    \/ fetch[t].phase = "asked"
    \/ fetch[t].phase = "read" /\ fetch[t].value = version[t]
    \/ fetch[t].phase = "idle" /\ cache[t] = version[t]

\* A projection whose latest event the browser has received is up to date or
\* is being read again: no request answered before the event, no rollback of a
\* reorder and no cancelled request leaves the older state for good - unless
\* reading failed and the page says so (useWorkstationEvents.ts, QueuePage.tsx).
NewsIsActedUpon ==
    \A t \in Topics : HasHeardOf(t) =>
        IsComing(t) \/ WillRequest(t) \/ (t \in errored /\ fetch[t].phase = "idle")

\* The user is told "open" only of an open stream, and "fallback" exactly when
\* the polling that stands in for the stream runs.
BannerIsTruthful ==
    /\ (banner = "open") <=> (link = "open")
    /\ (banner = "fallback") <=> polling

\* An order that no server has confirmed is shown only while the reorder that
\* made it is under way: its failure restores what was confirmed.
OptimismEnds ==
    cache[Queue] = Optimistic =>
        mutation.reorder /\ mutation.phase \in {"sent", "done", "conflict", "failed"}

\* Nothing is under way: the stream has sent what it has, and the browser waits
\* for no answer.
Quiet ==
    /\ link = "open" /\ wire = <<>> /\ Len(log) < Larger(cursor + 1, low)
    /\ \A t \in Topics : fetch[t] = Idle
    /\ mutation.phase = "none"

\* A browser that is at rest is up to date: when there is nothing left to send,
\* read or settle, a projection shows the database, or says that reading it failed,
\* or its last event was pruned while the browser slept.
QuietPagesAreFresh ==
    Quiet => \A t \in Topics :
                \/ cache[t] = version[t]
                \/ t \in errored
                \/ \E e \in 1 .. low - 1 : IsNewest(e, t) /\ e \notin received

\* Once failures and changes cease, every projection is shown as it is, or
\* says that reading it failed, or its event was pruned while the browser slept.
EventuallyFresh ==
    <>[](\A t \in Topics :
            \/ cache[t] = version[t]
            \/ t \in errored
            \/ \E e \in 1 .. low - 1 : IsNewest(e, t) /\ e \notin received)

\* A mutation of the queue page ends, whatever fails: the page is not locked
\* for good (mutationLockRef, refetchQueueAfterMutation).
MutationEnds == (mutation.phase # "none") ~> (mutation.phase = "none")

=============================================================================

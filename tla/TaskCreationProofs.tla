------------------------- MODULE TaskCreationProofs -------------------------
(***************************************************************************)
(* Doubled submissions are races, for any requests, links and tasks.       *)
(***************************************************************************)
EXTENDS TaskCreation, TLAPS

\* Whatever a request has searched for without success came after its search.
SearchedInVain ==
    \A r \in Requests :
        /\ request[r].step \in {"search video", "create"} =>
               OpenOfSource(request[r].source) \subseteq since[r]
        /\ request[r].step = "create" => Findable(request[r].source) \subseteq since[r]

Inv == TypeOK /\ SearchedInVain /\ TwinsCameAfterTheSearch

-----------------------------------------------------------------------------
(* Types *)

LEMMA SourcesHaveTheirKind ==
    ASSUME NEW s \in Source
    PROVE  /\ s.kind = "video" => s.of \in Videos
           /\ VideoOf(s) \in Videos \cup {NoVideo}
           /\ NewRow(s) \in Row
           /\ NewRow(s).status = "pending" /\ NewRow(s).source = s
BY DEF Source, VideoOf, NewRow, Row

LEMMA LinksAreNormalised ==
    ASSUME NEW link \in Links
    PROVE  NormalizeSourceUrl(link) \in Source
BY LinksAssumption DEF NormalizeSourceUrl, Source

LEMMA RowsKeepTheirType ==
    ASSUME NEW row \in Row
    PROVE  /\ \A st \in {"pending", "running", "terminal"} : [row EXCEPT !.status = st] \in Row
           /\ \A v \in Videos : [row EXCEPT !.video = v] \in Row
BY DEF Row

LEMMA RowStatus ==
    /\ NoRow.status = "absent" /\ Deleted.status = "deleted"
    /\ \A row \in Row : row.status \in {"pending", "running", "terminal"}
BY DEF NoRow, Deleted, Row

LEMMA TypeInit == ASSUME Init PROVE TypeOK
BY DEF Init, TypeOK, Request, Idle

LEMMA TypeStep ==
    ASSUME TypeOK, [Next]_vars
    PROVE  TypeOK'
<1>1. ASSUME NEW r \in Requests, NEW link \in Links, Submit(r, link)
      PROVE  TypeOK'
  BY <1>1, LinksAreNormalised DEF TypeOK, Submit, Request
<1>2. ASSUME NEW r \in Requests, SearchSource(r)
      PROVE  TypeOK'
  <2>1. request[r].step \in {"search source", "search video", "create"} /\ request[r] \in Request
    BY <1>2 DEF SearchSource, TypeOK
  <2>2. request[r].source \in Source
    BY <2>1 DEF Request
  <2>3. \A p \in {"search video", "create"} : [request[r] EXCEPT !.step = p] \in Request
    BY <2>1, <2>2 DEF Request
  <2>4. Idle \in Request
    BY DEF Idle, Request
  <2> QED
    BY <1>2, <2>3, <2>4 DEF TypeOK, SearchSource, Goto, Answer
<1>3. ASSUME NEW r \in Requests, SearchVideo(r)
      PROVE  TypeOK'
  <2>1. request[r] \in Request /\ request[r].step = "search video"
    BY <1>3 DEF SearchVideo, TypeOK
  <2>2. [request[r] EXCEPT !.step = "create"] \in Request
    BY <2>1 DEF Request
  <2>3. Idle \in Request
    BY DEF Idle, Request
  <2> QED
    BY <1>3, <2>2, <2>3 DEF TypeOK, SearchVideo, Goto, Answer
<1>4. ASSUME NEW r \in Requests, NEW t \in TaskIds, CreateTask(r, t)
      PROVE  TypeOK'
  <2>1. request[r] \in Request /\ request[r].step = "create"
    BY <1>4 DEF CreateTask, TypeOK
  <2>2. request[r].source \in Source
    BY <2>1 DEF Request
  <2>3. NewRow(request[r].source) \in Row
    BY <2>2, SourcesHaveTheirKind
  <2>4. Idle \in Request
    BY DEF Idle, Request
  <2> QED
    BY <1>4, <2>3, <2>4 DEF TypeOK, CreateTask, Answer, SurfaceNew
<1>5. ASSUME NEW r \in Requests, FailToLock(r)
      PROVE  TypeOK'
  BY <1>5 DEF TypeOK, FailToLock, Answer, Idle, Request
<1>6. ASSUME NEW t \in TaskIds, NEW s \in LibrarySources, CreateLibraryTask(t, s)
      PROVE  TypeOK'
  BY <1>6, SourcesHaveTheirKind DEF TypeOK, CreateLibraryTask, LibrarySources, SurfaceNew
<1>7. ASSUME NEW t \in TaskIds, CloseTask(t)
      PROVE  TypeOK'
  <2>1. task[t] \in Row
    BY <1>7, RowStatus DEF TypeOK, CloseTask, Open, Present
  <2> QED
    BY <1>7, <2>1, RowsKeepTheirType DEF TypeOK, CloseTask
<1>8. ASSUME NEW t \in TaskIds, NEW v \in Videos, DiscoverVideo(t, v)
      PROVE  TypeOK'
  <2>1. task[t] \in Row
    BY <1>8, RowStatus DEF TypeOK, DiscoverVideo, Present
  <2> QED
    BY <1>8, <2>1, RowsKeepTheirType DEF TypeOK, DiscoverVideo, Surface
<1>9. ASSUME NEW t \in TaskIds, MarkRunning(t) \/ RetryTask(t)
      PROVE  TypeOK'
  <2>1. task[t] \in Row
    BY <1>9, RowStatus DEF TypeOK, MarkRunning, RetryTask, Present
  <2> QED
    <3>1. PICK st \in {"pending", "running"} : task' = [task EXCEPT ![t].status = st]
      BY <1>9 DEF MarkRunning, RetryTask
    <3>2. task' \in [TaskIds -> Row \cup {NoRow, Deleted}]
      BY <2>1, <3>1, RowsKeepTheirType DEF TypeOK
    <3>3. UNCHANGED request /\ Surface(IF Open(t) THEN {} ELSE {t})
      BY <1>9 DEF MarkRunning, RetryTask
    <3> QED
      BY <3>2, <3>3 DEF TypeOK, Surface
<1>10. ASSUME NEW t \in TaskIds, DeleteTask(t)
       PROVE  TypeOK'
  BY <1>10 DEF TypeOK, DeleteTask
<1>11. CASE UNCHANGED vars
  BY <1>11 DEF TypeOK, vars
<1> QED
  BY <1>1, <1>2, <1>3, <1>4, <1>5, <1>6, <1>7, <1>8, <1>9, <1>10, <1>11 DEF Next

-----------------------------------------------------------------------------
(* What is found after a step was found before it, or came to be found in it *)

\* The rows that change are those of "ts", and what comes to be found is among "new".
Surfaces(ts, new) ==
    /\ \A u \in TaskIds \ ts : task'[u] = task[u]
    /\ \A s : Findable(s)' \subseteq Findable(s) \cup new
    /\ \A s : OpenOfSource(s)' \subseteq OpenOfSource(s) \cup new

\* A step that closes or deletes a row surfaces nothing.
LEMMA HidingSurfacesNothing ==
    ASSUME TypeOK, NEW t \in TaskIds, CloseTask(t) \/ DeleteTask(t)
    PROVE  Surfaces({t}, {}) /\ (Present(t)' => task'[t].source = task[t].source /\ Present(t))
<1>1. \A u \in TaskIds \ {t} : task'[u] = task[u]
  BY DEF TypeOK, CloseTask, DeleteTask
<1>2. ~ Open(t)' /\ (Present(t)' => task'[t].source = task[t].source /\ Present(t))
  <2>1. CASE CloseTask(t)
    <3>1. task[t] \in Row /\ Present(t)
      BY <2>1, RowStatus DEF TypeOK, CloseTask, Open, Present
    <3>2. task'[t] = [task[t] EXCEPT !.status = "terminal"]
      BY <2>1 DEF TypeOK, CloseTask
    <3> QED
      BY <3>1, <3>2 DEF Open, Row
  <2>2. CASE DeleteTask(t)
    BY <2>2 DEF TypeOK, DeleteTask, Open, Present, Deleted
  <2> QED
    BY <2>1, <2>2
<1>3. \A u \in TaskIds \ {t} : Open(u)' <=> Open(u)
  BY <1>1 DEF Open, Present
<1>4. \A s : OpenOfSource(s)' \subseteq OpenOfSource(s)
  BY <1>1, <1>2, <1>3 DEF OpenOfSource
<1>5. \A v : OpenOfVideo(v)' \subseteq OpenOfVideo(v)
  BY <1>1, <1>2, <1>3 DEF OpenOfVideo
<1>6. \A s : Findable(s)' \subseteq Findable(s)
  BY <1>4, <1>5 DEF Findable
<1> QED
  BY <1>1, <1>2, <1>4, <1>6 DEF Surfaces

\* The video of a task in the table is replaced.
LEMMA DiscoverySurfacesAnOpenTask ==
    ASSUME TypeOK, NEW t \in TaskIds, NEW v \in Videos, DiscoverVideo(t, v)
    PROVE  /\ Surfaces({t}, IF Open(t) THEN {t} ELSE {})
           /\ Present(t)' => task'[t].source = task[t].source /\ Present(t)
<1>1. \A u \in TaskIds \ {t} : task'[u] = task[u]
  BY DEF TypeOK, DiscoverVideo
<1>2. task[t] \in Row
  BY RowStatus DEF TypeOK, DiscoverVideo, Present
<1>3. task'[t] = [task[t] EXCEPT !.video = v]
  BY DEF TypeOK, DiscoverVideo
<1>4. task'[t].source = task[t].source /\ task'[t].status = task[t].status
  BY <1>2, <1>3 DEF Row
<1>5. \A u \in TaskIds : Open(u)' <=> Open(u)
  BY <1>1, <1>4 DEF Open, Present
<1>6. \A s : OpenOfSource(s)' \subseteq OpenOfSource(s)
  BY <1>1, <1>4, <1>5 DEF OpenOfSource
<1>7. \A w : OpenOfVideo(w)' \subseteq OpenOfVideo(w) \cup (IF Open(t) THEN {t} ELSE {})
  BY <1>1, <1>5 DEF OpenOfVideo
<1>8. \A s : Findable(s)' \subseteq Findable(s) \cup (IF Open(t) THEN {t} ELSE {})
  BY <1>6, <1>7 DEF Findable
<1> QED
  BY <1>1, <1>4, <1>6, <1>8 DEF Surfaces, Present

\* A retry or the worker reopens a closed task, and leaves an open one open.
LEMMA ReopeningSurfacesAClosedTask ==
    ASSUME TypeOK, NEW t \in TaskIds, MarkRunning(t) \/ RetryTask(t)
    PROVE  /\ Surfaces({t}, IF Open(t) THEN {} ELSE {t})
           /\ Present(t)' => task'[t].source = task[t].source /\ Present(t)
<1>1. Present(t) /\ \A u \in TaskIds \ {t} : task'[u] = task[u]
  BY DEF TypeOK, MarkRunning, RetryTask
<1>2. task[t] \in Row
  BY <1>1, RowStatus DEF TypeOK, Present
<1>3. PICK st \in {"pending", "running"} : task'[t] = [task[t] EXCEPT !.status = st]
  BY DEF TypeOK, MarkRunning, RetryTask
<1>4. task'[t].source = task[t].source /\ task'[t].video = task[t].video
  BY <1>2, <1>3 DEF Row
<1>5. \A u \in TaskIds \ {t} : Open(u)' <=> Open(u)
  BY <1>1 DEF Open, Present
<1>6. \A s : OpenOfSource(s)' \subseteq OpenOfSource(s) \cup (IF Open(t) THEN {} ELSE {t})
  BY <1>1, <1>4, <1>5 DEF OpenOfSource
<1>7. \A w : OpenOfVideo(w)' \subseteq OpenOfVideo(w) \cup (IF Open(t) THEN {} ELSE {t})
  BY <1>1, <1>4, <1>5 DEF OpenOfVideo
<1>8. \A s : Findable(s)' \subseteq Findable(s) \cup (IF Open(t) THEN {} ELSE {t})
  BY <1>6, <1>7 DEF Findable
<1> QED
  BY <1>1, <1>4, <1>6, <1>8 DEF Surfaces

\* A new row is the only task that its insertion surfaces.
LEMMA CreationSurfacesTheTask ==
    ASSUME TypeOK, NEW t \in TaskIds, NEW s \in Source, task[t] = NoRow,
           task' = [task EXCEPT ![t] = NewRow(s)]
    PROVE  Surfaces({t}, {t}) /\ Present(t)' /\ task'[t].source = s
<1>1. \A u \in TaskIds \ {t} : task'[u] = task[u]
  BY DEF TypeOK
<1>2. task'[t] = NewRow(s)
  BY DEF TypeOK
<1>3. \A u \in TaskIds \ {t} : Open(u)' <=> Open(u)
  BY <1>1 DEF Open, Present
<1>4. \A x : OpenOfSource(x)' \subseteq OpenOfSource(x) \cup {t}
  BY <1>1, <1>3 DEF OpenOfSource
<1>5. \A x : OpenOfVideo(x)' \subseteq OpenOfVideo(x) \cup {t}
  BY <1>1, <1>3 DEF OpenOfVideo
<1>6. \A x : Findable(x)' \subseteq Findable(x) \cup {t}
  BY <1>4, <1>5 DEF Findable
<1> QED
  BY <1>1, <1>2, <1>4, <1>6, SourcesHaveTheirKind DEF Surfaces, Present

-----------------------------------------------------------------------------
(* The history keeps up with what is found *)

\* A step of one task, of which the history records all that it surfaces.
LEMMA RecordedIsExplained ==
    ASSUME Inv, NEW t \in TaskIds, NEW new, Surfaces({t}, new),
           Present(t)' => task'[t].source = task[t].source /\ Present(t),
           UNCHANGED request,
           \A r \in Requests : since[r] \cup new \subseteq since'[r],
           \A u \in TaskIds : after[u] \cup new \subseteq after'[u]
    PROVE  SearchedInVain' /\ TwinsCameAfterTheSearch'
<1>1. SearchedInVain'
  BY DEF Inv, SearchedInVain, Surfaces
<1>2. ASSUME NEW u \in TaskIds, Present(u)'
      PROVE  (Findable(task[u].source) \ {u} \subseteq after[u])'
  <2>1. Present(u) /\ task'[u].source = task[u].source
    BY <1>2 DEF Surfaces, Present
  <2>2. PICK s : s = task[u].source
    OBVIOUS
  <2>3. Findable(s) \ {u} \subseteq after[u]
    BY <2>1, <2>2 DEF Inv, TwinsCameAfterTheSearch
  <2>4. Findable(s)' \subseteq Findable(s) \cup new
    BY DEF Surfaces
  <2>5. Findable(s)' \ {u} \subseteq after'[u]
    BY <2>3, <2>4
  <2>6. task'[u].source = s
    BY <2>1, <2>2
  <2>7. (Findable(task[u].source))' = Findable(s)'
    BY <2>6 DEF Findable, OpenOfSource, OpenOfVideo
  <2> QED
    BY <2>5, <2>7
<1> QED
  BY <1>1, <1>2 DEF TwinsCameAfterTheSearch

\* A new task, whose creator missed what came to be found after its search.
LEMMA CreationIsExplained ==
    ASSUME Inv, NEW t \in TaskIds, NEW s \in Source, NEW missed \in SUBSET TaskIds,
           task[t] = NoRow, task' = [task EXCEPT ![t] = NewRow(s)],
           SurfaceNew(t, missed), Findable(s) \subseteq missed,
           \A r \in Requests : request'[r] \in {request[r], Idle}
    PROVE  SearchedInVain' /\ TwinsCameAfterTheSearch'
<1>1. Surfaces({t}, {t}) /\ Present(t)' /\ task'[t].source = s
  BY CreationSurfacesTheTask DEF Inv
<1>2. \A r \in Requests : since'[r] = since[r] \cup {t}
  BY DEF SurfaceNew
<1>3. /\ after'[t] = missed \cup {t}
      /\ \A u \in TaskIds \ {t} : after'[u] = after[u] \cup {t}
  BY DEF SurfaceNew
<1>4. SearchedInVain'
  <2> SUFFICES ASSUME NEW r \in Requests, request'[r].step \in {"search video", "create"}
               PROVE  /\ (OpenOfSource(request[r].source) \subseteq since[r])'
                      /\ request'[r].step = "create" =>
                             (Findable(request[r].source) \subseteq since[r])'
    BY DEF SearchedInVain
  <2>1. request'[r] = request[r]
    <3>1. request'[r] \in {request[r], Idle}
      OBVIOUS
    <3>2. Idle.step = "idle"
      BY DEF Idle
    <3>3. request'[r] # Idle
      BY <3>2
    <3> QED
      BY <3>1, <3>3
  <2>2. PICK x : x = request[r].source
    OBVIOUS
  <2>3. /\ OpenOfSource(x)' \subseteq OpenOfSource(x) \cup {t}
        /\ Findable(x)' \subseteq Findable(x) \cup {t}
    BY <1>1 DEF Surfaces
  <2>4. /\ OpenOfSource(x) \subseteq since[r]
        /\ request[r].step = "create" => Findable(x) \subseteq since[r]
    BY <2>1, <2>2 DEF Inv, SearchedInVain
  <2>5. /\ OpenOfSource(x)' \subseteq since'[r]
        /\ request'[r].step = "create" => Findable(x)' \subseteq since'[r]
    BY <1>2, <2>1, <2>3, <2>4
  <2>6. request'[r].source = x
    BY <2>1, <2>2
  <2>7. /\ (OpenOfSource(request[r].source))' = OpenOfSource(x)'
        /\ (Findable(request[r].source))' = Findable(x)'
    BY <2>6 DEF Findable, OpenOfSource, OpenOfVideo
  <2> QED
    BY <2>5, <2>7
<1>5. ASSUME NEW u \in TaskIds, Present(u)'
      PROVE  (Findable(task[u].source) \ {u} \subseteq after[u])'
  <2>1. PICK x : x = task'[u].source
    OBVIOUS
  <2>2. Findable(x) \ {u} \subseteq after[u] \/ u = t
    <3>1. u # t => Present(u) /\ task'[u] = task[u]
      BY <1>1, <1>5 DEF Surfaces, Present
    <3> QED
      BY <2>1, <3>1 DEF Inv, TwinsCameAfterTheSearch
  <2>3. Findable(x)' \subseteq Findable(x) \cup {t}
    BY <1>1 DEF Surfaces
  <2>4. CASE u = t
    <3>1. x = s
      BY <1>1, <2>1, <2>4
    <3> QED
      BY <1>3, <2>1, <2>3, <2>4, <3>1 DEF Findable, OpenOfSource, OpenOfVideo
  <2>5. CASE u # t
    <3>1. Findable(x)' \ {u} \subseteq after'[u]
      BY <1>3, <2>2, <2>3, <2>5
    <3>2. (Findable(task[u].source))' = Findable(x)'
      BY <2>1 DEF Findable, OpenOfSource, OpenOfVideo
    <3> QED
      BY <3>1, <3>2
  <2> QED
    BY <2>4, <2>5
<1> QED
  BY <1>4, <1>5 DEF TwinsCameAfterTheSearch

\* A step of one request, which changes no task.
LEMMA SearchIsExplained ==
    ASSUME Inv, NEW r \in Requests, UNCHANGED <<task, after>>,
           \A q \in Requests \ {r} : request'[q] = request[q] /\ since'[q] = since[q],
           request'[r].step \in {"search video", "create"} =>
               OpenOfSource(request'[r].source) \subseteq since'[r],
           request'[r].step = "create" => Findable(request'[r].source) \subseteq since'[r]
    PROVE  SearchedInVain' /\ TwinsCameAfterTheSearch'
<1>1. SearchedInVain'
  BY DEF Inv, SearchedInVain, Findable, OpenOfSource, OpenOfVideo, Open, Present
<1>2. TwinsCameAfterTheSearch'
  BY DEF Inv, TwinsCameAfterTheSearch, Findable, OpenOfSource, OpenOfVideo, Open, Present
<1> QED
  BY <1>1, <1>2

-----------------------------------------------------------------------------
(* The invariant and the theorems *)

LEMMA InvInit == ASSUME Init PROVE Inv
<1>1. TypeOK
  BY TypeInit
<1>2. SearchedInVain /\ TwinsCameAfterTheSearch
  BY DEF Init, SearchedInVain, TwinsCameAfterTheSearch, Idle, NoRow, Present
<1> QED
  BY <1>1, <1>2 DEF Inv

LEMMA InvStep ==
    ASSUME Inv, [Next]_vars
    PROVE  Inv'
<1> SUFFICES SearchedInVain' /\ TwinsCameAfterTheSearch'
  BY TypeStep DEF Inv
<1>1. TypeOK
  BY DEF Inv
<1>2. ASSUME NEW r \in Requests, NEW link \in Links, Submit(r, link)
      PROVE  SearchedInVain' /\ TwinsCameAfterTheSearch'
  <2>1. request'[r].step = "search source"
    BY <1>1, <1>2 DEF Submit, TypeOK
  <2> QED
    BY <1>1, <1>2, <2>1, SearchIsExplained DEF Submit, TypeOK
<1>3. ASSUME NEW r \in Requests, SearchSource(r)
      PROVE  SearchedInVain' /\ TwinsCameAfterTheSearch'
  <2>1. request[r] \in Request /\ request[r].step = "search source"
    BY <1>1, <1>3 DEF SearchSource, TypeOK
  <2>2. request[r].source \in Source
    BY <2>1 DEF Request
  <2>3. \A q \in Requests \ {r} : request'[q] = request[q] /\ since'[q] = since[q]
    BY <1>1, <1>3 DEF SearchSource, Goto, Answer, TypeOK
  <2>4. CASE OpenOfSource(request[r].source) # {}
    <3>1. request' = [request EXCEPT ![r] = Idle]
      BY <1>3, <2>4 DEF SearchSource, Answer
    <3>2. request'[r].step = "idle"
      BY <1>1, <3>1 DEF Idle, TypeOK
    <3> QED
      BY <1>3, <2>3, <3>2, SearchIsExplained DEF SearchSource
  <2>5. CASE OpenOfSource(request[r].source) = {}
    <3>1. PICK p \in {"search video", "create"} :
              /\ request' = [request EXCEPT ![r].step = p]
              /\ p = "create" <=> request[r].source.kind # "video"
      BY <1>3, <2>5 DEF SearchSource, Goto
    <3>2. request'[r] = [request[r] EXCEPT !.step = p]
      BY <1>1, <3>1 DEF TypeOK
    <3>3. request'[r].step = p /\ request'[r].source = request[r].source
      BY <2>1, <3>1, <3>2 DEF Request
    <3>4. p = "create" => Findable(request[r].source) = {}
      BY <2>5, <3>1 DEF Findable
    <3> QED
      BY <1>3, <2>3, <2>5, <3>3, <3>4, SearchIsExplained DEF SearchSource
  <2> QED
    BY <2>4, <2>5
<1>4. ASSUME NEW r \in Requests, SearchVideo(r)
      PROVE  SearchedInVain' /\ TwinsCameAfterTheSearch'
  <2>1. request[r] \in Request /\ request[r].step = "search video"
    BY <1>1, <1>4 DEF SearchVideo, TypeOK
  <2>2. OpenOfSource(request[r].source) \subseteq since[r]
    BY <2>1 DEF Inv, SearchedInVain
  <2>3. \A q \in Requests \ {r} : request'[q] = request[q] /\ since'[q] = since[q]
    BY <1>1, <1>4 DEF SearchVideo, Goto, Answer, TypeOK
  <2>4. CASE OpenOfVideo(request[r].source.of) # {}
    <3>1. request' = [request EXCEPT ![r] = Idle]
      BY <1>4, <2>4 DEF SearchVideo, Answer
    <3>2. request'[r].step = "idle"
      BY <1>1, <3>1 DEF Idle, TypeOK
    <3> QED
      BY <1>4, <2>3, <3>2, SearchIsExplained DEF SearchVideo
  <2>5. CASE OpenOfVideo(request[r].source.of) = {}
    <3>1. request'[r] = [request[r] EXCEPT !.step = "create"]
      BY <1>1, <1>4, <2>5 DEF SearchVideo, Goto, TypeOK
    <3>2. request'[r].source = request[r].source
      BY <2>1, <3>1 DEF Request
    <3>3. Findable(request[r].source) \subseteq since[r]
      BY <2>2, <2>5 DEF Findable
    <3> QED
      BY <1>4, <2>2, <2>3, <3>2, <3>3, SearchIsExplained DEF SearchVideo
  <2> QED
    BY <2>4, <2>5
<1>5. ASSUME NEW r \in Requests, NEW t \in TaskIds, CreateTask(r, t)
      PROVE  SearchedInVain' /\ TwinsCameAfterTheSearch'
  <2>1. request[r] \in Request /\ request[r].step = "create"
    BY <1>1, <1>5 DEF CreateTask, TypeOK
  <2>2. request[r].source \in Source
    BY <2>1 DEF Request
  <2>3. Findable(request[r].source) \subseteq since[r] /\ since[r] \in SUBSET TaskIds
    BY <1>1, <2>1 DEF Inv, SearchedInVain, TypeOK
  <2>4. \A q \in Requests : request'[q] \in {request[q], Idle}
    BY <1>1, <1>5 DEF CreateTask, Answer, TypeOK
  <2> QED
    BY <1>5, <2>2, <2>3, <2>4, CreationIsExplained DEF CreateTask
<1>6. ASSUME NEW r \in Requests, FailToLock(r)
      PROVE  SearchedInVain' /\ TwinsCameAfterTheSearch'
  <2>1. request'[r].step = "idle"
    BY <1>1, <1>6 DEF FailToLock, Answer, Idle, TypeOK
  <2> QED
    BY <1>1, <1>6, <2>1, SearchIsExplained DEF FailToLock, Answer, TypeOK
<1>7. ASSUME NEW t \in TaskIds, NEW s \in LibrarySources, CreateLibraryTask(t, s)
      PROVE  SearchedInVain' /\ TwinsCameAfterTheSearch'
  <2>1. s \in Source /\ Findable(s) \subseteq TaskIds
    BY DEF LibrarySources, Findable, OpenOfSource, OpenOfVideo
  <2> QED
    BY <1>7, <2>1, CreationIsExplained DEF CreateLibraryTask
<1>8. ASSUME NEW t \in TaskIds, CloseTask(t) \/ DeleteTask(t)
      PROVE  SearchedInVain' /\ TwinsCameAfterTheSearch'
  <2>1. UNCHANGED <<request, since, after>>
    BY <1>8 DEF CloseTask, DeleteTask
  <2>2. Surfaces({t}, {}) /\ (Present(t)' => task'[t].source = task[t].source /\ Present(t))
    BY <1>1, <1>8, HidingSurfacesNothing
  <2> QED
    BY <2>1, <2>2, RecordedIsExplained
<1>9. ASSUME NEW t \in TaskIds, NEW v \in Videos, DiscoverVideo(t, v)
      PROVE  SearchedInVain' /\ TwinsCameAfterTheSearch'
  <2> DEFINE new == IF Open(t) THEN {t} ELSE {}
  <2>1. /\ UNCHANGED request
        /\ \A r \in Requests : since[r] \cup new \subseteq since'[r]
        /\ \A u \in TaskIds : after[u] \cup new \subseteq after'[u]
    BY <1>9 DEF DiscoverVideo, Surface
  <2>2. Surfaces({t}, new) /\ (Present(t)' => task'[t].source = task[t].source /\ Present(t))
    BY <1>1, <1>9, DiscoverySurfacesAnOpenTask
  <2> QED
    BY <2>1, <2>2, RecordedIsExplained
<1>10. ASSUME NEW t \in TaskIds, MarkRunning(t) \/ RetryTask(t)
       PROVE  SearchedInVain' /\ TwinsCameAfterTheSearch'
  <2> DEFINE new == IF Open(t) THEN {} ELSE {t}
  <2>1. /\ UNCHANGED request
        /\ \A r \in Requests : since[r] \cup new \subseteq since'[r]
        /\ \A u \in TaskIds : after[u] \cup new \subseteq after'[u]
    BY <1>10 DEF MarkRunning, RetryTask, Surface
  <2>2. Surfaces({t}, new) /\ (Present(t)' => task'[t].source = task[t].source /\ Present(t))
    BY <1>1, <1>10, ReopeningSurfacesAClosedTask
  <2> QED
    BY <2>1, <2>2, RecordedIsExplained
<1>11. CASE UNCHANGED vars
  BY <1>11 DEF vars, Inv, SearchedInVain, TwinsCameAfterTheSearch, Findable, OpenOfSource,
               OpenOfVideo, Open, Present
<1> QED
  BY <1>2, <1>3, <1>4, <1>5, <1>6, <1>7, <1>8, <1>9, <1>10, <1>11 DEF Next

\* Rows, requests and the history keep their types, for any requests and links.
THEOREM TypeCorrect == Spec => []TypeOK
<1>1. Init => TypeOK
  BY TypeInit
<1>2. TypeOK /\ [Next]_vars => TypeOK'
  BY TypeStep
<1> QED
  BY <1>1, <1>2, PTL DEF Spec

\* However many requests, retries, deletions and downloads interleave, a task that
\* POST /api/tasks created has an open twin only if the twin came after the search.
THEOREM DoubledOnlyByRaces == Spec => []TwinsCameAfterTheSearch
<1>1. Init => Inv
  BY InvInit
<1>2. Inv /\ [Next]_vars => Inv'
  BY InvStep
<1>3. Inv => TwinsCameAfterTheSearch
  BY DEF Inv
<1> QED
  BY <1>1, <1>2, <1>3, PTL DEF Spec

=============================================================================

---------------------------- MODULE MediaStages ----------------------------
(***************************************************************************)
(* One task on its way from the recording to the report: the seven stages   *)
(* as the worker executes them (services/task_runner.py), with the files    *)
(* each stage leaves in the directory of the task, the database rows that   *)
(* announce them, and what a later run makes of them.                      *)
(*                                                                         *)
(* A step of the worker ends where a file appears, a transaction commits or *)
(* an external call returns.  Files survive a crash of the worker,          *)
(* uncommitted rows do not.  The ASR child is a process of its own.  While  *)
(* the worker runs, the user may retry from any stage and export clips, and *)
(* the source may change.  Claims, stop requests, execution tokens and      *)
(* several tasks are the subject of TaskPipeline and left out here.         *)
(***************************************************************************)
EXTENDS Captions

CONSTANTS
    Recordings,   \* what a source may contain at different times
    Duration,     \* the duration of every recording
    Takes,        \* what recognition of a chunk may return
    Providers,    \* translation providers an operator may configure
    BatchSize,    \* captions per proofread request
    MaxAttempts,  \* requests per proofread batch, retries included
    None,         \* a file that does not exist
    Torn,         \* a transcript that was opened for writing and not closed
    MaxRuns,      \* bound: runs of the task
    MaxCrashes,   \* bound: crashes of the worker
    MaxChanges,   \* bound: changes of the source
    MaxExports    \* bound: clip exports

ASSUME DurationAssumption == Duration \in [Recordings -> Nat]
ASSUME UnsetAssumption ==
    /\ None \notin Recordings \cup Nat \cup Takes
    /\ Torn \notin Takes \cup {None}
ASSUME TakesAssumption ==
    Takes \subseteq Seq([start : Nat, end : Nat, words : Seq([start : Nat, end : Nat])])
ASSUME ProvidersAssumption == Providers # {}
ASSUME ProofreadAssumption == BatchSize \in Nat \ {0} /\ MaxAttempts \in Nat \ {0}
ASSUME BoundsAssumption ==
    MaxRuns \in Nat \ {0} /\ MaxCrashes \in Nat /\ MaxChanges \in Nat /\ MaxExports \in Nat

VARIABLES
    recording,  \* what the source contains now
    provider,   \* the provider the running worker was started with
    raw,        \* the recording in raw/
    probe,      \* the duration in media-probe.json
    plan,       \* the duration the chunk manifest was built for
    wav,        \* the recording in the WAV of every chunk
    result,     \* the directory of every chunk: result manifest and take
    transcript, \* asr-segments.json: captions in source time
    aggregate,  \* the aggregate manifest: how many chunks and captions
    cache,      \* translated rows of every chunk
    draft,      \* the preproofread subtitles
    json, srt,  \* the two files of the final subtitles
    scenes,     \* the scene boundaries in work/: how and from what they were found
    candidates, \* ClipCandidate rows: the captions and scenes they were scored from
    report,     \* task-report.md: the candidates it lists
    rows,       \* the kinds of the Artifact rows
    filtering,  \* Task.highlight_filtering_enabled, fixed when the task is created
    task,       \* Task.status
    stages,     \* TaskStage.status of every stage
    stage,      \* TaskJob.stage_name: the checkpoint
    entry,      \* QueueEntry.state
    pc,         \* the next step of the worker
    index,      \* the chunk or batch the worker is at
    length,     \* the duration in the chunk manifest the worker loaded
    captions,   \* the captions the worker holds
    texts,      \* the translations it has collected
    attempt,    \* requests of the current proofread batch
    children,   \* ASR child processes
    exit,       \* how the child of the worker ended
    clip,       \* whether an export is being encoded
    runs, crashes, changes, exports

media == <<raw, probe, plan, wav>>
asrFiles == <<result, transcript, aggregate>>
subtitles == <<cache, draft, json, srt>>
review == <<scenes, report, filtering>>
database == <<candidates, rows, task, stages, stage, entry>>
memory == <<index, length, captions, texts, attempt>>
processes == <<children, exit>>
world == <<recording, provider, clip, runs, crashes, changes, exports>>
vars == <<recording, provider, raw, probe, plan, wav, result, transcript, aggregate,
          cache, draft, json, srt, scenes, candidates, report, rows, filtering,
          task, stages, stage, entry, pc, index, length, captions, texts, attempt, children, exit, clip,
          runs, crashes, changes, exports>>

-----------------------------------------------------------------------------
(* State *)

Ingest == 1
MediaPrep == 2
Asr == 3
Translation == 4
Highlight == 5
Export == 6
Report == 7
Stages == Ingest..Report
FirstStep == <<"ingest", "probe", "load", "verify", "highlight", "skip", "report">>

Steps == {FirstStep[s] : s \in Stages} \cup
         {"idle", "dead", "fallback", "cut", "chunk", "child", "aggregate", "publish",
          "translate", "proofread", "srt", "score", "commit", "release"}

\* The Artifact kinds that matter here, by the stage that persists them.
Draft == "bilingual_preproofread_transcript_json"
Final == "bilingual_transcript_json"
RowOf == <<"source_video", "asr_audio_chunk", "transcript_json", Final,
           "highlight_candidates_json", "clip_export", "task_report_markdown">>
Kinds == {RowOf[s] : s \in Stages} \cup {Draft}

Terminal == {"success", "failed"}
StageStatus == {"pending", "running", "skipped"} \cup Terminal
Durations == {Duration[r] : r \in Recordings}
AllChunks == UNION {Chunks(d) : d \in Durations}
\* persist_artifact_metadata; two rows of a kind count as one.
WithRow(kind) == rows \cup {kind}

\* What _invalidate_existing_chunk_audio leaves.
NoAudio == [i \in AllChunks |-> None]
NoResult == [manifest |-> "none", take |-> None, text |-> None]
Nothing == [p \in {} |-> None]

Result == [manifest : {"none", "failed", "success"},
           take : Takes \cup {None, Torn}, text : Recordings \cup {None}]
Child == [chunk : AllChunks, step : {"start", "write", "manifest"},
          take : Takes \cup {None}, text : Recordings \cup {None}, watched : BOOLEAN]

Init ==
    /\ recording \in Recordings
    /\ provider = CHOOSE p \in Providers : TRUE   \* which one is the first does not matter
    /\ raw = None /\ probe = None /\ plan = None
    /\ wav = NoAudio
    /\ result = [i \in AllChunks |-> NoResult]
    /\ transcript = None /\ aggregate = None
    /\ cache = [i \in AllChunks |-> None]
    /\ draft = None /\ json = None /\ srt = None
    /\ scenes = None /\ candidates = {} /\ report = None
    /\ rows = {} /\ filtering \in BOOLEAN
    /\ task = "pending" /\ stages = [s \in Stages |-> "pending"]
    /\ stage = Ingest /\ entry = "queued"
    /\ pc = "idle" /\ index = 1 /\ length = 0
    /\ captions = Nothing /\ texts = Nothing /\ attempt = 1
    /\ children = {} /\ exit = "none" /\ clip = FALSE
    /\ runs = 1 /\ crashes = 0 /\ changes = 0 /\ exports = 0

-----------------------------------------------------------------------------
(* The worker around its stages *)

Forget ==
    /\ index' = 1 /\ length' = 0 /\ attempt' = 1
    /\ captions' = Nothing /\ texts' = Nothing

GoTo(step) == pc' = step /\ UNCHANGED memory

\* _mark_stage_failed and the commit of run_task_pipeline's exception handler.
Fail ==
    /\ task' = "failed"
    /\ stages' = [stages EXCEPT ![stage] = "failed"]
    /\ pc' = "release"
    /\ Forget
    /\ UNCHANGED <<stage, entry>>

Claim ==
    /\ pc = "idle" /\ entry = "queued"
    /\ entry' = "running" /\ task' = "running"
    /\ stages' = [stages EXCEPT ![stage] = "running"]
    /\ GoTo(FirstStep[stage])
    /\ UNCHANGED <<media, asrFiles, subtitles, review, candidates, rows, stage, processes, world>>

\* What a finished stage becomes: export, and highlight without filtering, are skipped.
Outcome == IF pc = "skip" THEN "skipped" ELSE "success"

\* What score_candidate_windows may have ranked: windows of the scenes, by the
\* captions, or none that reaches the least score.
ScoredCandidates == {{}, {[of |-> captions, scenes |-> scenes]}}

\* Fault: the candidates of an earlier run stay where there are some.
CandidatesKept ==
    IF stage = Highlight /\ pc = "commit" /\ candidates = {}
    THEN ScoredCandidates ELSE {candidates}

\* _replace_existing_candidates, flushed by the highlight stage.
CandidatesAfterStage ==
    IF stage = Highlight /\ pc = "commit" THEN ScoredCandidates ELSE {candidates}

\* The rows that a stage has added in its session and that wait for its commit.
RowsAfterStage == IF pc = "skip" THEN rows ELSE WithRow(RowOf[stage])

\* The commit after a stage: its pending rows, its status and the checkpoint;
\* then the next stage is marked running.
CommitCheckpoint ==
    /\ pc \in {"commit", "skip"}
    /\ rows' = RowsAfterStage
    /\ candidates' \in CandidatesAfterStage
    /\ IF stage = Report
       THEN /\ stages' = [stages EXCEPT ![stage] = Outcome]
            /\ task' = "success" /\ pc' = "release"
            /\ UNCHANGED stage
       ELSE /\ stages' = [stages EXCEPT ![stage] = Outcome, ![stage + 1] = "running"]
            /\ task' = "running" /\ stage' = stage + 1 /\ pc' = FirstStep[stage + 1]
    /\ Forget
    /\ UNCHANGED <<media, asrFiles, subtitles, review, entry, processes, world>>

\* finish_queue_entry, a transaction of its own after the last commit.
Release ==
    /\ pc = "release"
    /\ entry' = "finished"
    /\ GoTo("idle")
    /\ UNCHANGED <<media, asrFiles, subtitles, review, candidates, rows, task, stages, stage,
                   processes, world>>

\* The process dies and is started again with the settings of that moment.  A
\* worker that dies before its last transaction leaves the entry running for good.
Crash ==
    /\ pc \notin {"idle", "dead"}
    /\ crashes < MaxCrashes
    /\ crashes' = crashes + 1
    /\ pc' = IF pc = "release" THEN "idle" ELSE "dead"
    /\ Forget
    /\ provider' \in Providers
    /\ exit' = "none"
    /\ children' = {[c EXCEPT !.watched = FALSE] : c \in children}
    /\ UNCHANGED <<media, asrFiles, subtitles, review, database,
                   recording, clip, runs, changes, exports>>

\* _mark_job_stale_failed.  An ASR child is killed if its process group had been
\* recorded; otherwise it lives on and nobody waits for it.
Recover ==
    /\ pc = "dead"
    /\ \/ UNCHANGED children
       \/ stage = Asr /\ \E c \in children : children' = children \ {c}
    /\ task' = "failed"
    /\ stages' = [stages EXCEPT ![stage] = "failed"]
    /\ entry' = "finished"
    /\ GoTo("idle")
    /\ UNCHANGED <<media, asrFiles, subtitles, review, candidates, rows, stage, exit, world>>

-----------------------------------------------------------------------------
(* Ingest and media preparation *)

\* A local source is copied; BBDown or, when it failed, yt-dlp has downloaded.
IngestSource ==
    /\ pc \in {"ingest", "fallback"}
    /\ raw' = recording
    /\ GoTo("commit")
    /\ UNCHANGED <<probe, plan, wav, asrFiles, subtitles, review, database, processes, world>>

\* BBDown fails for a reason that another downloader may not meet.
FallBackToYtDlp ==
    /\ pc = "ingest"
    /\ GoTo("fallback")
    /\ UNCHANGED <<media, asrFiles, subtitles, review, database, processes, world>>

\* Fault: the plan on disk is loaded without the duration it must be for.
ProbeReusesAnyPlan ==
    /\ pc = "probe" /\ raw # None
    /\ probe' = Duration[raw]
    /\ length' = IF plan = None THEN Duration[raw] ELSE plan
    /\ pc' = "cut"
    /\ UNCHANGED <<raw, plan, wav, asrFiles, subtitles, review, database, index, captions,
                   texts, attempt, processes, world>>

\* load_media_chunk_manifest accepts the manifest on disk for a duration.
HasPlanFor(d) == plan = d /\ PlanIsValid(d, Chunks(d))

\* ffprobe, media-probe.json, and the choice between the plan on disk and a new
\* one.  A new plan deletes every WAV but is not written yet.
ProbeSource ==
    /\ pc = "probe" /\ raw # None
    /\ probe' = Duration[raw]
    /\ length' = Duration[raw]
    /\ wav' = IF HasPlanFor(Duration[raw]) THEN wav ELSE NoAudio
    /\ pc' = "cut"
    /\ UNCHANGED <<raw, plan, asrFiles, subtitles, review, database, index, captions, texts,
                   attempt, processes, world>>

\* _has_valid_chunk_audio: the format and the length, not the content.
HasValidChunkAudio(i) == wav[i] # None /\ ChunkSpan(Duration[wav[i]], i) = ChunkSpan(length, i)

\* _create_chunk_audio writes a temporary file and renames it.
CutChunk ==
    /\ pc = "cut" /\ index \in Chunks(length)
    /\ wav' = IF HasValidChunkAudio(index) THEN wav ELSE [wav EXCEPT ![index] = raw]
    /\ index' = index + 1
    /\ UNCHANGED <<raw, probe, plan, asrFiles, subtitles, review, database, pc, length, captions,
                   texts, attempt, processes, world>>

\* The manifest is the last file; then the rows of the stage are flushed.
WritePlan ==
    /\ pc = "cut" /\ index \notin Chunks(length)
    /\ plan' = length
    /\ GoTo("commit")
    /\ UNCHANGED <<raw, probe, wav, asrFiles, subtitles, review, database, processes, world>>

\* No source, or ffmpeg fails on it.
FailMediaStage ==
    /\ pc \in {"ingest", "fallback", "probe", "cut"}
    /\ Fail
    /\ UNCHANGED <<media, asrFiles, subtitles, review, candidates, rows, processes, world>>

-----------------------------------------------------------------------------
(* The ASR child: services/asr_child_runner.py *)

\* The child leaves a failure manifest, or none when it is killed.
ChildFails(c) ==
    /\ c \in children
    /\ children' = children \ {c}
    /\ exit' = IF c.watched THEN "failed" ELSE exit
    /\ \/ result' = [result EXCEPT ![c.chunk].manifest = "failed"]
       \/ UNCHANGED result
    /\ UNCHANGED <<media, transcript, aggregate, subtitles, review, database, pc, memory, world>>

\* Recognition and alignment; persisting opens the transcript for writing.
ChildTranscribes(c) ==
    /\ c \in children /\ c.step = "start" /\ wav[c.chunk] # None
    /\ \E take \in Takes :
        /\ IsNormal(take)
        /\ children' = (children \ {c})
                       \cup {[c EXCEPT !.step = "write", !.take = take, !.text = wav[c.chunk]]}
    /\ result' = [result EXCEPT ![c.chunk].take = Torn, ![c.chunk].text = None]
    /\ UNCHANGED <<media, transcript, aggregate, subtitles, review, database, pc, memory, exit, world>>

ChildWritesOutputs(c) ==
    /\ c \in children /\ c.step = "write"
    /\ children' = (children \ {c}) \cup {[c EXCEPT !.step = "manifest"]}
    /\ result' = [result EXCEPT ![c.chunk].take = c.take, ![c.chunk].text = c.text]
    /\ UNCHANGED <<media, transcript, aggregate, subtitles, review, database, pc, memory, exit, world>>

\* The success manifest is the last file of the child.
ChildSucceeds(c) ==
    /\ c \in children /\ c.step = "manifest"
    /\ children' = children \ {c}
    /\ exit' = IF c.watched THEN "success" ELSE exit
    /\ result' = [result EXCEPT ![c.chunk].manifest = "success"]
    /\ UNCHANGED <<media, transcript, aggregate, subtitles, review, database, pc, memory, world>>

ChildStep(c) ==
    ChildFails(c) \/ ChildTranscribes(c) \/ ChildWritesOutputs(c) \/ ChildSucceeds(c)

-----------------------------------------------------------------------------
(* The ASR stage: _execute_asr_subprocess *)

\* load_asr_result_manifest: the last file the child wrote is of a success.
HasSuccessManifest(i) == result[i].manifest = "success"

\* _load_chunk_transcript_segments: the transcript can be read and is normal.
HasReadableTake(i) == result[i].take \notin {None, Torn} /\ IsNormal(result[i].take)

\* load_valid_asr_chunk_manifest: a success manifest whose files exist.
HasValidResult(i) == HasSuccessManifest(i) /\ wav[i] # None /\ HasReadableTake(i)

TakesOf(d) == [i \in Chunks(d) |-> result[i].take]
CaptionsOf(d) == Merged(TakesOf(d), [i \in Chunks(d) |-> result[i].text])

\* The part that merging and verifying share: every chunk valid, one time line.
MayMerge(d) == (\A i \in Chunks(d) : HasValidResult(i)) /\ MergeAccepts(d, TakesOf(d))

LoadPlan ==
    /\ pc = "load" /\ plan \notin {None, 0}
    /\ length' = plan
    /\ pc' = "chunk"
    /\ UNCHANGED <<media, asrFiles, subtitles, review, database, index, captions, texts, attempt,
                   processes, world>>

ReuseChunk ==
    /\ pc = "chunk" /\ index \in Chunks(length) /\ HasValidResult(index)
    /\ index' = index + 1
    /\ UNCHANGED <<media, asrFiles, subtitles, review, database, pc, length, captions, texts,
                   attempt, processes, world>>

StartChild ==
    /\ pc = "chunk" /\ index \in Chunks(length) /\ ~HasValidResult(index)
    /\ children' = children \cup {[chunk |-> index, step |-> "start", take |-> None,
                                   text |-> None, watched |-> TRUE]}
    /\ exit' = "none"
    /\ GoTo("child")
    /\ UNCHANGED <<media, asrFiles, subtitles, review, database, world>>

\* The child ended with a success event and the parent validates its result.
ChildDelivered == exit = "success" /\ HasValidResult(index)

AwaitChild ==
    /\ pc = "child" /\ ChildDelivered
    /\ pc' = "chunk" /\ index' = index + 1
    /\ UNCHANGED <<media, asrFiles, subtitles, review, database, length, captions, texts, attempt,
                   processes, world>>

\* merge_asr_chunk_artifacts: validate again, merge, write the transcript ...
MergeChunks ==
    /\ pc = "chunk" /\ index \notin Chunks(length) /\ MayMerge(length)
    /\ captions' = CaptionsOf(length)
    /\ transcript' = CaptionsOf(length)
    /\ pc' = "aggregate"
    /\ UNCHANGED <<media, result, aggregate, subtitles, review, database, index, length, texts,
                   attempt, processes, world>>

\* Fault: an aggregate manifest on disk is kept.
WriteAggregateOnce ==
    /\ pc = "aggregate"
    /\ aggregate' = IF aggregate # None THEN aggregate
                    ELSE [chunks |-> Chunks(length), captions |-> Cardinality(DOMAIN captions)]
    /\ GoTo("publish")
    /\ UNCHANGED <<media, result, transcript, subtitles, review, database, processes, world>>

\* ... and the aggregate manifest, in that order.
WriteAggregate ==
    /\ pc = "aggregate"
    /\ aggregate' = [chunks |-> Chunks(length), captions |-> Cardinality(DOMAIN captions)]
    /\ GoTo("publish")
    /\ UNCHANGED <<media, result, transcript, subtitles, review, database, processes, world>>

\* publish_merged_asr_artifacts: the rows are committed before the stage is.
PublishTranscript ==
    /\ pc = "publish"
    /\ rows' = WithRow(RowOf[Asr])
    /\ GoTo("commit")
    /\ UNCHANGED <<media, asrFiles, subtitles, review, candidates, task, stages, stage, entry,
                   processes, world>>

\* No plan, a failed child, an invalid result, a merge that is refused, a file
\* that cannot be written.
FailAsr ==
    /\ \/ pc = "load" /\ plan \in {None, 0}
       \/ pc = "child" /\ exit # "none" /\ ~ChildDelivered
       \/ pc = "chunk" /\ index \notin Chunks(length) /\ ~MayMerge(length)
       \/ pc \in {"aggregate", "publish"}
    /\ Fail
    /\ UNCHANGED <<media, asrFiles, subtitles, review, candidates, rows, processes, world>>

-----------------------------------------------------------------------------
(* The translation stage: translate_task_subtitles *)

\* load_verified_merged_asr_artifacts and the partition by media chunk.
AggregateIsCurrent(d) ==
    aggregate = [chunks |-> Chunks(d), captions |-> Cardinality(Places(TakesOf(d)))]

TranscriptIsCurrent(d) == transcript = CaptionsOf(d)

MergeIsCurrent ==
    /\ plan # None /\ MayMerge(plan)
    /\ AggregateIsCurrent(plan) /\ TranscriptIsCurrent(plan)

VerifyTranscript ==
    /\ pc = "verify" /\ MergeIsCurrent
    /\ Chunks(plan) # {} /\ PartitionAccepts(plan, transcript)
    /\ length' = plan /\ captions' = transcript
    /\ pc' = "translate"
    /\ UNCHANGED <<media, asrFiles, subtitles, review, database, index, texts, attempt,
                   processes, world>>

\* These checks come before the handler that discards the publication.
FailVerification ==
    /\ pc = "verify"
    /\ ~(MergeIsCurrent /\ Chunks(plan) # {} /\ PartitionAccepts(plan, transcript))
    /\ Fail
    /\ UNCHANGED <<media, asrFiles, subtitles, review, candidates, rows, processes, world>>

SourceRows(i) == RowsOf(captions, Share(length, captions, i))

\* Fault: a chunk translated by another provider is taken.
CacheOfAnyProvider(i) == cache[i] # None /\ cache[i].rows = SourceRows(i)

\* _load_valid_translation_chunk: the exact source rows and the same provider.
CacheHit(i) == cache[i] # None /\ cache[i].by = provider /\ cache[i].rows = SourceRows(i)

\* _write_translation_chunk_atomically: every row with its translation, in one file.
TranslatedChunk(i) == [rows |-> SourceRows(i), by |-> provider]

\* Reuse the cached chunk, or translate it and replace the cached chunk.
TranslateChunk ==
    /\ pc = "translate" /\ index \in Chunks(length)
    /\ LET chunk == IF CacheHit(index) THEN cache[index] ELSE TranslatedChunk(index)
       IN  /\ cache' = [cache EXCEPT ![index] = chunk]
           /\ texts' = [p \in DOMAIN texts \cup DOMAIN chunk.rows |->
                            IF p \in DOMAIN chunk.rows
                            THEN [of |-> chunk.rows[p], by |-> chunk.by]
                            ELSE texts[p]]
    /\ index' = index + 1
    /\ UNCHANGED <<media, asrFiles, draft, json, srt, review, database, pc, length, captions,
                   attempt, processes, world>>

\* The preproofread files and their rows, committed with the progress.
WriteDraft ==
    /\ pc = "translate" /\ index \notin Chunks(length)
    /\ draft' = texts
    /\ rows' = WithRow(Draft)
    /\ pc' = "proofread" /\ index' = 1
    /\ UNCHANGED <<media, asrFiles, cache, json, srt, review, candidates, task, stages, stage, entry,
                   length, captions, texts, attempt, processes, world>>

BatchesLeft == (index - 1) * BatchSize < Cardinality(DOMAIN captions)

\* A response whose rows keep count, identity and time.
ProofreadBatch ==
    /\ pc = "proofread" /\ BatchesLeft
    /\ index' = index + 1 /\ attempt' = 1
    /\ UNCHANGED <<media, asrFiles, subtitles, review, database, pc, length, captions, texts,
                   processes, world>>

\* Fault: the counter starts again instead of ending the batch.
RetryRequestForever ==
    /\ pc = "proofread" /\ BatchesLeft
    /\ attempt' = IF attempt < MaxAttempts THEN attempt + 1 ELSE 1
    /\ UNCHANGED <<media, asrFiles, subtitles, review, database, pc, index, length, captions, texts,
                   processes, world>>

\* Fault: one retry too many.
RetryRequestOnceMore ==
    /\ pc = "proofread" /\ BatchesLeft /\ attempt <= MaxAttempts
    /\ attempt' = attempt + 1
    /\ UNCHANGED <<media, asrFiles, subtitles, review, database, pc, index, length, captions, texts,
                   processes, world>>

\* A timeout, 429, 500 or 503.
RetryRequest ==
    /\ pc = "proofread" /\ BatchesLeft /\ attempt < MaxAttempts
    /\ attempt' = attempt + 1
    /\ UNCHANGED <<media, asrFiles, subtitles, review, database, pc, index, length, captions, texts,
                   processes, world>>

Publication == [captions |-> captions, texts |-> texts, by |-> provider]

\* Fault: the second file is forgotten.
WriteJsonOnly ==
    /\ pc = "proofread" /\ ~BatchesLeft
    /\ json' = Publication
    /\ GoTo("commit")
    /\ UNCHANGED <<media, asrFiles, cache, draft, srt, review, database, processes, world>>

\* write_bilingual_subtitle_outputs_atomically renames two files in turn.
WriteJson ==
    /\ pc = "proofread" /\ ~BatchesLeft
    /\ json' = Publication
    /\ GoTo("srt")
    /\ UNCHANGED <<media, asrFiles, cache, draft, srt, review, database, processes, world>>

WriteSrt ==
    /\ pc = "srt"
    /\ srt' = Publication
    /\ GoTo("commit")
    /\ UNCHANGED <<media, asrFiles, cache, draft, json, review, database, processes, world>>

\* A provider or proofread failure, or an error of the file system.
DiscardPublication ==
    /\ pc \in {"translate", "proofread", "srt"} \/ (pc = "commit" /\ stage = Translation)
    /\ json' = None /\ srt' = None
    /\ rows' = rows \ {Final}
    /\ Fail
    /\ UNCHANGED <<media, asrFiles, cache, draft, review, candidates, processes, world>>

-----------------------------------------------------------------------------
(* The highlight stage and the report *)

\* _resolve_transcript_path prefers the final subtitles over the raw transcript.
HighlightSource == IF json # None THEN json.captions ELSE transcript

\* Detected scenes of the source, or windows derived from gaps between captions
\* when detection fails or finds nothing.
DetectedScenes == [by |-> "detector", of |-> raw]
DerivedScenes(lines) == [by |-> "gaps", of |-> lines]

\* _resolve_scene_boundaries: scene boundaries on disk are used as they are.
ResolveScenes ==
    /\ pc = "highlight" /\ filtering /\ HighlightSource # None
    /\ captions' = HighlightSource
    /\ IF scenes # None THEN UNCHANGED scenes
       ELSE \/ raw # None /\ scenes' = DetectedScenes
            \/ scenes' = DerivedScenes(HighlightSource)
    /\ pc' = "score"
    /\ UNCHANGED <<media, asrFiles, subtitles, report, filtering, database, index, length,
                   texts, attempt, processes, world>>

\* The candidate rows are flushed and wait for the checkpoint.
ScoreCandidates ==
    /\ pc = "score"
    /\ pc' = "commit"
    /\ UNCHANGED <<media, asrFiles, subtitles, review, database, memory, processes, world>>

\* The task did not opt in.
SkipHighlight ==
    /\ pc = "highlight" /\ ~filtering
    /\ GoTo("skip")
    /\ UNCHANGED <<media, asrFiles, subtitles, review, database, processes, world>>

\* generate_task_report lists the candidates in the database.
GenerateReport ==
    /\ pc = "report"
    /\ report' = candidates
    /\ GoTo("commit")
    /\ UNCHANGED <<media, asrFiles, subtitles, scenes, filtering, database, processes, world>>

\* No transcript, a scene file that cannot be used, a file that cannot be written.
\* The failure handler commits without a rollback: when highlight-candidates.json
\* cannot be written, the rows are replaced already.
FailReview ==
    /\ \/ pc \in {"highlight", "score"} /\ filtering
       \/ pc = "report"
    /\ \/ UNCHANGED candidates
       \/ pc = "score" /\ candidates' \in ScoredCandidates
    /\ Fail
    /\ UNCHANGED <<media, asrFiles, subtitles, review, rows, processes, world>>

-----------------------------------------------------------------------------
(* The user and the source *)

RetryAllowed(s) == task \in Terminal \/ stages[s] = "failed"

\* Fault: only a retry of the translation stage itself removes its outputs.
UnlinkForTranslationOnly(s) ==
    IF s = Translation
    THEN draft' = None /\ json' = None /\ srt' = None
    ELSE UNCHANGED <<draft, json, srt>>

\* Fault: every retry removes them.
UnlinkAlways(s) == draft' = None /\ json' = None /\ srt' = None

\* invalidate_translation_artifacts removes the files at once.
Unlink(s) ==
    IF s <= Translation
    THEN draft' = None /\ json' = None /\ srt' = None
    ELSE UNCHANGED <<draft, json, srt>>

\* Fault: only the files are removed.
ResetKeepingRows(s) ==
    /\ stages' = [q \in Stages |-> IF q >= s THEN "pending" ELSE stages[q]]
    /\ UNCHANGED rows

Reset(s) ==
    /\ stages' = [q \in Stages |-> IF q >= s THEN "pending" ELSE stages[q]]
    /\ rows' = IF s <= Translation THEN rows \ {Draft, Final} ELSE rows

\* retry_task_from_stage.
Retry(s) ==
    /\ RetryAllowed(s) /\ entry # "running" /\ runs < MaxRuns
    /\ Unlink(s)
    /\ Reset(s)
    /\ task' = "pending" /\ stage' = s /\ entry' = "queued"
    /\ runs' = runs + 1
    /\ UNCHANGED <<media, asrFiles, cache, review, candidates, pc, memory, processes,
                   recording, provider, clip, crashes, changes, exports>>

\* requeue_task refuses the entry that is still running: the transaction is
\* rolled back, the files are gone.
RefusedRetry(s) ==
    /\ RetryAllowed(s) /\ entry = "running"
    /\ Unlink(s)
    /\ UNCHANGED <<media, asrFiles, cache, review, database, pc, memory, processes, world>>

SourceChanges ==
    /\ changes < MaxChanges
    /\ changes' = changes + 1
    /\ recording' \in Recordings \ {recording}
    /\ UNCHANGED <<media, asrFiles, subtitles, review, database, pc, memory, processes,
                   provider, clip, runs, crashes, exports>>

\* What an export needs: _resolve_source_video_path, _resolve_source_duration_seconds.
HasSource == raw # None /\ probe # None

\* export_confirmed_clip reads a candidate, the source and its probed duration ...
ExportClip ==
    /\ ~clip /\ exports < MaxExports
    /\ candidates # {} /\ HasSource
    /\ clip' = TRUE /\ exports' = exports + 1
    /\ UNCHANGED <<media, asrFiles, subtitles, review, database, pc, memory, processes,
                   recording, provider, runs, crashes, changes>>

\* _persist_export_artifact and the status of the stage.
PersistExport ==
    /\ stages' = [stages EXCEPT ![Export] = "success"]
    /\ rows' = WithRow(RowOf[Export])
    /\ UNCHANGED task

FailExport ==
    /\ stages' = [stages EXCEPT ![Export] = "failed"]
    /\ task' = "failed"
    /\ UNCHANGED rows

\* ... and when ffmpeg ends, its success or failure becomes the status of the
\* export stage, and a failure that of the task, whatever the worker is doing.
EndExport ==
    /\ clip /\ clip' = FALSE
    /\ \/ PersistExport
       \/ FailExport
       \/ UNCHANGED <<stages, task, rows>>   \* the candidate was deleted meanwhile
    /\ UNCHANGED <<media, asrFiles, subtitles, review, candidates, stage, entry, pc, memory,
                   processes, recording, provider, runs, crashes, changes, exports>>

-----------------------------------------------------------------------------
Prepare ==
    \/ IngestSource \/ FallBackToYtDlp
    \/ ProbeSource \/ CutChunk \/ WritePlan \/ FailMediaStage

Recognize ==
    \/ LoadPlan \/ ReuseChunk \/ StartChild \/ AwaitChild
    \/ MergeChunks \/ WriteAggregate \/ PublishTranscript \/ FailAsr

Translate ==
    \/ VerifyTranscript \/ FailVerification \/ TranslateChunk \/ WriteDraft
    \/ ProofreadBatch \/ RetryRequest \/ WriteJson \/ WriteSrt \/ DiscardPublication

Review == ResolveScenes \/ ScoreCandidates \/ SkipHighlight \/ GenerateReport \/ FailReview

WorkerStep ==
    \/ Claim \/ CommitCheckpoint \/ Release \/ Recover
    \/ Prepare \/ Recognize \/ Translate \/ Review

User == (\E s \in Stages : Retry(s) \/ RefusedRetry(s)) \/ ExportClip \/ EndExport

Next == WorkerStep \/ Crash \/ (\E c \in children : ChildStep(c)) \/ User \/ SourceChanges

Spec == Init /\ [][Next]_vars

\* The worker loop goes on, and a child ends by itself or is killed.
FairSpec == Spec /\ WF_vars(WorkerStep) /\ WF_vars(\E c \in children : ChildStep(c))

-----------------------------------------------------------------------------
(* Properties *)

IsTranscript(x) ==
    /\ DOMAIN x \subseteq AllChunks \X Nat
    /\ \A p \in DOMAIN x : x[p].start \in Nat /\ x[p].end \in Nat /\ x[p].text \in Recordings

\* Every variable has a value of its kind: the type invariant of the stages.
TypeOK ==
    /\ recording \in Recordings /\ provider \in Providers
    /\ raw \in Recordings \cup {None}
    /\ probe \in Durations \cup {None} /\ plan \in Durations \cup {0, None}
    /\ length \in Durations \cup {0}
    /\ wav \in [AllChunks -> Recordings \cup {None}]
    /\ result \in [AllChunks -> Result]
    /\ transcript = None \/ IsTranscript(transcript)
    /\ json = None \/ IsTranscript(json.captions)
    /\ \A c \in candidates : IsTranscript(c.of)
    /\ IsTranscript(captions)
    /\ rows \subseteq Kinds /\ filtering \in BOOLEAN
    /\ task \in {"pending", "running"} \cup Terminal
    /\ stages \in [Stages -> StageStatus] /\ stage \in Stages
    /\ entry \in {"queued", "running", "finished"}
    /\ pc \in Steps
    /\ index \in Nat \ {0} /\ attempt \in 1..MaxAttempts
    /\ children \subseteq Child /\ exit \in {"none", "failed", "success"} /\ clip \in BOOLEAN
    /\ runs \in 1..MaxRuns /\ crashes \in 0..MaxCrashes
    /\ changes \in 0..MaxChanges /\ exports \in 0..MaxExports

\* Every line of the final subtitles is the translation of the caption it stands
\* under, by the provider the file names, however often chunks were recognised
\* and translated before.
FinalTextsTranslateTheirCaptions ==
    json # None => json.texts = [p \in DOMAIN json.captions |->
                                    [of |-> json.captions[p], by |-> json.by]]

\* Final subtitles that the database announces are one pair: two renames and a
\* later commit never leave a row for a half replaced pair.
CommittedPairAgrees == Final \in rows /\ json # None => srt = json

\* Final subtitles on disk are those of the transcript on disk: no retry leaves
\* stale subtitles that look current.
PublishedCaptionsAreTheTranscript == json # None => json.captions = transcript

\* The database announces final subtitles only of a translation that succeeded.
FinalRowMeansSuccess == Final \in rows => stages[Translation] = "success"

\* When media preparation has succeeded, the plan is for the source in raw/ and
\* every chunk of it has a WAV of its length, whatever earlier runs on other
\* sources left behind.
PreparedAudioFitsThePlan ==
    stages[MediaPrep] = "success" =>
        /\ plan = Duration[raw]
        /\ \A i \in Chunks(plan) :
            wav[i] # None /\ ChunkSpan(Duration[wav[i]], i) = ChunkSpan(plan, i)

\* A successful ASR stage leaves a transcript that translation accepts as the
\* merge of the chunk results, unless a crash has left a child behind.
AsrSuccessIsVerifiable == crashes = 0 /\ stages[Asr] = "success" => MergeIsCurrent

\* Highlight candidates of a finished stage, if it found any, are scored on the
\* captions of this run and not left over from another, also when files were removed
\* under the worker, and a finished report lists them.
CandidatesAreOfTheTranscript ==
    /\ stages[Highlight] = "success" => \A c \in candidates : c.of = transcript
    /\ stages[Report] = "success" => report = candidates

\* Announced subtitles lose their files only to a retry that is refused because
\* the entry of the task is still running.
OnlyARefusedRetryUnpublishes ==
    [][(Final \in rows' /\ json # None /\ json' = None) => entry = "running"]_vars

\* A queued task is worked on to its end, through failing stages, bounded
\* proofread retries and a crash of the worker.
EveryRunEnds == (entry = "queued") ~> (pc = "idle" /\ task \in Terminal)

\* How far the worker is from the end of a run: stages, then steps of the stage,
\* then chunks or captions, then requests for the batch.
StagesLeft == IF pc = "release" THEN 0 ELSE Report + 1 - stage

PlacesLeft ==
    CASE pc \in {"idle", "dead", "release"} -> 0
      [] pc \in {"commit", "skip"} -> 1
      [] pc \in {"fallback", "cut", "publish", "srt", "score", "report"} -> 2
      [] pc \in {"ingest", "probe", "aggregate", "proofread", "highlight"} -> 3
      [] pc \in {"chunk", "child", "translate"} -> 4
      [] pc \in {"load", "verify"} -> 5

ChunksLeft == IF index \in Chunks(length) THEN length + 1 - index ELSE 0

WorkLeft ==
    CASE pc \in {"cut", "translate"} -> ChunksLeft
      [] pc = "chunk" -> 2 * ChunksLeft + 1
      [] pc = "child" -> 2 * ChunksLeft
      [] pc = "proofread" -> IF BatchesLeft
                             THEN Cardinality(DOMAIN captions) - (index - 1) * BatchSize ELSE 0
      [] OTHER -> 0

LessLeft ==
    \/ StagesLeft' < StagesLeft
    \/ StagesLeft' = StagesLeft /\ PlacesLeft' < PlacesLeft
    \/ StagesLeft' = StagesLeft /\ PlacesLeft' = PlacesLeft /\ WorkLeft' < WorkLeft
    \/ /\ StagesLeft' = StagesLeft /\ PlacesLeft' = PlacesLeft /\ WorkLeft' = WorkLeft
       /\ attempt' \in (attempt + 1)..MaxAttempts

\* Every step of the worker leaves less of the run, also when it fails, reuses or
\* asks again, and neither a child, the user nor the source sends it back: no
\* sequence of outcomes keeps a run going for ever.
EveryStepLeavesLess ==
    [][pc \notin {"idle", "dead"} =>
        \/ pc' \in {"idle", "dead"}
        \/ LessLeft
        \/ UNCHANGED <<pc, stage, memory>> /\ ~WorkerStep]_vars

\* The worker waits only for a child that is alive and will be heard.
AwaitedChildLives ==
    pc = "child" /\ exit = "none" => \E c \in children : c.watched

\* What a retry reuses is a result that the merge will not refuse again.
RejectedResultIsRetaken ==
    [][(runs > 1 /\ pc = "chunk" /\ pc' = "chunk" /\ index' = index + 1)
        => InOrder(result[index].take, ChunkSpan(length, index))]_vars

=============================================================================

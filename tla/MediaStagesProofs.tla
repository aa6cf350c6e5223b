-------------------------- MODULE MediaStagesProofs --------------------------
(***************************************************************************)
(* The invariants of one task on its way through the stages, for every set  *)
(* of recordings, takes and providers and every number of runs, crashes,    *)
(* changes and exports.                                                     *)
(***************************************************************************)
EXTENDS TaskView, CaptionsProofs

USE DEF media, asrFiles, subtitles, review, database, memory, processes, world

-----------------------------------------------------------------------------
(* Constants *)

LEMMA StageNumbers ==
    /\ Stages = {1, 2, 3, 4, 5, 6, 7}
    /\ Ingest = 1 /\ MediaPrep = 2 /\ Asr = 3 /\ Translation = 4
    /\ Highlight = 5 /\ Export = 6 /\ Report = 7
<1>1. Report = 7 /\ Ingest = 1
  BY DEF Report, Ingest
<1>2. 1..7 = {1, 2, 3, 4, 5, 6, 7}
  OBVIOUS
<1> QED
  BY <1>1, <1>2 DEF Stages, MediaPrep, Asr, Translation, Highlight, Export

LEMMA FirstSteps ==
    /\ FirstStep[1] = "ingest" /\ FirstStep[2] = "probe" /\ FirstStep[3] = "load"
    /\ FirstStep[4] = "verify" /\ FirstStep[5] = "highlight" /\ FirstStep[6] = "skip"
    /\ FirstStep[7] = "report"
BY DEF FirstStep

LEMMA RowsOfStages ==
    /\ RowOf[1] = "source_video" /\ RowOf[2] = "asr_audio_chunk"
    /\ RowOf[3] = "transcript_json" /\ RowOf[4] = Final
    /\ RowOf[5] = "highlight_candidates_json" /\ RowOf[6] = "clip_export"
    /\ RowOf[7] = "task_report_markdown"
BY DEF RowOf

\* Only the commit of the translation stage adds the row of the final subtitles.
LEMMA FinalIsOfTranslation ==
    \A s \in Stages : RowOf[s] \in Kinds /\ (RowOf[s] = Final <=> s = Translation)
BY StageNumbers, RowsOfStages DEF Kinds, Final

LEMMA StepsAreSteps ==
    /\ \A s \in Stages : FirstStep[s] \in Steps
    /\ {"idle", "dead", "fallback", "cut", "chunk", "child", "aggregate", "publish",
        "translate", "proofread", "srt", "score", "commit", "release"} \subseteq Steps
BY DEF Steps

LEMMA ChunksOfDurations ==
    ASSUME NEW d \in Durations \cup {0}
    PROVE  d \in Nat /\ Chunks(d) \subseteq AllChunks
<1>1. CASE d = 0
  BY <1>1 DEF Chunks
<1>2. CASE d \in Durations
  BY <1>2, DurationAssumption DEF AllChunks, Durations
<1> QED
  BY <1>1, <1>2

-----------------------------------------------------------------------------
(* Types *)

\* Recognised words have a recording they were recognised in, in the files ...
ResultsHaveText == \A i \in AllChunks : result[i].take \in Takes => result[i].text \in Recordings

\* ... and in a child that is about to write them.
ChildrenHaveText ==
    \A c \in children : c.step = "write" => c.take \in Takes /\ c.text \in Recordings

TypeInv == TypeOK /\ ResultsHaveText /\ ChildrenHaveText

LEMMA ElementsOfSequences ==
    ASSUME NEW S, NEW s \in Seq(S), NEW j \in DOMAIN s
    PROVE  j \in Nat /\ s[j] \in S
OBVIOUS

\* The merge of valid results has the type of a transcript.
LEMMA MergeIsTranscript ==
    ASSUME TypeInv, NEW d \in Durations \cup {0}, MayMerge(d)
    PROVE  IsTranscript(CaptionsOf(d))
<1> DEFINE takes == TakesOf(d)
           text == [i \in Chunks(d) |-> result[i].text]
<1>1. d \in Nat /\ Chunks(d) \subseteq AllChunks
  BY ChunksOfDurations
<1>2. ASSUME NEW i \in Chunks(d)
      PROVE  takes[i] \in Takes /\ text[i] \in Recordings
  <2>1. result[i].take \in Takes \cup {None, Torn}
    BY <1>1 DEF TypeInv, TypeOK, Result
  <2>2. result[i].take \in Takes
    BY <2>1 DEF MayMerge, HasValidResult, HasReadableTake
  <2> QED
    BY <1>1, <2>2 DEF TypeInv, ResultsHaveText, TakesOf
<1>3. DOMAIN takes = Chunks(d)
  BY DEF TakesOf
<1>4. ASSUME NEW p \in Places(takes)
      PROVE  /\ p \in AllChunks \X Nat /\ p[1] \in Chunks(d) /\ p[2] \in DOMAIN takes[p[1]]
             /\ takes[p[1]][p[2]] \in Caption
  <2>1. PICK i \in Chunks(d) : p \in {i} \X DOMAIN takes[i]
    BY <1>3 DEF Places
  <2>2. p[1] = i /\ p[2] \in DOMAIN takes[i] /\ p = <<p[1], p[2]>>
    BY <2>1
  <2>3. takes[i] \in Seq(Caption)
    BY <1>2, TakesAssumption DEF Caption, Span
  <2>4. p[2] \in Nat /\ takes[i][p[2]] \in Caption
    BY <2>2, <2>3, ElementsOfSequences
  <2> QED
    BY <1>1, <2>2, <2>4
<1>5. CaptionsOf(d) = Merged(takes, text)
  BY DEF CaptionsOf
<1>6. DOMAIN CaptionsOf(d) = Places(takes)
  BY <1>5 DEF Merged
<1>7. ASSUME NEW p \in Places(takes)
      PROVE  /\ CaptionsOf(d)[p].start \in Nat /\ CaptionsOf(d)[p].end \in Nat
             /\ CaptionsOf(d)[p].text \in Recordings
  <2>1. /\ CaptionsOf(d)[p].start = ChunkStart(p[1]) + takes[p[1]][p[2]].start
        /\ CaptionsOf(d)[p].end = ChunkStart(p[1]) + takes[p[1]][p[2]].end
        /\ CaptionsOf(d)[p].text = text[p[1]]
    BY <1>5 DEF Merged
  <2>2. ChunkStart(p[1]) \in Nat
    BY <1>1, <1>4, Bounds
  <2> QED
    BY <1>2, <1>4, <2>1, <2>2 DEF Caption
<1> QED
  BY <1>4, <1>6, <1>7 DEF IsTranscript

LEMMA MemoryStart ==
    /\ IsTranscript(Nothing)
    /\ 1 \in Nat \ {0} /\ 1 \in 1..MaxAttempts
BY ProofreadAssumption DEF IsTranscript, Nothing

LEMMA NoFiles ==
    /\ NoAudio \in [AllChunks -> Recordings \cup {None}]
    /\ NoResult \in Result
BY DEF NoAudio, NoResult, Result

LEMMA InitTypes == Init => TypeInv
<1> SUFFICES ASSUME Init PROVE TypeInv
  OBVIOUS
<1>1. 1 \in 1..MaxRuns /\ 0 \in 0..MaxCrashes /\ 0 \in 0..MaxChanges /\ 0 \in 0..MaxExports
  BY BoundsAssumption
<1>2. provider \in Providers
  BY ProvidersAssumption DEF Init
<1>3. stages \in [Stages -> StageStatus] /\ stage \in Stages
  BY StageNumbers DEF Init, StageStatus
<1>4. pc \in Steps
  BY StepsAreSteps DEF Init
<1>5. result \in [AllChunks -> Result]
  BY NoFiles DEF Init
<1>6. TypeOK
  BY <1>1, <1>2, <1>3, <1>4, <1>5, MemoryStart, NoFiles DEF Init, TypeOK
<1>7. ResultsHaveText /\ ChildrenHaveText
  BY UnsetAssumption DEF Init, ResultsHaveText, ChildrenHaveText, NoResult
<1> QED
  BY <1>6, <1>7 DEF TypeInv

\* Most steps leave the results of the chunks and the children alone.
LEMMA WorkerTypes ==
    ASSUME TypeInv, TypeOK', UNCHANGED <<result, children>>
    PROVE  TypeInv'
BY DEF TypeInv, ResultsHaveText, ChildrenHaveText

\* What Fail leaves behind, whatever fails.
LEMMA FailTypes ==
    ASSUME TypeInv, Fail
    PROVE  /\ task' \in Terminal /\ stages' \in [Stages -> StageStatus]
           /\ pc' \in Steps /\ index' \in Nat \ {0} /\ length' \in Durations \cup {0}
           /\ attempt' \in 1..MaxAttempts /\ IsTranscript(captions)'
           /\ UNCHANGED <<stage, entry>>
<1>1. IsTranscript(captions)'
  BY MemoryStart DEF Fail, Forget, IsTranscript
<1> QED
  BY <1>1, MemoryStart, StepsAreSteps DEF Fail, Forget, TypeInv, TypeOK, Terminal, StageStatus

LEMMA ClaimTypes ==
    ASSUME TypeInv, Claim
    PROVE  TypeInv'
<1>1. pc' \in Steps
  BY StepsAreSteps DEF Claim, GoTo, TypeInv, TypeOK
<1>2. TypeOK'
  BY <1>1 DEF Claim, GoTo, TypeInv, TypeOK, StageStatus, IsTranscript
<1> QED
  BY <1>2, WorkerTypes DEF Claim

LEMMA CheckpointTypes ==
    ASSUME TypeInv, CommitCheckpoint
    PROVE  TypeInv'
<1>1. stage # Report => stage + 1 \in Stages
  BY StageNumbers DEF TypeInv, TypeOK
<1>2. pc' \in Steps /\ stage' \in Stages
  BY <1>1, StepsAreSteps DEF CommitCheckpoint, TypeInv, TypeOK
<1>3. stages' \in [Stages -> StageStatus]
  BY <1>1 DEF CommitCheckpoint, Outcome, TypeInv, TypeOK, StageStatus, Terminal
<1>4. rows' \subseteq Kinds
  BY FinalIsOfTranslation DEF CommitCheckpoint, RowsAfterStage, WithRow, TypeInv, TypeOK
<1>5. \A c \in candidates' : IsTranscript(c.of)
  <2>1. candidates' \in ScoredCandidates \/ candidates' = candidates
    BY DEF CommitCheckpoint, CandidatesAfterStage
  <2> QED
    BY <2>1 DEF ScoredCandidates, TypeInv, TypeOK
<1>6. IsTranscript(captions') /\ index' \in Nat \ {0} /\ attempt' \in 1..MaxAttempts /\ length' = 0
  BY MemoryStart DEF CommitCheckpoint, Forget
<1>7. task' \in {"pending", "running"} \cup Terminal
  BY DEF CommitCheckpoint, Terminal
<1>8. TypeOK'
  BY <1>2, <1>3, <1>4, <1>5, <1>6, <1>7 DEF CommitCheckpoint, TypeInv, TypeOK, IsTranscript
<1> QED
  BY <1>8, WorkerTypes DEF CommitCheckpoint

LEMMA AroundStagesTypes ==
    ASSUME TypeInv, Release \/ Crash \/ Recover
    PROVE  TypeInv'
<1>1. CASE Release
  <2>1. TypeOK'
    BY <1>1, StepsAreSteps DEF Release, GoTo, TypeInv, TypeOK, IsTranscript
  <2> QED
    BY <1>1, <2>1, WorkerTypes DEF Release
<1>2. CASE Crash
  <2>1. children' \subseteq Child
    <3>1. ASSUME NEW c \in Child
          PROVE  [c EXCEPT !.watched = FALSE] \in Child
      BY DEF Child
    <3> QED
      BY <1>2, <3>1 DEF Crash, TypeInv, TypeOK
  <2>2. ChildrenHaveText'
    BY <1>2 DEF Crash, TypeInv, TypeOK, ChildrenHaveText, Child
  <2>3. pc' \in Steps
    BY <1>2, StepsAreSteps DEF Crash
  <2>4. crashes' \in 0..MaxCrashes
    BY <1>2, BoundsAssumption DEF Crash, TypeInv, TypeOK
  <2>5. IsTranscript(captions') /\ index' \in Nat \ {0} /\ attempt' \in 1..MaxAttempts /\ length' = 0
    BY <1>2, MemoryStart DEF Crash, Forget
  <2>6. TypeOK'
    BY <1>2, <2>1, <2>3, <2>4, <2>5 DEF Crash, TypeInv, TypeOK, IsTranscript
  <2> QED
    BY <1>2, <2>2, <2>6 DEF Crash, TypeInv, ResultsHaveText
<1>3. CASE Recover
  <2>1. children' \subseteq children
    BY <1>3 DEF Recover
  <2>2. stages' \in [Stages -> StageStatus]
    BY <1>3 DEF Recover, TypeInv, TypeOK, StageStatus, Terminal
  <2>3. TypeOK'
    BY <1>3, <2>1, <2>2, StepsAreSteps DEF Recover, GoTo, TypeInv, TypeOK, IsTranscript, Terminal
  <2> QED
    BY <1>3, <2>1, <2>3 DEF Recover, TypeInv, ResultsHaveText, ChildrenHaveText
<1> QED
  BY <1>1, <1>2, <1>3

LEMMA PrepareTypes ==
    ASSUME TypeInv, Prepare
    PROVE  TypeInv'
<1>1. UNCHANGED <<result, children>>
  BY DEF Prepare, IngestSource, FallBackToYtDlp, ProbeSource, CutChunk, WritePlan, FailMediaStage
<1>2. CASE IngestSource \/ FallBackToYtDlp \/ WritePlan
  <2>1. TypeOK'
    BY <1>2, StepsAreSteps
    DEF IngestSource, FallBackToYtDlp, WritePlan, GoTo, TypeInv, TypeOK, IsTranscript
  <2> QED
    BY <1>1, <2>1, WorkerTypes
<1>3. CASE ProbeSource
  <2>1. wav' \in [AllChunks -> Recordings \cup {None}]
    BY <1>3, NoFiles DEF ProbeSource, TypeInv, TypeOK
  <2>2. Duration[raw] \in Durations
    BY <1>3 DEF ProbeSource, TypeInv, TypeOK, Durations
  <2>3. TypeOK'
    BY <1>3, <2>1, <2>2, StepsAreSteps DEF ProbeSource, TypeInv, TypeOK, IsTranscript
  <2> QED
    BY <1>1, <2>3, WorkerTypes
<1>4. CASE CutChunk
  <2>1. wav' \in [AllChunks -> Recordings \cup {None}]
    BY <1>4 DEF CutChunk, TypeInv, TypeOK
  <2>2. index' \in Nat \ {0}
    BY <1>4 DEF CutChunk, TypeInv, TypeOK
  <2>3. TypeOK'
    BY <1>4, <2>1, <2>2 DEF CutChunk, TypeInv, TypeOK, IsTranscript
  <2> QED
    BY <1>1, <2>3, WorkerTypes
<1>5. CASE FailMediaStage
  <2>1. TypeOK'
    BY <1>5, FailTypes DEF FailMediaStage, TypeInv, TypeOK, IsTranscript
  <2> QED
    BY <1>1, <2>1, WorkerTypes
<1> QED
  BY <1>2, <1>3, <1>4, <1>5 DEF Prepare

LEMMA RecognizeTypes ==
    ASSUME TypeInv, Recognize
    PROVE  TypeInv'
<1>1. CASE StartChild
  <2>1. index \in AllChunks
    BY <1>1, ChunksOfDurations DEF StartChild, TypeInv, TypeOK
  <2> DEFINE new == [chunk |-> index, step |-> "start", take |-> None, text |-> None, watched |-> TRUE]
  <2>2. new \in Child /\ new.step # "write" /\ children' = children \cup {new}
    BY <1>1, <2>1 DEF Child, StartChild
  <2> HIDE DEF new
  <2>3. children' \subseteq Child /\ ChildrenHaveText'
    BY <2>2 DEF TypeInv, TypeOK, ChildrenHaveText
  <2>4. TypeOK'
    BY <1>1, <2>3, StepsAreSteps DEF StartChild, GoTo, TypeInv, TypeOK, IsTranscript
  <2> QED
    BY <1>1, <2>3, <2>4 DEF StartChild, TypeInv, ResultsHaveText
<1>2. CASE LoadPlan \/ ReuseChunk \/ AwaitChild
  <2>1. index' \in Nat \ {0} /\ length' \in Durations \cup {0} /\ pc' \in Steps
    BY <1>2, StepsAreSteps DEF LoadPlan, ReuseChunk, AwaitChild, TypeInv, TypeOK
  <2>2. TypeOK'
    BY <1>2, <2>1 DEF LoadPlan, ReuseChunk, AwaitChild, TypeInv, TypeOK, IsTranscript
  <2> QED
    BY <1>2, <2>2, WorkerTypes DEF LoadPlan, ReuseChunk, AwaitChild
<1>3. CASE MergeChunks
  <2>1. IsTranscript(CaptionsOf(length))
    BY <1>3, MergeIsTranscript DEF MergeChunks, TypeInv, TypeOK
  <2>2. IsTranscript(captions') /\ IsTranscript(transcript')
    BY <1>3, <2>1 DEF MergeChunks, IsTranscript
  <2>3. TypeOK'
    BY <1>3, <2>2, StepsAreSteps DEF MergeChunks, TypeInv, TypeOK, IsTranscript
  <2> QED
    BY <1>3, <2>3, WorkerTypes DEF MergeChunks
<1>4. CASE WriteAggregate
  <2>1. TypeOK'
    BY <1>4, StepsAreSteps DEF WriteAggregate, GoTo, TypeInv, TypeOK, IsTranscript
  <2> QED
    BY <1>4, <2>1, WorkerTypes DEF WriteAggregate
<1>5. CASE PublishTranscript
  <2>1. TypeOK'
    BY <1>5, StepsAreSteps, FinalIsOfTranslation, StageNumbers
    DEF PublishTranscript, GoTo, WithRow, TypeInv, TypeOK, IsTranscript
  <2> QED
    BY <1>5, <2>1, WorkerTypes DEF PublishTranscript
<1>6. CASE FailAsr
  <2>1. TypeOK'
    BY <1>6, FailTypes DEF FailAsr, TypeInv, TypeOK, IsTranscript
  <2> QED
    BY <1>6, <2>1, WorkerTypes DEF FailAsr
<1> QED
  BY <1>1, <1>2, <1>3, <1>4, <1>5, <1>6 DEF Recognize

\* What a child may do to the files of its chunk and to the set of children.
LEMMA ChildTypes ==
    ASSUME TypeInv, NEW c \in children, ChildStep(c)
    PROVE  TypeInv'
<1>0. c \in Child /\ c.chunk \in AllChunks /\ c.take \in Takes \cup {None}
      /\ c.text \in Recordings \cup {None}
  BY DEF TypeInv, TypeOK, Child
<1>r. result \in [AllChunks -> Result]
  BY DEF TypeInv, TypeOK
<1>1. ASSUME result' \in [AllChunks -> Result], children' \subseteq Child, exit' \in {"none", "failed", "success"},
             UNCHANGED <<media, transcript, aggregate, subtitles, review, database, pc, memory, world>>
      PROVE  TypeOK'
  BY <1>1 DEF TypeInv, TypeOK, IsTranscript
<1>2. CASE ChildFails(c)
  <2>1. result' \in [AllChunks -> Result] /\ ResultsHaveText'
    BY <1>0, <1>r, <1>2 DEF ChildFails, Result, TypeInv, ResultsHaveText
  <2>2. children' \subseteq children /\ exit' \in {"none", "failed", "success"}
    BY <1>2 DEF ChildFails, TypeInv, TypeOK
  <2>3. children' \subseteq Child /\ ChildrenHaveText'
    BY <2>2 DEF TypeInv, TypeOK, ChildrenHaveText
  <2> QED
    BY <1>1, <1>2, <2>1, <2>2, <2>3 DEF ChildFails, TypeInv
<1>3. CASE ChildTranscribes(c)
  <2>1. PICK take \in Takes : children' = (children \ {c})
            \cup {[c EXCEPT !.step = "write", !.take = take, !.text = wav[c.chunk]]}
    BY <1>3 DEF ChildTranscribes
  <2>2. wav[c.chunk] \in Recordings
    BY <1>0, <1>3 DEF ChildTranscribes, TypeInv, TypeOK
  <2> DEFINE next == [c EXCEPT !.step = "write", !.take = take, !.text = wav[c.chunk]]
  <2>3. next \in Child /\ next.take \in Takes /\ next.text \in Recordings
    BY <1>0, <2>2 DEF Child
  <2>4. children' \subseteq Child /\ ChildrenHaveText'
    BY <2>1, <2>3 DEF TypeInv, TypeOK, ChildrenHaveText
  <2>5. result' \in [AllChunks -> Result] /\ ResultsHaveText'
    BY <1>0, <1>r, <1>3, UnsetAssumption DEF ChildTranscribes, Result, TypeInv, ResultsHaveText
  <2>6. exit' \in {"none", "failed", "success"}
    BY <1>3 DEF ChildTranscribes, TypeInv, TypeOK
  <2> QED
    BY <1>1, <1>3, <2>4, <2>5, <2>6 DEF ChildTranscribes, TypeInv
<1>4. CASE ChildWritesOutputs(c)
  <2> DEFINE next == [c EXCEPT !.step = "manifest"]
  <2>1. next \in Child /\ next.step = "manifest"
    BY <1>0 DEF Child
  <2>2. children' = (children \ {c}) \cup {next}
    BY <1>4 DEF ChildWritesOutputs
  <2>3. children' \subseteq Child /\ ChildrenHaveText'
    BY <2>1, <2>2 DEF TypeInv, TypeOK, ChildrenHaveText
  <2>4. c.text \in Recordings
    BY <1>4 DEF ChildWritesOutputs, TypeInv, ChildrenHaveText
  <2>5. result' \in [AllChunks -> Result] /\ ResultsHaveText'
    BY <1>0, <1>r, <1>4, <2>4 DEF ChildWritesOutputs, Result, TypeInv, ResultsHaveText
  <2>6. exit' \in {"none", "failed", "success"}
    BY <1>4 DEF ChildWritesOutputs, TypeInv, TypeOK
  <2> QED
    BY <1>1, <1>4, <2>3, <2>5, <2>6 DEF ChildWritesOutputs, TypeInv
<1>5. CASE ChildSucceeds(c)
  <2>1. result' \in [AllChunks -> Result] /\ ResultsHaveText'
    BY <1>0, <1>r, <1>5 DEF ChildSucceeds, Result, TypeInv, ResultsHaveText
  <2>2. children' \subseteq children /\ exit' \in {"none", "failed", "success"}
    BY <1>5 DEF ChildSucceeds, TypeInv, TypeOK
  <2>3. children' \subseteq Child /\ ChildrenHaveText'
    BY <2>2 DEF TypeInv, TypeOK, ChildrenHaveText
  <2> QED
    BY <1>1, <1>5, <2>1, <2>2, <2>3 DEF ChildSucceeds, TypeInv
<1> QED
  BY <1>2, <1>3, <1>4, <1>5 DEF ChildStep

LEMMA TranslateTypes ==
    ASSUME TypeInv, Translate
    PROVE  TypeInv'
<1>0. UNCHANGED <<result, children>>
  BY DEF Translate, VerifyTranscript, FailVerification, TranslateChunk, WriteDraft, ProofreadBatch,
         RetryRequest, WriteJson, WriteSrt, DiscardPublication
<1>1. CASE VerifyTranscript
  <2>1. plan # None /\ MayMerge(plan) /\ transcript = CaptionsOf(plan)
    BY <1>1 DEF VerifyTranscript, MergeIsCurrent, TranscriptIsCurrent
  <2>2. plan \in Durations \cup {0} /\ IsTranscript(transcript)
    BY <2>1, MergeIsTranscript DEF TypeInv, TypeOK
  <2>3. TypeOK'
    BY <1>1, <2>2, StepsAreSteps DEF VerifyTranscript, TypeInv, TypeOK, IsTranscript
  <2> QED
    BY <1>0, <2>3, WorkerTypes
<1>2. CASE FailVerification
  <2>1. TypeOK'
    BY <1>2, FailTypes DEF FailVerification, TypeInv, TypeOK, IsTranscript
  <2> QED
    BY <1>0, <2>1, WorkerTypes
<1>3. CASE TranslateChunk \/ ProofreadBatch
  <2>1. index' \in Nat \ {0} /\ attempt' \in 1..MaxAttempts
    BY <1>3, MemoryStart DEF TranslateChunk, ProofreadBatch, TypeInv, TypeOK
  <2>2. TypeOK'
    BY <1>3, <2>1 DEF TranslateChunk, ProofreadBatch, TypeInv, TypeOK, IsTranscript
  <2> QED
    BY <1>0, <2>2, WorkerTypes
<1>4. CASE WriteDraft
  <2>1. rows' \subseteq Kinds
    BY <1>4 DEF WriteDraft, WithRow, Kinds, TypeInv, TypeOK
  <2>2. TypeOK'
    BY <1>4, <2>1, StepsAreSteps DEF WriteDraft, TypeInv, TypeOK, IsTranscript
  <2> QED
    BY <1>0, <2>2, WorkerTypes
<1>5. CASE RetryRequest
  <2>1. attempt' \in 1..MaxAttempts
    BY <1>5, ProofreadAssumption DEF RetryRequest, TypeInv, TypeOK
  <2>2. TypeOK'
    BY <1>5, <2>1 DEF RetryRequest, TypeInv, TypeOK, IsTranscript
  <2> QED
    BY <1>0, <2>2, WorkerTypes
<1>6. CASE WriteJson \/ WriteSrt
  <2>1. json' = None \/ IsTranscript(json'.captions)
    BY <1>6 DEF WriteJson, WriteSrt, Publication, TypeInv, TypeOK
  <2>2. TypeOK'
    BY <1>6, <2>1, StepsAreSteps DEF WriteJson, WriteSrt, GoTo, TypeInv, TypeOK, IsTranscript
  <2> QED
    BY <1>0, <2>2, WorkerTypes
<1>7. CASE DiscardPublication
  <2>1. TypeOK'
    BY <1>7, FailTypes DEF DiscardPublication, TypeInv, TypeOK, IsTranscript
  <2> QED
    BY <1>0, <2>1, WorkerTypes
<1> QED
  BY <1>1, <1>2, <1>3, <1>4, <1>5, <1>6, <1>7 DEF Translate

LEMMA ReviewTypes ==
    ASSUME TypeInv, Review
    PROVE  TypeInv'
<1>0. UNCHANGED <<result, children>>
  BY DEF Review, ResolveScenes, ScoreCandidates, SkipHighlight, GenerateReport, FailReview
<1>1. CASE ResolveScenes
  <2>1. IsTranscript(captions')
    BY <1>1 DEF ResolveScenes, HighlightSource, TypeInv, TypeOK
  <2>2. TypeOK'
    BY <1>1, <2>1, StepsAreSteps DEF ResolveScenes, TypeInv, TypeOK, IsTranscript
  <2> QED
    BY <1>0, <2>2, WorkerTypes
<1>2. CASE ScoreCandidates \/ SkipHighlight \/ GenerateReport
  <2>1. pc' \in Steps
    BY <1>2, StageNumbers, FirstSteps, StepsAreSteps DEF ScoreCandidates, SkipHighlight, GenerateReport, GoTo
  <2>2. TypeOK'
    BY <1>2, <2>1 DEF ScoreCandidates, SkipHighlight, GenerateReport, GoTo, TypeInv, TypeOK, IsTranscript
  <2> QED
    BY <1>0, <2>2, WorkerTypes
<1>3. CASE FailReview
  <2>1. candidates' = candidates \/ candidates' \in ScoredCandidates
    BY <1>3 DEF FailReview
  <2>2. \A c \in candidates' : IsTranscript(c.of)
    BY <2>1 DEF ScoredCandidates, TypeInv, TypeOK
  <2>3. TypeOK'
    BY <1>3, <2>2, FailTypes DEF FailReview, TypeInv, TypeOK, IsTranscript
  <2> QED
    BY <1>0, <2>3, WorkerTypes
<1> QED
  BY <1>1, <1>2, <1>3 DEF Review

LEMMA UserTypes ==
    ASSUME TypeInv, User \/ SourceChanges
    PROVE  TypeInv'
<1>0. UNCHANGED <<result, children>>
  BY DEF User, Retry, RefusedRetry, ExportClip, EndExport, SourceChanges
<1>1. ASSUME NEW s \in Stages, Retry(s)
      PROVE  TypeInv'
  <2>1. stages' \in [Stages -> StageStatus] /\ rows' \subseteq Kinds
    BY <1>1 DEF Retry, Reset, TypeInv, TypeOK, StageStatus
  <2>2. runs' \in 1..MaxRuns
    BY <1>1, BoundsAssumption DEF Retry, TypeInv, TypeOK
  <2>3. json' = json \/ json' = None
    BY <1>1 DEF Retry, Unlink
  <2>4. TypeOK'
    BY <1>1, <2>1, <2>2, <2>3 DEF Retry, TypeInv, TypeOK, IsTranscript
  <2> QED
    BY <1>0, <2>4, WorkerTypes
<1>2. ASSUME NEW s \in Stages, RefusedRetry(s)
      PROVE  TypeInv'
  <2>1. json' = json \/ json' = None
    BY <1>2 DEF RefusedRetry, Unlink
  <2>2. TypeOK'
    BY <1>2, <2>1 DEF RefusedRetry, TypeInv, TypeOK, IsTranscript
  <2> QED
    BY <1>0, <2>2, WorkerTypes
<1>3. CASE ExportClip
  <2>1. exports' \in 0..MaxExports /\ clip' \in BOOLEAN
    BY <1>3, BoundsAssumption DEF ExportClip, TypeInv, TypeOK
  <2>2. TypeOK'
    BY <1>3, <2>1 DEF ExportClip, TypeInv, TypeOK, IsTranscript
  <2> QED
    BY <1>0, <2>2, WorkerTypes
<1>5. CASE SourceChanges
  <2>1. changes' \in 0..MaxChanges /\ recording' \in Recordings
    BY <1>5, BoundsAssumption DEF SourceChanges, TypeInv, TypeOK
  <2>2. TypeOK'
    BY <1>5, <2>1 DEF SourceChanges, TypeInv, TypeOK, IsTranscript
  <2> QED
    BY <1>0, <2>2, WorkerTypes
<1>4. CASE EndExport
  <2>1. stages' \in [Stages -> StageStatus] /\ rows' \subseteq Kinds
    BY <1>4, StageNumbers, FinalIsOfTranslation
    DEF EndExport, PersistExport, FailExport, WithRow, TypeInv, TypeOK, StageStatus, Terminal
  <2>2. task' \in {"pending", "running"} \cup Terminal
    BY <1>4 DEF EndExport, PersistExport, FailExport, TypeInv, TypeOK, Terminal
  <2>3. clip' \in BOOLEAN
    BY <1>4 DEF EndExport
  <2>4. TypeOK'
    BY <1>4, <2>1, <2>2, <2>3 DEF EndExport, TypeInv, TypeOK, IsTranscript
  <2> QED
    BY <1>0, <2>4, WorkerTypes
<1> QED
  BY <1>1, <1>2, <1>3, <1>4, <1>5 DEF User

LEMMA TypeStep == TypeInv /\ [Next]_vars => TypeInv'
<1> SUFFICES ASSUME TypeInv, [Next]_vars PROVE TypeInv'
  OBVIOUS
<1>1. CASE UNCHANGED vars
  BY <1>1 DEF vars, TypeInv, TypeOK, IsTranscript, ResultsHaveText, ChildrenHaveText
<1> QED
  BY <1>1, ClaimTypes, CheckpointTypes, AroundStagesTypes, PrepareTypes, RecognizeTypes, ChildTypes,
     TranslateTypes, ReviewTypes, UserTypes DEF Next, WorkerStep

\* Every variable of the stages keeps its type, for all recordings, takes and bounds.
THEOREM TypeCorrect == Spec => []TypeOK
<1>1. Spec => []TypeInv
  BY InitTypes, TypeStep, PTL DEF Spec
<1>2. TypeInv => TypeOK
  BY DEF TypeInv
<1> QED
  BY <1>1, <1>2, PTL

-----------------------------------------------------------------------------
(* Where the worker stands *)

\* The step of the worker tells the stage it is in.
StepIsOfStage ==
    /\ pc \in {"ingest", "fallback"} => stage = Ingest
    /\ pc \in {"probe", "cut"} => stage = MediaPrep
    /\ pc \in {"load", "chunk", "child", "aggregate", "publish"} => stage = Asr
    /\ pc \in {"verify", "translate", "proofread", "srt"} => stage = Translation
    /\ pc \in {"highlight", "score"} => stage = Highlight
    /\ pc = "skip" => stage \in {Highlight, Export}
    /\ pc = "report" => stage = Report
    /\ pc = "commit" => stage # Export

\* A worker that is not idle holds the queue entry.
WorkerHoldsEntry == pc # "idle" => entry = "running"

\* Between two stages the worker remembers nothing.
AtFirstStep == pc \in {"idle", "dead", "release", "fallback"} \cup {FirstStep[s] : s \in Stages}
NothingRemembered == AtFirstStep => index = 1 /\ length = 0 /\ texts = Nothing

StepInv == StepIsOfStage /\ WorkerHoldsEntry /\ NothingRemembered

LEMMA FirstStepsOfStages ==
    {FirstStep[s] : s \in Stages} =
        {"ingest", "probe", "load", "verify", "highlight", "skip", "report"}
BY StageNumbers, FirstSteps

LEMMA StepsOfEnteredStage ==
    ASSUME NEW s \in Stages, pc' = FirstStep[s], stage' = s
    PROVE  StepIsOfStage'
BY StageNumbers, FirstSteps DEF StepIsOfStage

\* Work inside a stage keeps the checkpoint, the queue entry and the provider; the
\* statuses change only when it fails.
Work == Prepare \/ Recognize \/ Translate \/ Review

LEMMA WorkStatuses ==
    ASSUME Work
    PROVE  /\ pc # "idle"
           /\ UNCHANGED <<stage, entry, world>>
           /\ Fail \/ UNCHANGED <<task, stages>>
BY FirstStepsOfStages
   DEF Work, Prepare, IngestSource, FallBackToYtDlp, ProbeSource, CutChunk, WritePlan, FailMediaStage,
       Recognize, LoadPlan, ReuseChunk, StartChild, AwaitChild, MergeChunks, WriteAggregate,
       PublishTranscript, FailAsr, Translate, VerifyTranscript, FailVerification, TranslateChunk,
       WriteDraft, ProofreadBatch, RetryRequest, WriteJson, WriteSrt, DiscardPublication,
       Review, ResolveScenes, ScoreCandidates, SkipHighlight, GenerateReport, FailReview, Fail

\* Work inside a stage goes on to another step of it, or fails.
LEMMA WorkKeepsSteps ==
    ASSUME StepInv, Work
    PROVE  StepInv'
<1>1. UNCHANGED <<stage, entry>> /\ pc # "idle"
  BY WorkStatuses
<1>3. StepIsOfStage'
  <2>1. CASE Prepare
    BY <1>1, <2>1, StageNumbers
       DEF StepInv, StepIsOfStage, Prepare, IngestSource, FallBackToYtDlp, ProbeSource, CutChunk,
           WritePlan, FailMediaStage, Fail, GoTo
  <2>2. CASE Recognize
    BY <1>1, <2>2, StageNumbers
       DEF StepInv, StepIsOfStage, Recognize, LoadPlan, ReuseChunk, StartChild, AwaitChild,
           MergeChunks, WriteAggregate, PublishTranscript, FailAsr, Fail, GoTo
  <2>3. CASE Translate
    BY <1>1, <2>3, StageNumbers
       DEF StepInv, StepIsOfStage, Translate, VerifyTranscript, FailVerification, TranslateChunk,
           WriteDraft, ProofreadBatch, RetryRequest, WriteJson, WriteSrt, DiscardPublication, Fail, GoTo
  <2>4. CASE Review
    BY <1>1, <2>4, StageNumbers
       DEF StepInv, StepIsOfStage, Review, ResolveScenes, ScoreCandidates, SkipHighlight,
           GenerateReport, FailReview, Fail, GoTo
  <2> QED
    BY <2>1, <2>2, <2>3, <2>4 DEF Work
<1>4. NothingRemembered'
  BY FirstStepsOfStages
     DEF Work, StepInv, NothingRemembered, AtFirstStep,
         Prepare, IngestSource, FallBackToYtDlp, ProbeSource, CutChunk, WritePlan, FailMediaStage,
         Recognize, LoadPlan, ReuseChunk, StartChild, AwaitChild, MergeChunks, WriteAggregate,
         PublishTranscript, FailAsr, Translate, VerifyTranscript, FailVerification, TranslateChunk,
         WriteDraft, ProofreadBatch, RetryRequest, WriteJson, WriteSrt, DiscardPublication,
         Review, ResolveScenes, ScoreCandidates, SkipHighlight, GenerateReport, FailReview,
         Fail, Forget, GoTo
<1> QED
  BY <1>1, <1>3, <1>4 DEF StepInv, WorkerHoldsEntry

LEMMA StepStep == TypeInv /\ StepInv /\ [Next]_vars => StepInv'
<1> SUFFICES ASSUME TypeInv, StepInv, [Next]_vars PROVE StepInv'
  OBVIOUS
<1>1. CASE Claim
  <2>1. stage \in Stages /\ UNCHANGED stage /\ pc' = FirstStep[stage]
    BY <1>1 DEF Claim, GoTo, TypeInv, TypeOK
  <2>2. StepIsOfStage'
    BY <2>1, StepsOfEnteredStage
  <2> QED
    BY <1>1, <2>2 DEF Claim, GoTo, StepInv, WorkerHoldsEntry, NothingRemembered, AtFirstStep
<1>2. CASE CommitCheckpoint
  <2>1. StepIsOfStage'
    <3>1. CASE stage = Report
      BY <1>2, <3>1 DEF CommitCheckpoint, StepIsOfStage
    <3>2. CASE stage # Report
      <4>1. stage + 1 \in Stages
        BY <3>2, StageNumbers DEF TypeInv, TypeOK
      <4>2. pc' = FirstStep[stage + 1] /\ stage' = stage + 1
        BY <1>2, <3>2 DEF CommitCheckpoint
      <4> QED
        BY <4>1, <4>2, StepsOfEnteredStage
    <3> QED
      BY <3>1, <3>2
  <2>2. entry' = "running"
    BY <1>2 DEF CommitCheckpoint, StepInv, WorkerHoldsEntry
  <2> QED
    BY <1>2, <2>1, <2>2 DEF CommitCheckpoint, Forget, StepInv, WorkerHoldsEntry, NothingRemembered
<1>3. CASE Release \/ Recover
  BY <1>3 DEF Release, Recover, GoTo, StepInv, StepIsOfStage, WorkerHoldsEntry, NothingRemembered,
              AtFirstStep
<1>4. CASE Crash
  BY <1>4 DEF Crash, Forget, StepInv, StepIsOfStage, WorkerHoldsEntry, NothingRemembered
<1>5. CASE \E c \in children : ChildStep(c)
  BY <1>5 DEF ChildStep, ChildFails, ChildTranscribes, ChildWritesOutputs, ChildSucceeds, StepInv,
              StepIsOfStage, WorkerHoldsEntry, NothingRemembered, AtFirstStep
<1>6. ASSUME NEW s \in Stages, Retry(s)
      PROVE  StepInv'
  <2>1. pc = "idle" /\ UNCHANGED <<pc, index, length, texts>>
    BY <1>6 DEF Retry, StepInv, WorkerHoldsEntry
  <2> QED
    BY <2>1 DEF StepInv, StepIsOfStage, WorkerHoldsEntry, NothingRemembered, AtFirstStep
<1>7. CASE (\E s \in Stages : RefusedRetry(s)) \/ ExportClip \/ EndExport \/ SourceChanges
  BY <1>7 DEF RefusedRetry, ExportClip, EndExport, SourceChanges, StepInv, StepIsOfStage,
              WorkerHoldsEntry, NothingRemembered, AtFirstStep
<1>8. CASE UNCHANGED vars
  BY <1>8 DEF vars, StepInv, StepIsOfStage, WorkerHoldsEntry, NothingRemembered, AtFirstStep
<1> QED
  BY <1>1, <1>2, <1>3, <1>4, <1>5, <1>6, <1>7, <1>8, WorkKeepsSteps
  DEF Next, WorkerStep, Work, User

LEMMA InitSteps == Init => StepInv
BY DEF Init, StepInv, StepIsOfStage, WorkerHoldsEntry, NothingRemembered

\* Chunks before the index are all chunks when the index has passed the last one.
LEMMA BeforeIndexIsAll ==
    ASSUME TypeInv, index \notin Chunks(length), NEW i \in Chunks(length)
    PROVE  i < index
<1>1. length \in Nat /\ index \in Nat \ {0}
  BY ChunksOfDurations DEF TypeInv, TypeOK
<1>2. i \in Nat \ {0} /\ i <= length /\ (i - 1) * ChunkLength < length
  BY DEF Chunks
<1>3. SUFFICES ASSUME index <= i PROVE FALSE
  BY <1>1, <1>2
<1>4. /\ (index - 1) * ChunkLength \in Nat /\ (i - 1) * ChunkLength \in Nat
      /\ (index - 1) * ChunkLength <= (i - 1) * ChunkLength
  <2>1. index - 1 \in Nat /\ i - 1 \in Nat /\ index - 1 <= i - 1
    BY <1>1, <1>2, <1>3
  <2> QED
    BY <2>1, Monotone
<1>5. index \in 1..length /\ (index - 1) * ChunkLength < length
  BY <1>1, <1>2, <1>3, <1>4
<1> QED
  BY <1>5 DEF Chunks

-----------------------------------------------------------------------------
(* Statuses *)

\* From the checkpoint on no stage has succeeded; the export stage has no work of
\* its own and the report ends the run.
Unfinished ==
    /\ \A q \in Stages \ {Export, Report} : stage <= q => stages[q] # "success"
    /\ stages[Report] = "success" =>
        stage = Report /\ pc \in {"idle", "release"} /\ entry # "queued"

\* A failed task has a failed stage, unless an export has covered it up.
FailureIsShown ==
    task = "failed" /\ RowOf[Export] \notin rows => \E s \in Stages : stages[s] = "failed"

StatusInv == Unfinished /\ FailureIsShown

\* The row of the export is never removed.
LEMMA ExportRowStays == [Next]_vars => (RowOf[Export] \in rows => RowOf[Export] \in rows')
<1> SUFFICES ASSUME [Next]_vars, RowOf[Export] \in rows PROVE RowOf[Export] \in rows'
  OBVIOUS
<1>1. RowOf[Export] = "clip_export" /\ Final # "clip_export" /\ Draft # "clip_export"
  BY StageNumbers, RowsOfStages DEF Final, Draft
<1>2. ASSUME NEW s \in Stages, Retry(s)
      PROVE  RowOf[Export] \in rows'
  BY <1>1, <1>2 DEF Retry, Reset
<1>3. CASE Work
  BY <1>1, <1>3
     DEF Work, Prepare, IngestSource, FallBackToYtDlp, ProbeSource, CutChunk, WritePlan, FailMediaStage,
         Recognize, LoadPlan, ReuseChunk, StartChild, AwaitChild, MergeChunks, WriteAggregate,
         PublishTranscript, FailAsr, Translate, VerifyTranscript, FailVerification, TranslateChunk,
         WriteDraft, ProofreadBatch, RetryRequest, WriteJson, WriteSrt, DiscardPublication,
         Review, ResolveScenes, ScoreCandidates, SkipHighlight, GenerateReport, FailReview, WithRow
<1>4. CASE Claim \/ CommitCheckpoint \/ Release \/ Recover \/ Crash
  BY <1>4 DEF Claim, CommitCheckpoint, RowsAfterStage, WithRow, Release, Recover, Crash
<1>5. CASE (\E s \in Stages : RefusedRetry(s)) \/ ExportClip \/ EndExport \/ SourceChanges
  BY <1>5 DEF RefusedRetry, ExportClip, EndExport, PersistExport, FailExport, WithRow, SourceChanges
<1>6. CASE (\E c \in children : ChildStep(c)) \/ UNCHANGED vars
  BY <1>6 DEF vars, ChildStep, ChildFails, ChildTranscribes, ChildWritesOutputs, ChildSucceeds
<1> QED
  BY <1>2, <1>3, <1>4, <1>5, <1>6 DEF Next, WorkerStep, Work, User

LEMMA InitStatuses == Init => StatusInv
BY StageNumbers DEF Init, StatusInv, Unfinished, FailureIsShown

LEMMA StatusStep == TypeInv /\ StepInv /\ StatusInv /\ [Next]_vars => StatusInv'
<1> SUFFICES ASSUME TypeInv, StepInv, StatusInv, [Next]_vars PROVE StatusInv'
  OBVIOUS
<1> USE StageNumbers
<1>t. stages \in [Stages -> StageStatus] /\ stage \in Stages
  BY DEF TypeInv, TypeOK
<1>s. StepIsOfStage /\ WorkerHoldsEntry
  BY DEF StepInv
<1>1. CASE Fail /\ UNCHANGED <<stage, entry>> /\ pc # "idle"
  <2>1. stages' = [stages EXCEPT ![stage] = "failed"] /\ pc' = "release"
    BY <1>1 DEF Fail
  <2>2. stages'[stage] = "failed"
    BY <1>t, <2>1
  <2>3. Unfinished'
    BY <1>1, <1>t, <1>s, <2>1 DEF StatusInv, Unfinished, WorkerHoldsEntry
  <2>4. FailureIsShown'
    BY <1>t, <2>2 DEF FailureIsShown
  <2> QED
    BY <2>3, <2>4 DEF StatusInv
<1>2. CASE Work
  <2>1. CASE UNCHANGED <<task, stages>>
    <3>1. UNCHANGED <<task, stages, stage, entry>> /\ pc # "idle"
      BY <1>2, <2>1, WorkStatuses
    <3>2. pc # "release"
      BY <1>2, FirstStepsOfStages
         DEF Work, Prepare, IngestSource, FallBackToYtDlp, ProbeSource, CutChunk, WritePlan,
             FailMediaStage, Recognize, LoadPlan, ReuseChunk, StartChild, AwaitChild, MergeChunks,
             WriteAggregate, PublishTranscript, FailAsr, Translate, VerifyTranscript, FailVerification,
             TranslateChunk, WriteDraft, ProofreadBatch, RetryRequest, WriteJson, WriteSrt,
             DiscardPublication, Review, ResolveScenes, ScoreCandidates, SkipHighlight, GenerateReport,
             FailReview
    <3> QED
      BY <3>1, <3>2, ExportRowStays DEF StatusInv, Unfinished, FailureIsShown
  <2> QED
    BY <1>1, <1>2, <2>1, WorkStatuses
<1>3. CASE Claim
  <2>1. stages' = [stages EXCEPT ![stage] = "running"] /\ task' = "running" /\ UNCHANGED stage
        /\ entry = "queued"
    BY <1>3 DEF Claim
  <2> QED
    BY <1>t, <2>1 DEF StatusInv, Unfinished, FailureIsShown
<1>4. CASE CommitCheckpoint
  <2>1. task' # "failed"
    BY <1>4 DEF CommitCheckpoint
  <2>2. CASE stage = Report
    <3>1. stage' = Report /\ pc' = "release" /\ entry' = "running"
      BY <1>4, <1>s, <2>2 DEF CommitCheckpoint, WorkerHoldsEntry
    <3>2. Unfinished'
      BY <3>1 DEF Unfinished
    <3> QED
      BY <2>1, <3>2 DEF StatusInv, FailureIsShown
  <2>3. CASE stage # Report
    <3>1. /\ stages' = [stages EXCEPT ![stage] = Outcome, ![stage + 1] = "running"]
          /\ stage' = stage + 1
      BY <1>4, <2>3 DEF CommitCheckpoint
    <3>2. pc \notin {"idle", "release"}
      BY <1>4 DEF CommitCheckpoint
    <3>3. Unfinished'
      BY <1>t, <2>3, <3>1, <3>2 DEF StatusInv, Unfinished
    <3> QED
      BY <2>1, <3>3 DEF StatusInv, FailureIsShown
  <2> QED
    BY <2>1, <2>2, <2>3 DEF StatusInv, FailureIsShown
<1>5. CASE Release
  BY <1>5, ExportRowStays DEF Release, GoTo, StatusInv, Unfinished, FailureIsShown
<1>6. CASE Crash
  BY <1>6 DEF Crash, StatusInv, Unfinished, FailureIsShown
<1>7. CASE Recover
  <2>1. stages' = [stages EXCEPT ![stage] = "failed"] /\ pc = "dead" /\ entry' = "finished"
        /\ UNCHANGED stage
    BY <1>7 DEF Recover
  <2> QED
    BY <1>t, <2>1 DEF StatusInv, Unfinished, FailureIsShown
<1>8. ASSUME NEW s \in Stages, Retry(s)
      PROVE  StatusInv'
  <2>1. stages' = [q \in Stages |-> IF q >= s THEN "pending" ELSE stages[q]]
        /\ stage' = s /\ task' = "pending"
    BY <1>8 DEF Retry, Reset
  <2> QED
    BY <1>t, <2>1 DEF StatusInv, Unfinished, FailureIsShown
<1>9. CASE EndExport
  <2>1. stages' = [stages EXCEPT ![Export] = stages'[Export]] /\ UNCHANGED <<stage, entry, pc>>
    BY <1>9, <1>t DEF EndExport, PersistExport, FailExport
  <2>2. Unfinished'
    BY <1>t, <2>1 DEF StatusInv, Unfinished
  <2>3. FailureIsShown'
    BY <1>9, <1>t, ExportRowStays
       DEF EndExport, PersistExport, FailExport, WithRow, StatusInv, FailureIsShown
  <2> QED
    BY <2>2, <2>3 DEF StatusInv
<1>10. CASE (\E s \in Stages : RefusedRetry(s)) \/ ExportClip \/ SourceChanges
  BY <1>10 DEF RefusedRetry, ExportClip, SourceChanges, StatusInv, Unfinished, FailureIsShown
<1>11. CASE (\E c \in children : ChildStep(c)) \/ UNCHANGED vars
  BY <1>11 DEF vars, ChildStep, ChildFails, ChildTranscribes, ChildWritesOutputs, ChildSucceeds,
               StatusInv, Unfinished, FailureIsShown
<1> QED
  BY <1>2, <1>3, <1>4, <1>5, <1>6, <1>7, <1>8, <1>9, <1>10, <1>11 DEF Next, WorkerStep, Work, User

\* A task counted as failed shows a failed stage, so the recovery panel offers its
\* first one and the filter for failed artifacts lists it, unless a clip export that
\* succeeded has overwritten the failed status.
THEOREM FailureIsRecoverable == Spec => []FailedTaskOffersRetry
<1>1. Spec => [](TypeInv /\ StepInv /\ StatusInv)
  BY InitTypes, InitSteps, InitStatuses, TypeStep, StepStep, StatusStep, PTL DEF Spec
<1>2. TypeInv /\ StatusInv => FailedTaskOffersRetry
  <2> SUFFICES ASSUME TypeInv, StatusInv, Bucket = "failed", RowOf[Export] \notin rows
               PROVE  RetryOffers # {} /\ Listed("failed")
    BY DEF FailedTaskOffersRetry
  <2>1. task = "failed"
    BY DEF Bucket, TypeInv, TypeOK, Terminal
  <2>2. \E s \in Stages : stages[s] = "failed"
    BY <2>1 DEF StatusInv, FailureIsShown
  <2>3. \E s \in FailedStages : \A q \in FailedStages : s <= q
    BY <2>2, StageNumbers DEF FailedStages
  <2>4. RetryOffers # {}
    BY <2>1, <2>3 DEF RetryOffers
  <2>5. Listed("failed")
    BY <2>2 DEF Listed
  <2> QED
    BY <2>4, <2>5
<1> QED
  BY <1>1, <1>2, PTL

-----------------------------------------------------------------------------
(* The row of the final subtitles *)

\* Work inside a stage adds other rows only.
LEMMA WorkAddsNoFinalRow ==
    ASSUME Work, Final \in rows'
    PROVE  Final \in rows
<1>1. RowOf[Asr] # Final /\ Draft # Final
  BY StageNumbers, FinalIsOfTranslation DEF Draft, Final
<1> QED
  BY <1>1
     DEF Work, Prepare, IngestSource, FallBackToYtDlp, ProbeSource, CutChunk, WritePlan, FailMediaStage,
         Recognize, LoadPlan, ReuseChunk, StartChild, AwaitChild, MergeChunks, WriteAggregate,
         PublishTranscript, FailAsr, Translate, VerifyTranscript, FailVerification, TranslateChunk,
         WriteDraft, ProofreadBatch, RetryRequest, WriteJson, WriteSrt, DiscardPublication,
         Review, ResolveScenes, ScoreCandidates, SkipHighlight, GenerateReport, FailReview, WithRow

LEMMA InitRow == Init => FinalRowMeansSuccess
BY DEF Init, FinalRowMeansSuccess

\* FinalRowMeansSuccess is inductive because the translation stage has not
\* succeeded while the checkpoint is not behind it.
LEMMA RowStep ==
    TypeInv /\ StepInv /\ StatusInv /\ FinalRowMeansSuccess /\ [Next]_vars => FinalRowMeansSuccess'
<1> SUFFICES ASSUME TypeInv, StepInv, StatusInv, FinalRowMeansSuccess, [Next]_vars, Final \in rows'
             PROVE  stages'[Translation] = "success"
  BY DEF FinalRowMeansSuccess
<1> USE StageNumbers
<1>t. stages \in [Stages -> StageStatus] /\ stage \in Stages
  BY DEF TypeInv, TypeOK
<1>u. stage <= Translation => stages[Translation] # "success"
  BY DEF StatusInv, Unfinished
<1>1. ASSUME Final \in rows, stages' = [stages EXCEPT ![stage] = stages'[stage]]
      PROVE  stages'[Translation] = "success"
  BY <1>1, <1>t, <1>u DEF FinalRowMeansSuccess
<1>2. CASE Work
  <2>1. Final \in rows
    BY <1>2, WorkAddsNoFinalRow
  <2>2. stages' = [stages EXCEPT ![stage] = stages'[stage]]
    BY <1>2, <1>t, WorkStatuses DEF Fail
  <2> QED
    BY <1>1, <2>1, <2>2
<1>3. CASE Claim \/ Recover
  <2>1. stages' = [stages EXCEPT ![stage] = stages'[stage]] /\ Final \in rows
    BY <1>3, <1>t DEF Claim, Recover
  <2> QED
    BY <1>1, <2>1
<1>4. CASE CommitCheckpoint
  <2>1. CASE Final \in rows
    <3>1. stage > Translation
      BY <1>t, <1>u, <2>1 DEF FinalRowMeansSuccess
    <3>2. stages'[Translation] = stages[Translation]
      BY <1>4, <1>t, <3>1 DEF CommitCheckpoint
    <3> QED
      BY <2>1, <3>2 DEF FinalRowMeansSuccess
  <2>2. CASE Final \notin rows
    <3>1. pc = "commit" /\ stage = Translation
      BY <1>4, <1>t, <2>2, FinalIsOfTranslation DEF CommitCheckpoint, RowsAfterStage, WithRow
    <3> QED
      BY <1>4, <1>t, <3>1 DEF CommitCheckpoint, Outcome
  <2> QED
    BY <2>1, <2>2
<1>5. ASSUME NEW s \in Stages, Retry(s)
      PROVE  stages'[Translation] = "success"
  <2>1. s > Translation /\ Final \in rows
    BY <1>5 DEF Retry, Reset
  <2> QED
    BY <1>5, <2>1 DEF Retry, Reset, FinalRowMeansSuccess
<1>6. CASE EndExport
  <2>1. stages'[Translation] = stages[Translation] /\ Final \in rows
    BY <1>6, <1>t, FinalIsOfTranslation DEF EndExport, PersistExport, FailExport, WithRow
  <2> QED
    BY <2>1 DEF FinalRowMeansSuccess
<1>7. CASE Release \/ Crash \/ (\E s \in Stages : RefusedRetry(s)) \/ ExportClip \/ SourceChanges
  BY <1>7 DEF Release, Crash, RefusedRetry, ExportClip, SourceChanges, FinalRowMeansSuccess
<1>8. CASE (\E c \in children : ChildStep(c)) \/ UNCHANGED vars
  BY <1>8 DEF vars, ChildStep, ChildFails, ChildTranscribes, ChildWritesOutputs, ChildSucceeds,
              FinalRowMeansSuccess
<1> QED
  BY <1>2, <1>3, <1>4, <1>5, <1>6, <1>7, <1>8 DEF Next, WorkerStep, Work, User

\* The database never announces final subtitles of a translation that has not
\* succeeded, over every failure, crash and retry.
THEOREM AnnouncedIsSuccessful == Spec => []FinalRowMeansSuccess
<1>1. Init => TypeInv /\ StepInv /\ StatusInv /\ FinalRowMeansSuccess
  BY InitTypes, InitSteps, InitStatuses, InitRow
<1> QED
  BY <1>1, TypeStep, StepStep, StatusStep, RowStep, PTL DEF Spec

-----------------------------------------------------------------------------
(* The final subtitles *)

\* What the translations of these captions are: each the one of its caption.
Translations(places) == [p \in places |-> [of |-> captions[p], by |-> provider]]

\* The captions whose chunk is translated already.
Translated == {p \in DOMAIN captions : \E i \in Chunks(length) : i < index /\ p \in Share(length, captions, i)}

\* What the worker holds while it translates and publishes.
TranslationMemory ==
    /\ pc \in {"translate", "proofread"} => captions = transcript
    /\ pc = "translate" => PartitionAccepts(length, captions) /\ texts = Translations(Translated)
    /\ pc = "proofread" => texts = Translations(DOMAIN captions)
    /\ pc = "srt" /\ json # None => json = Publication
    /\ pc = "commit" /\ stage = Translation /\ json # None => srt = json

\* No final subtitles are left when a run starts before translation.
GoneBeforeTranslation == stage < Translation => json = None

Published == FinalTextsTranslateTheirCaptions /\ CommittedPairAgrees /\ PublishedCaptionsAreTheTranscript

SubtitleInv == TranslationMemory /\ GoneBeforeTranslation /\ Published

\* Steps that touch neither the subtitles nor what they are made of.
LEMMA SubtitlesAreKept ==
    ASSUME SubtitleInv, UNCHANGED <<json, srt, transcript, stage>>,
           pc' \in {"translate", "proofread", "srt"} =>
               pc' = pc /\ UNCHANGED <<captions, texts, length, index, provider>>,
           pc' = "commit" /\ stage = Translation => pc = "commit",
           Final \in rows' => Final \in rows
    PROVE  SubtitleInv'
<1>1. ASSUME pc' \in {"translate", "proofread", "srt"}
      PROVE  TranslationMemory'
  <2>1. pc' = pc /\ UNCHANGED <<captions, texts, length, index, provider>>
    BY <1>1
  <2>2. UNCHANGED Translations(DOMAIN captions) /\ UNCHANGED Translations(Translated)
        /\ UNCHANGED Publication
    BY <2>1 DEF Translations, Translated, Publication
  <2> QED
    BY <1>1, <2>1, <2>2 DEF SubtitleInv, TranslationMemory
<1>2. ASSUME pc' \notin {"translate", "proofread", "srt"}
      PROVE  TranslationMemory'
  BY <1>2 DEF SubtitleInv, TranslationMemory
<1>3. TranslationMemory'
  BY <1>1, <1>2
<1> QED
  BY <1>3
  DEF SubtitleInv, GoneBeforeTranslation, Published, FinalTextsTranslateTheirCaptions,
      CommittedPairAgrees, PublishedCaptionsAreTheTranscript

\* All chunks are translated when the index has passed the last of them.
LEMMA AllTranslated ==
    ASSUME TypeInv, PartitionAccepts(length, captions), index \notin Chunks(length)
    PROVE  Translated = DOMAIN captions
<1>2. \A i \in Chunks(length) : i < index
  BY BeforeIndexIsAll
<1>3. ASSUME NEW p \in DOMAIN captions
      PROVE  p \in Translated
  <2>1. PICK i \in Chunks(length) : StartsIn(length, captions[p], i)
    BY DEF PartitionAccepts
  <2> QED
    BY <1>2, <2>1 DEF Translated, Share
<1> QED
  BY <1>3 DEF Translated

\* One chunk more.
LEMMA ChunkIsTranslated ==
    ASSUME TypeInv, TranslateChunk, texts = Translations(Translated)
    PROVE  texts' = Translations(Translated)'
<1> DEFINE chunk == IF CacheHit(index) THEN cache[index] ELSE TranslatedChunk(index)
           share == Share(length, captions, index)
<1>1. chunk.rows = SourceRows(index) /\ chunk.by = provider
  BY DEF CacheHit, TranslatedChunk
<1>2. DOMAIN chunk.rows = share /\ \A p \in share : chunk.rows[p] = captions[p]
  BY <1>1 DEF SourceRows, RowsOf
<1>3. texts' = [p \in DOMAIN texts \cup DOMAIN chunk.rows |->
                    IF p \in DOMAIN chunk.rows THEN [of |-> chunk.rows[p], by |-> chunk.by]
                    ELSE texts[p]]
  BY DEF TranslateChunk
<1> HIDE DEF chunk
<1>4. UNCHANGED <<captions, length, provider>> /\ index' = index + 1 /\ index \in Chunks(length)
  BY DEF TranslateChunk
<1>5. DOMAIN texts = Translated /\ \A p \in Translated : texts[p] = [of |-> captions[p], by |-> provider]
  BY DEF Translations
<1>6. texts' = [p \in Translated \cup share |-> [of |-> captions[p], by |-> provider]]
  BY <1>1, <1>2, <1>3, <1>5
<1>7. Translated' = Translated \cup share
  <2>1. index \in Nat
    BY DEF TypeInv, TypeOK
  <2>2. \A i \in Chunks(length) : i < index + 1 <=> i < index \/ i = index
    BY <2>1 DEF Chunks
  <2> QED
    BY <1>4, <2>2 DEF Translated, Share
<1> QED
  BY <1>4, <1>6, <1>7 DEF Translations

LEMMA InitSubtitles == Init => SubtitleInv
BY DEF Init, SubtitleInv, TranslationMemory, GoneBeforeTranslation, Published,
       FinalTextsTranslateTheirCaptions, CommittedPairAgrees, PublishedCaptionsAreTheTranscript

\* While the translation stage is at work, no row announces its subtitles.
LEMMA NotAnnounced ==
    ASSUME StatusInv, FinalRowMeansSuccess, stage = Translation
    PROVE  Final \notin rows
BY StageNumbers DEF StatusInv, Unfinished, FinalRowMeansSuccess

LEMMA TranslateKeepsSubtitles ==
    ASSUME TypeInv, StepInv, StatusInv, FinalRowMeansSuccess, SubtitleInv, Translate
    PROVE  SubtitleInv'
<1>s. stage = Translation /\ UNCHANGED <<stage, provider>> /\ Final \notin rows /\ Final \notin rows'
  <2>1. stage = Translation
    BY DEF Translate, VerifyTranscript, FailVerification, TranslateChunk, WriteDraft, ProofreadBatch,
           RetryRequest, WriteJson, WriteSrt, DiscardPublication, StepInv, StepIsOfStage
  <2> QED
    BY <2>1, NotAnnounced, WorkStatuses, WorkAddsNoFinalRow DEF Work
<1>1. CASE VerifyTranscript
  <2>1. captions' = transcript /\ length' = plan /\ PartitionAccepts(plan, transcript)
        /\ UNCHANGED <<index, texts, json, srt, transcript>> /\ pc' = "translate"
    BY <1>1 DEF VerifyTranscript
  <2>2. index = 1 /\ texts = Nothing
    BY <1>1, FirstStepsOfStages DEF VerifyTranscript, StepInv, NothingRemembered, AtFirstStep
  <2>3. Translated' = {}
    BY <2>1, <2>2 DEF Translated, Chunks
  <2>4. texts' = Translations(Translated)'
    BY <2>1, <2>2, <2>3 DEF Translations, Nothing
  <2>5. TranslationMemory'
    BY <2>1, <2>4 DEF TranslationMemory
  <2> QED
    BY <1>s, <2>1, <2>5
    DEF SubtitleInv, GoneBeforeTranslation, Published, FinalTextsTranslateTheirCaptions,
        CommittedPairAgrees, PublishedCaptionsAreTheTranscript
<1>2. CASE TranslateChunk
  <2>1. texts' = Translations(Translated)' /\ PartitionAccepts(length, captions) /\ captions = transcript
    BY <1>2, ChunkIsTranslated DEF TranslateChunk, SubtitleInv, TranslationMemory
  <2>2. UNCHANGED <<captions, length, transcript, json, srt, pc>> /\ pc = "translate"
    BY <1>2 DEF TranslateChunk
  <2>3. TranslationMemory'
    BY <2>1, <2>2 DEF TranslationMemory
  <2> QED
    BY <1>s, <2>2, <2>3
    DEF SubtitleInv, GoneBeforeTranslation, Published, FinalTextsTranslateTheirCaptions,
        CommittedPairAgrees, PublishedCaptionsAreTheTranscript
<1>3. CASE WriteDraft
  <2>1. texts = Translations(DOMAIN captions) /\ captions = transcript
    BY <1>3, AllTranslated DEF WriteDraft, SubtitleInv, TranslationMemory
  <2>2. UNCHANGED <<captions, texts, transcript, json, srt>> /\ pc' = "proofread"
    BY <1>3 DEF WriteDraft
  <2>3. TranslationMemory'
    BY <1>s, <2>1, <2>2 DEF TranslationMemory, Translations
  <2> QED
    BY <1>s, <2>2, <2>3
    DEF SubtitleInv, GoneBeforeTranslation, Published, FinalTextsTranslateTheirCaptions,
        CommittedPairAgrees, PublishedCaptionsAreTheTranscript
<1>4. CASE ProofreadBatch \/ RetryRequest
  <2>1. UNCHANGED <<captions, texts, transcript, json, srt, pc>> /\ pc = "proofread"
    BY <1>4 DEF ProofreadBatch, RetryRequest
  <2>2. TranslationMemory'
    BY <1>s, <2>1 DEF SubtitleInv, TranslationMemory, Translations
  <2> QED
    BY <1>s, <2>1, <2>2
    DEF SubtitleInv, GoneBeforeTranslation, Published, FinalTextsTranslateTheirCaptions,
        CommittedPairAgrees, PublishedCaptionsAreTheTranscript
<1>5. CASE WriteJson
  <2>1. texts = Translations(DOMAIN captions) /\ captions = transcript
    BY <1>5 DEF WriteJson, SubtitleInv, TranslationMemory
  <2>2. json' = Publication /\ pc' = "srt" /\ UNCHANGED <<captions, texts, transcript, srt>>
    BY <1>5 DEF WriteJson, GoTo
  <2>3. /\ json'.captions = captions /\ json'.texts = texts /\ json'.by = provider
    BY <2>2 DEF Publication
  <2>4. TranslationMemory'
    BY <1>s, <2>2 DEF TranslationMemory, Publication
  <2>5. json'.texts = [p \in DOMAIN json'.captions |-> [of |-> json'.captions[p], by |-> json'.by]]
    BY <2>1, <2>3 DEF Translations
  <2>6. Published'
    BY <1>s, <2>1, <2>2, <2>3, <2>5
    DEF Published, FinalTextsTranslateTheirCaptions, CommittedPairAgrees,
        PublishedCaptionsAreTheTranscript
  <2> QED
    BY <1>s, <2>4, <2>6, StageNumbers DEF SubtitleInv, GoneBeforeTranslation
<1>6. CASE WriteSrt
  <2>1. json # None => json = Publication
    BY <1>6 DEF WriteSrt, SubtitleInv, TranslationMemory
  <2>2. srt' = Publication /\ pc' = "commit" /\ UNCHANGED <<captions, texts, transcript, json>>
    BY <1>6 DEF WriteSrt, GoTo
  <2>3. TranslationMemory'
    BY <2>1, <2>2 DEF TranslationMemory
  <2> QED
    BY <1>s, <2>2, <2>3
    DEF SubtitleInv, GoneBeforeTranslation, Published, FinalTextsTranslateTheirCaptions,
        CommittedPairAgrees, PublishedCaptionsAreTheTranscript
<1>7. CASE DiscardPublication
  <2>1. json' = None /\ pc' = "release"
    BY <1>7 DEF DiscardPublication, Fail
  <2> QED
    BY <2>1
    DEF SubtitleInv, TranslationMemory, GoneBeforeTranslation, Published,
        FinalTextsTranslateTheirCaptions, CommittedPairAgrees, PublishedCaptionsAreTheTranscript
<1>8. CASE FailVerification
  <2>1. pc' = "release" /\ UNCHANGED <<json, srt, transcript>>
    BY <1>8 DEF FailVerification, Fail
  <2> QED
    BY <1>s, <2>1, SubtitlesAreKept
<1> QED
  BY <1>1, <1>2, <1>3, <1>4, <1>5, <1>6, <1>7, <1>8 DEF Translate

\* Only the merge rewrites the transcript, and when it does there are no subtitles.
LEMMA OtherWorkKeepsSubtitles ==
    ASSUME TypeInv, StepInv, SubtitleInv, Prepare \/ Recognize \/ Review
    PROVE  SubtitleInv'
<1>s. UNCHANGED <<stage, provider>> /\ (Final \in rows' => Final \in rows)
  BY WorkStatuses, WorkAddsNoFinalRow DEF Work
<1>1. CASE Prepare
  <2>1. stage # Translation /\ pc' \notin {"translate", "proofread", "srt"}
        /\ UNCHANGED <<json, srt, transcript>>
    BY <1>1, StageNumbers
    DEF Prepare, IngestSource, FallBackToYtDlp, ProbeSource, CutChunk, WritePlan, FailMediaStage,
        Fail, GoTo, StepInv, StepIsOfStage
  <2> QED
    BY <1>s, <2>1, SubtitlesAreKept
<1>2. CASE Recognize
  <2>1. stage = Asr /\ pc' \notin {"translate", "proofread", "srt"} /\ UNCHANGED <<json, srt>>
    BY <1>2
    DEF Recognize, LoadPlan, ReuseChunk, StartChild, AwaitChild, MergeChunks, WriteAggregate,
        PublishTranscript, FailAsr, Fail, GoTo, StepInv, StepIsOfStage
  <2>2. json = None /\ json' = None /\ stage # Translation
    BY <2>1, StageNumbers DEF SubtitleInv, GoneBeforeTranslation
  <2> QED
    BY <1>s, <2>1, <2>2
    DEF SubtitleInv, TranslationMemory, GoneBeforeTranslation, Published,
        FinalTextsTranslateTheirCaptions, CommittedPairAgrees, PublishedCaptionsAreTheTranscript
<1>3. CASE Review
  <2>1. stage # Translation /\ pc' \notin {"translate", "proofread", "srt"}
        /\ UNCHANGED <<json, srt, transcript>>
    BY <1>3, StageNumbers
    DEF Review, ResolveScenes, ScoreCandidates, SkipHighlight, GenerateReport, FailReview,
        Fail, GoTo, StepInv, StepIsOfStage
  <2> QED
    BY <1>s, <2>1, SubtitlesAreKept
<1> QED
  BY <1>1, <1>2, <1>3

LEMMA SubtitleStep ==
    TypeInv /\ StepInv /\ StatusInv /\ FinalRowMeansSuccess /\ SubtitleInv /\ [Next]_vars
        => SubtitleInv'
<1> SUFFICES ASSUME TypeInv, StepInv, StatusInv, FinalRowMeansSuccess, SubtitleInv, [Next]_vars
             PROVE  SubtitleInv'
  OBVIOUS
<1>t. stage \in Stages
  BY DEF TypeInv, TypeOK
<1>f. \A s \in Stages : FirstStep[s] \notin {"translate", "proofread", "srt", "commit"}
  BY StageNumbers, FirstSteps
<1>1. CASE Claim
  <2>1. pc' \notin {"translate", "proofread", "srt", "commit"} /\ UNCHANGED <<json, srt, transcript, stage, rows>>
    BY <1>1, <1>t, <1>f DEF Claim, GoTo
  <2> QED
    BY <2>1, SubtitlesAreKept
<1>2. CASE CommitCheckpoint
  <2>1. UNCHANGED <<json, srt, transcript>> /\ stage' >= stage /\ stage \in Int /\ stage' \in Int
    BY <1>2, <1>t, StageNumbers DEF CommitCheckpoint
  <2>2. pc' \notin {"translate", "proofread", "srt", "commit"}
    BY <1>2, <1>t, <1>f, StageNumbers DEF CommitCheckpoint
  <2>3. TranslationMemory'
    BY <2>2 DEF TranslationMemory
  <2>4. GoneBeforeTranslation'
    BY <2>1, StageNumbers DEF SubtitleInv, GoneBeforeTranslation
  <2>5. Final \in rows' /\ Final \notin rows => pc = "commit" /\ stage = Translation
    BY <1>2, <1>t, FinalIsOfTranslation DEF CommitCheckpoint, RowsAfterStage, WithRow
  <2>6. CommittedPairAgrees'
    BY <2>1, <2>5 DEF SubtitleInv, TranslationMemory, Published, CommittedPairAgrees
  <2> QED
    BY <2>1, <2>3, <2>4, <2>6
    DEF SubtitleInv, Published, FinalTextsTranslateTheirCaptions, PublishedCaptionsAreTheTranscript
<1>3. CASE Release \/ Recover \/ Crash
  <2>1. pc' \in {"idle", "dead"} /\ UNCHANGED <<json, srt, transcript, stage, rows>>
    BY <1>3 DEF Release, Recover, Crash, GoTo
  <2> QED
    BY <2>1, SubtitlesAreKept
<1>4. ASSUME NEW s \in Stages, Retry(s)
      PROVE  SubtitleInv'
  <2>1. pc' = "idle" /\ stage' = s /\ UNCHANGED transcript
    BY <1>4 DEF Retry, StepInv, WorkerHoldsEntry
  <2>2. CASE s <= Translation
    <3>1. json' = None
      BY <1>4, <2>2 DEF Retry, Unlink
    <3> QED
      BY <2>1, <3>1
      DEF SubtitleInv, TranslationMemory, GoneBeforeTranslation, Published,
          FinalTextsTranslateTheirCaptions, CommittedPairAgrees, PublishedCaptionsAreTheTranscript
  <2>3. CASE ~(s <= Translation)
    <3>1. UNCHANGED <<json, srt, rows>> /\ ~(stage' < Translation)
      BY <1>4, <2>1, <2>3, StageNumbers DEF Retry, Unlink, Reset
    <3> QED
      BY <2>1, <3>1
      DEF SubtitleInv, TranslationMemory, GoneBeforeTranslation, Published,
          FinalTextsTranslateTheirCaptions, CommittedPairAgrees, PublishedCaptionsAreTheTranscript
  <2> QED
    BY <2>2, <2>3
<1>5. ASSUME NEW s \in Stages, RefusedRetry(s)
      PROVE  SubtitleInv'
  <2>1. UNCHANGED <<transcript, captions, texts, length, index, provider, stage, pc, rows>>
    BY <1>5 DEF RefusedRetry
  <2>2. json' = None \/ UNCHANGED <<json, srt>>
    BY <1>5 DEF RefusedRetry, Unlink
  <2> QED
    BY <2>1, <2>2, SubtitlesAreKept
    DEF SubtitleInv, TranslationMemory, GoneBeforeTranslation, Published, Translations, Translated,
        FinalTextsTranslateTheirCaptions, CommittedPairAgrees, PublishedCaptionsAreTheTranscript
<1>6. CASE ExportClip \/ EndExport \/ SourceChanges
  <2>1. UNCHANGED <<json, srt, transcript, captions, texts, length, index, provider, stage, pc>>
    BY <1>6 DEF ExportClip, EndExport, SourceChanges
  <2>2. Final \in rows' => Final \in rows
    BY <1>6, StageNumbers, FinalIsOfTranslation
    DEF ExportClip, EndExport, PersistExport, FailExport, WithRow, SourceChanges
  <2> QED
    BY <2>1, <2>2, SubtitlesAreKept
<1>7. CASE (\E c \in children : ChildStep(c)) \/ UNCHANGED vars
  <2>1. UNCHANGED <<json, srt, transcript, captions, texts, length, index, provider, stage, pc, rows>>
    BY <1>7 DEF vars, ChildStep, ChildFails, ChildTranscribes, ChildWritesOutputs, ChildSucceeds
  <2> QED
    BY <2>1, SubtitlesAreKept
<1> QED
  BY <1>1, <1>2, <1>3, <1>4, <1>5, <1>6, <1>7, TranslateKeepsSubtitles, OtherWorkKeepsSubtitles
  DEF Next, WorkerStep, User

SubtitleFacts == TypeInv /\ StepInv /\ StatusInv /\ FinalRowMeansSuccess /\ SubtitleInv

LEMMA SubtitlesInvariant == Spec => []SubtitleFacts
<1>1. Init => SubtitleFacts
  BY InitTypes, InitSteps, InitStatuses, InitRow, InitSubtitles DEF SubtitleFacts
<1>2. SubtitleFacts /\ [Next]_vars => SubtitleFacts'
  BY TypeStep, StepStep, StatusStep, RowStep, SubtitleStep DEF SubtitleFacts
<1> QED
  BY <1>1, <1>2, PTL DEF Spec

\* Every line of the final subtitles is the translation of its own caption, whatever
\* was cached, retried, changed or recognised again before.
THEOREM TextsBelongToTheirCaptions == Spec => []FinalTextsTranslateTheirCaptions
<1>1. SubtitleFacts => FinalTextsTranslateTheirCaptions
  BY DEF SubtitleFacts, SubtitleInv, Published
<1> QED
  BY <1>1, SubtitlesInvariant, PTL

\* A row for the final subtitles never stands for half of a pair.
THEOREM CommittedPairsAgree == Spec => []CommittedPairAgrees
<1>1. SubtitleFacts => CommittedPairAgrees
  BY DEF SubtitleFacts, SubtitleInv, Published
<1> QED
  BY <1>1, SubtitlesInvariant, PTL

\* Subtitles on disk are never those of an earlier transcript.
THEOREM SubtitlesAreOfTheTranscript == Spec => []PublishedCaptionsAreTheTranscript
<1>1. SubtitleFacts => PublishedCaptionsAreTheTranscript
  BY DEF SubtitleFacts, SubtitleInv, Published
<1> QED
  BY <1>1, SubtitlesInvariant, PTL

\* Announced subtitles lose their files to a refused retry only: a failing translation
\* takes back its row with its files, and so does a retry that is accepted.
THEOREM UnpublishingIsRefusal == Spec => OnlyARefusedRetryUnpublishes
<1>1. SubtitleFacts /\ [Next]_vars => (Final \in rows' /\ json # None /\ json' = None => entry = "running")
  <2> SUFFICES ASSUME SubtitleFacts, [Next]_vars, Final \in rows', json # None, json' = None
               PROVE  entry = "running"
    OBVIOUS
  <2>1. pc # "idle" => entry = "running"
    BY DEF SubtitleFacts, StepInv, WorkerHoldsEntry
  <2>2. ASSUME NEW s \in Stages, Retry(s)
        PROVE  FALSE
    BY <2>2 DEF Retry, Unlink, Reset
  <2>3. CASE Work
    BY <2>1, <2>3, WorkStatuses
  <2>4. CASE Claim \/ CommitCheckpoint \/ Release \/ Recover \/ Crash
    BY <2>4 DEF Claim, CommitCheckpoint, Release, Recover, Crash
  <2>5. CASE (\E s \in Stages : RefusedRetry(s)) \/ ExportClip \/ EndExport \/ SourceChanges
    BY <2>5 DEF RefusedRetry, ExportClip, EndExport, SourceChanges
  <2>6. CASE (\E c \in children : ChildStep(c)) \/ UNCHANGED vars
    BY <2>6 DEF vars, ChildStep, ChildFails, ChildTranscribes, ChildWritesOutputs, ChildSucceeds
  <2> QED
    BY <2>2, <2>3, <2>4, <2>5, <2>6 DEF Next, WorkerStep, Work, User
<1>2. SubtitleFacts /\ [Next]_vars => [(Final \in rows' /\ json # None /\ json' = None) => entry = "running"]_vars
  BY <1>1
<1> QED
  BY <1>2, SubtitlesInvariant, PTL DEF Spec, OnlyARefusedRetryUnpublishes

-----------------------------------------------------------------------------
(* Media preparation *)

\* The WAV of chunk i has the length that a plan for duration d asks for.
AudioFits(d, i) == wav[i] # None /\ ChunkSpan(Duration[wav[i]], i) = ChunkSpan(d, i)

IsPrepared == plan = Duration[raw] /\ \A i \in Chunks(plan) : AudioFits(plan, i)

\* While chunks are cut, those before the index fit the source.
PreparationInv ==
    /\ pc = "cut" =>
        /\ raw \in Recordings /\ length = Duration[raw]
        /\ \A i \in Chunks(length) : i < index => AudioFits(length, i)
    /\ pc = "commit" /\ stage = MediaPrep => IsPrepared
    /\ PreparedAudioFitsThePlan

LEMMA PreparedByDefinition == PreparedAudioFitsThePlan <=> (stages[MediaPrep] = "success" => IsPrepared)
BY DEF PreparedAudioFitsThePlan, IsPrepared, AudioFits

\* Steps outside of media preparation.
LEMMA PreparationIsKept ==
    ASSUME PreparationInv, UNCHANGED media,
           pc' # "cut" \/ (pc = "cut" /\ UNCHANGED <<length, index>>),
           pc' = "commit" /\ stage' = MediaPrep => pc = "commit" /\ stage = MediaPrep,
           stages'[MediaPrep] = "success" => stages[MediaPrep] = "success"
    PROVE  PreparationInv'
BY PreparedByDefinition DEF PreparationInv, IsPrepared, AudioFits, PreparedAudioFitsThePlan

LEMMA InitPreparation == Init => PreparationInv
BY StageNumbers DEF Init, PreparationInv, PreparedAudioFitsThePlan

LEMMA PreparationStep ==
    TypeInv /\ StepInv /\ StatusInv /\ PreparationInv /\ [Next]_vars => PreparationInv'
<1> SUFFICES ASSUME TypeInv, StepInv, StatusInv, PreparationInv, [Next]_vars PROVE PreparationInv'
  OBVIOUS
<1> USE StageNumbers
<1>t. stages \in [Stages -> StageStatus] /\ stage \in Stages
  BY DEF TypeInv, TypeOK
<1>u. stage <= MediaPrep => stages[MediaPrep] # "success"
  BY DEF StatusInv, Unfinished
<1>1. CASE Prepare
  <2>1. stage <= MediaPrep /\ UNCHANGED stage
    BY <1>1, WorkStatuses
    DEF Work, Prepare, IngestSource, FallBackToYtDlp, ProbeSource, CutChunk, WritePlan, FailMediaStage,
        StepInv, StepIsOfStage
  <2>2. stages'[MediaPrep] # "success"
    BY <1>1, <1>t, <1>u, <2>1, WorkStatuses DEF Work, Fail
  <2>3. PreparedAudioFitsThePlan'
    BY <2>2 DEF PreparedAudioFitsThePlan
  <2>4. CASE IngestSource \/ FallBackToYtDlp \/ FailMediaStage
    <3>1. pc' # "cut" /\ ~(pc' = "commit" /\ stage' = MediaPrep)
      BY <2>4, <2>1 DEF IngestSource, FallBackToYtDlp, FailMediaStage, Fail, GoTo, StepInv, StepIsOfStage
    <3> QED
      BY <2>3, <3>1 DEF PreparationInv
  <2>5. CASE ProbeSource
    <3>1. pc' = "cut" /\ length' = Duration[raw] /\ UNCHANGED <<raw, index>> /\ raw \in Recordings
      BY <2>5 DEF ProbeSource, TypeInv, TypeOK
    <3>2. index = 1
      BY <2>5, FirstStepsOfStages DEF ProbeSource, StepInv, NothingRemembered, AtFirstStep
    <3>3. \A i \in Chunks(length') : ~(i < index')
      BY <3>1, <3>2 DEF Chunks
    <3> QED
      BY <2>3, <3>1, <3>3 DEF PreparationInv
  <2>6. CASE CutChunk
    <3>1. /\ UNCHANGED <<pc, raw, plan, length>> /\ index' = index + 1 /\ pc = "cut"
          /\ index \in Chunks(length) /\ raw \in Recordings /\ length = Duration[raw]
          /\ \A i \in Chunks(length) : i < index => AudioFits(length, i)
      BY <2>6 DEF CutChunk, PreparationInv
    <3>2. index \in AllChunks /\ Chunks(length) \subseteq AllChunks /\ wav \in [AllChunks -> Recordings \cup {None}]
      BY <3>1, ChunksOfDurations DEF TypeInv, TypeOK
    <3> DEFINE Fits(i) == wav'[i] # None /\ ChunkSpan(Duration[wav'[i]], i) = ChunkSpan(length, i)
    <3>3. Fits(index)
      <4>1. CASE HasValidChunkAudio(index)
        BY <2>6, <3>1, <4>1 DEF CutChunk, HasValidChunkAudio, AudioFits
      <4>2. CASE ~HasValidChunkAudio(index)
        <5>1. wav'[index] = raw
          BY <2>6, <3>2, <4>2 DEF CutChunk
        <5>2. raw # None
          BY <3>1, UnsetAssumption
        <5> QED
          BY <3>1, <5>1, <5>2 DEF AudioFits
      <4> QED
        BY <4>1, <4>2
    <3>4. ASSUME NEW i \in Chunks(length), i < index
          PROVE  Fits(i)
      <4>1. i \in Nat /\ index \in Nat /\ i # index
        BY <3>1, <3>4 DEF Chunks
      <4>2. wav'[i] = wav[i]
        BY <2>6, <3>2, <3>4, <4>1 DEF CutChunk
      <4> QED
        BY <3>1, <3>4, <4>2 DEF AudioFits
    <3>5. \A i \in Chunks(length) : i < index + 1 => i < index \/ i = index
      BY <3>1 DEF Chunks
    <3>6. \A i \in Chunks(length) : i < index' => Fits(i)
      BY <3>1, <3>3, <3>4, <3>5
    <3> QED
      BY <2>3, <3>1, <3>6 DEF PreparationInv, AudioFits
  <2>7. CASE WritePlan
    <3>1. /\ pc = "cut" /\ pc' = "commit" /\ UNCHANGED <<raw, wav>> /\ plan' = length
          /\ index \notin Chunks(length)
      BY <2>7 DEF WritePlan, GoTo
    <3>2. \A i \in Chunks(length) : AudioFits(length, i)
      BY <3>1, BeforeIndexIsAll DEF PreparationInv
    <3>3. IsPrepared'
      BY <3>1, <3>2 DEF PreparationInv, IsPrepared, AudioFits
    <3> QED
      BY <2>3, <3>1, <3>3 DEF PreparationInv
  <2> QED
    BY <1>1, <2>4, <2>5, <2>6, <2>7 DEF Prepare
<1>2. CASE Recognize \/ Translate \/ Review
  <2>1. UNCHANGED media /\ pc' # "cut"
    BY <1>2
    DEF Recognize, LoadPlan, ReuseChunk, StartChild, AwaitChild, MergeChunks, WriteAggregate,
        PublishTranscript, FailAsr, Translate, VerifyTranscript, FailVerification, TranslateChunk,
        WriteDraft, ProofreadBatch, RetryRequest, WriteJson, WriteSrt, DiscardPublication,
        Review, ResolveScenes, ScoreCandidates, SkipHighlight, GenerateReport, FailReview, Fail, GoTo
  <2>2. stage' = stage /\ stage # MediaPrep
    <3>1. stage' = stage
      BY <1>2, WorkStatuses DEF Work
    <3>2. pc \in {"load", "chunk", "child", "aggregate", "publish", "verify", "translate", "proofread",
                  "srt", "highlight", "score", "report"} \/ (pc = "commit" /\ stage = Translation)
      BY <1>2
      DEF Recognize, LoadPlan, ReuseChunk, StartChild, AwaitChild, MergeChunks, WriteAggregate,
          PublishTranscript, FailAsr, Translate, VerifyTranscript, FailVerification, TranslateChunk,
          WriteDraft, ProofreadBatch, RetryRequest, WriteJson, WriteSrt, DiscardPublication,
          Review, ResolveScenes, ScoreCandidates, SkipHighlight, GenerateReport, FailReview
    <3> QED
      BY <3>1, <3>2 DEF StepInv, StepIsOfStage
  <2>3. stages'[MediaPrep] = "success" => stages[MediaPrep] = "success"
    BY <1>2, <1>t, WorkStatuses DEF Work, Fail
  <2> QED
    BY <2>1, <2>2, <2>3, PreparationIsKept
<1>3. CASE Claim \/ Release \/ Recover \/ Crash
  <2>1. UNCHANGED <<media, stage>>
    BY <1>3 DEF Claim, Release, Recover, Crash
  <2>2. pc' \in {"idle", "dead"} \cup {FirstStep[s] : s \in Stages}
    BY <1>3, <1>t DEF Claim, Release, Recover, Crash, GoTo
  <2>3. stages'[MediaPrep] = "success" => stages[MediaPrep] = "success"
    BY <1>3, <1>t DEF Claim, Release, Recover, Crash
  <2> QED
    BY <2>1, <2>2, <2>3, FirstStepsOfStages, PreparationIsKept
<1>4. CASE CommitCheckpoint
  <2>1. pc' # "cut" /\ pc' # "commit" /\ UNCHANGED media
    BY <1>4, <1>t, FirstSteps DEF CommitCheckpoint
  <2>2. stages'[MediaPrep] = "success" => IsPrepared
    <3>1. CASE stage = MediaPrep
      BY <1>4, <1>t, <3>1 DEF CommitCheckpoint, Outcome, PreparationInv, StepInv, StepIsOfStage
    <3>2. CASE stage # MediaPrep
      <4>1. stages'[MediaPrep] = "success" => stages[MediaPrep] = "success"
        BY <1>4, <1>t, <3>2 DEF CommitCheckpoint
      <4> QED
        BY <4>1, PreparedByDefinition DEF PreparationInv
    <3> QED
      BY <3>1, <3>2
  <2>3. PreparedAudioFitsThePlan'
    BY <2>1, <2>2 DEF PreparedAudioFitsThePlan, IsPrepared, AudioFits
  <2> QED
    BY <2>1, <2>3 DEF PreparationInv
<1>5. ASSUME NEW s \in Stages, Retry(s)
      PROVE  PreparationInv'
  <2>1. pc' = "idle" /\ UNCHANGED media
    BY <1>5 DEF Retry, StepInv, WorkerHoldsEntry
  <2>2. stages'[MediaPrep] = "success" => stages[MediaPrep] = "success"
    BY <1>5 DEF Retry, Reset
  <2> QED
    BY <2>1, <2>2, PreparationIsKept
<1>6. CASE (\E s \in Stages : RefusedRetry(s)) \/ ExportClip \/ EndExport \/ SourceChanges
  <2>1. UNCHANGED <<media, pc, stage, length, index>>
    BY <1>6 DEF RefusedRetry, ExportClip, EndExport, SourceChanges
  <2>2. stages'[MediaPrep] = stages[MediaPrep]
    BY <1>6, <1>t DEF RefusedRetry, ExportClip, EndExport, PersistExport, FailExport, SourceChanges
  <2> QED
    BY <2>1, <2>2, PreparationIsKept
<1>7. CASE (\E c \in children : ChildStep(c)) \/ UNCHANGED vars
  <2>1. UNCHANGED <<media, pc, stage, stages, length, index>>
    BY <1>7 DEF vars, ChildStep, ChildFails, ChildTranscribes, ChildWritesOutputs, ChildSucceeds
  <2> QED
    BY <2>1, PreparationIsKept
<1> QED
  BY <1>1, <1>2, <1>3, <1>4, <1>5, <1>6, <1>7 DEF Next, WorkerStep, User

\* After media preparation every chunk of the source at hand has a WAV of its length.
THEOREM PreparationIsCurrent == Spec => []PreparedAudioFitsThePlan
<1>1. Init => TypeInv /\ StepInv /\ StatusInv /\ PreparationInv
  BY InitTypes, InitSteps, InitStatuses, InitPreparation
<1>2. PreparationInv => PreparedAudioFitsThePlan
  BY DEF PreparationInv
<1> QED
  BY <1>1, <1>2, TypeStep, StepStep, StatusStep, PreparationStep, PTL DEF Spec

-----------------------------------------------------------------------------
(* Candidates and the report *)

\* What the highlight stage holds and the report has written before their commit.
ReviewInv ==
    /\ pc = "score" \/ (pc = "commit" /\ stage = Highlight) => captions = transcript
    /\ pc = "commit" /\ stage = Report => report = candidates
    /\ CandidatesAreOfTheTranscript

\* Steps outside of the two stages.
LEMMA ReviewIsKept ==
    ASSUME ReviewInv, UNCHANGED <<transcript, candidates, report>>,
           pc' # "score",
           pc' = "commit" /\ stage' \in {Highlight, Report} => UNCHANGED <<pc, stage, captions>>,
           \A s \in {Highlight, Report} : stages'[s] = "success" => stages[s] = "success"
    PROVE  ReviewInv'
BY DEF ReviewInv, CandidatesAreOfTheTranscript

LEMMA InitReview == Init => ReviewInv
BY StageNumbers DEF Init, ReviewInv, CandidatesAreOfTheTranscript

LEMMA ReviewStep == SubtitleFacts /\ ReviewInv /\ [Next]_vars => ReviewInv'
<1> SUFFICES ASSUME SubtitleFacts, ReviewInv, [Next]_vars PROVE ReviewInv'
  OBVIOUS
<1> USE StageNumbers
<1>t. stages \in [Stages -> StageStatus] /\ stage \in Stages
  BY DEF SubtitleFacts, TypeInv, TypeOK
<1>u. /\ stage <= Highlight => stages[Highlight] # "success"
      /\ pc \notin {"idle", "release"} => stages[Report] # "success"
  BY DEF SubtitleFacts, StatusInv, Unfinished
<1>s. StepIsOfStage
  BY DEF SubtitleFacts, StepInv
<1>1. CASE Review
  <2>1. UNCHANGED <<stage, transcript>> /\ pc \notin {"idle", "release"}
        /\ (Fail \/ UNCHANGED stages)
    BY <1>1, WorkStatuses
    DEF Work, Review, ResolveScenes, ScoreCandidates, SkipHighlight, GenerateReport, FailReview
  <2>2. stages'[Report] # "success" /\ (stages'[Highlight] = "success" => stages[Highlight] = "success")
    BY <1>t, <1>u, <2>1 DEF Fail
  <2>3. UNCHANGED candidates => CandidatesAreOfTheTranscript'
    BY <2>1, <2>2 DEF ReviewInv, CandidatesAreOfTheTranscript
  <2>4. CASE ResolveScenes
    <3>1. captions' = HighlightSource /\ pc' = "score"
      BY <2>4 DEF ResolveScenes
    <3>2. HighlightSource = transcript
      BY DEF HighlightSource, SubtitleFacts, SubtitleInv, Published, PublishedCaptionsAreTheTranscript
    <3> QED
      BY <2>1, <2>3, <2>4, <3>1, <3>2 DEF ResolveScenes, ReviewInv
  <2>5. CASE ScoreCandidates
    BY <1>s, <2>1, <2>3, <2>5 DEF ScoreCandidates, ReviewInv, StepIsOfStage
  <2>6. CASE SkipHighlight
    BY <2>3, <2>6 DEF SkipHighlight, GoTo, ReviewInv
  <2>7. CASE GenerateReport
    BY <1>s, <2>1, <2>3, <2>7 DEF GenerateReport, GoTo, ReviewInv, StepIsOfStage
  <2>8. CASE FailReview
    <3>1. stages'[stage] = "failed" /\ pc' = "release"
      BY <1>t, <2>8 DEF FailReview, Fail
    <3>2. UNCHANGED candidates \/ stage = Highlight
      BY <1>s, <2>8 DEF FailReview, StepIsOfStage
    <3>3. CandidatesAreOfTheTranscript'
      BY <2>2, <2>3, <3>1, <3>2 DEF CandidatesAreOfTheTranscript
    <3> QED
      BY <3>1, <3>3 DEF ReviewInv
  <2> QED
    BY <1>1, <2>4, <2>5, <2>6, <2>7, <2>8 DEF Review
<1>2. CASE Prepare \/ Recognize \/ Translate
  <2>1. stage <= Translation /\ UNCHANGED stage
    <3>1. stage <= Translation
      BY <1>2, <1>s
      DEF Prepare, IngestSource, FallBackToYtDlp, ProbeSource, CutChunk, WritePlan, FailMediaStage,
          Recognize, LoadPlan, ReuseChunk, StartChild, AwaitChild, MergeChunks, WriteAggregate,
          PublishTranscript, FailAsr, Translate, VerifyTranscript, FailVerification, TranslateChunk,
          WriteDraft, ProofreadBatch, RetryRequest, WriteJson, WriteSrt, DiscardPublication, StepIsOfStage
    <3> QED
      BY <1>2, <3>1, WorkStatuses DEF Work
  <2>2. pc \notin {"idle", "release"} /\ pc' # "score"
    BY <1>2, FirstSteps
    DEF Prepare, IngestSource, FallBackToYtDlp, ProbeSource, CutChunk, WritePlan, FailMediaStage,
        Recognize, LoadPlan, ReuseChunk, StartChild, AwaitChild, MergeChunks, WriteAggregate,
        PublishTranscript, FailAsr, Translate, VerifyTranscript, FailVerification, TranslateChunk,
        WriteDraft, ProofreadBatch, RetryRequest, WriteJson, WriteSrt, DiscardPublication, Fail, GoTo
  <2>3. Fail \/ UNCHANGED stages
    BY <1>2, WorkStatuses DEF Work
  <2>4. stages'[Report] # "success" /\ stages'[Highlight] # "success"
    BY <1>t, <1>u, <2>1, <2>2, <2>3 DEF Fail
  <2> QED
    BY <2>1, <2>2, <2>4 DEF ReviewInv, CandidatesAreOfTheTranscript
<1>3. CASE Claim \/ Release \/ Recover \/ Crash
  <2>1. UNCHANGED <<transcript, candidates, report>>
    BY <1>3 DEF Claim, Release, Recover, Crash
  <2>2. pc' \in {"idle", "dead"} \cup {FirstStep[s] : s \in Stages}
    BY <1>3, <1>t DEF Claim, Release, Recover, Crash, GoTo
  <2>3. \A s \in {Highlight, Report} : stages'[s] = "success" => stages[s] = "success"
    BY <1>3, <1>t DEF Claim, Release, Recover, Crash
  <2> QED
    BY <2>1, <2>2, <2>3, FirstStepsOfStages, ReviewIsKept
<1>4. CASE CommitCheckpoint
  <2>1. pc' \notin {"score", "commit"} /\ UNCHANGED <<transcript, report>> /\ pc \in {"commit", "skip"}
        /\ candidates' \in CandidatesAfterStage
    BY <1>4, <1>t, FirstSteps DEF CommitCheckpoint
  <2>2. CASE stage = Report
    <3>1. pc = "commit" /\ candidates' = candidates /\ report = candidates
      BY <1>s, <2>1, <2>2 DEF StepIsOfStage, CandidatesAfterStage, ReviewInv
    <3>2. stages'[Highlight] = stages[Highlight]
      BY <1>4, <1>t, <2>2 DEF CommitCheckpoint
    <3> QED
      BY <2>1, <3>1, <3>2 DEF ReviewInv, CandidatesAreOfTheTranscript
  <2>3. CASE stage = Highlight
    <3>1. stages'[Report] = stages[Report] /\ stages'[Highlight] = Outcome
      BY <1>4, <1>t, <2>3 DEF CommitCheckpoint
    <3>2. stages'[Report] # "success"
      BY <1>u, <2>1, <3>1
    <3>3. CASE pc = "commit"
      <4>1. captions = transcript /\ candidates' \in ScoredCandidates
        BY <2>1, <2>3, <3>3 DEF ReviewInv, CandidatesAfterStage
      <4>2. \A c \in candidates' : c.of = transcript'
        BY <2>1, <4>1 DEF ScoredCandidates
      <4> QED
        BY <2>1, <3>2, <4>2 DEF ReviewInv, CandidatesAreOfTheTranscript
    <3>4. CASE pc = "skip"
      BY <2>1, <3>1, <3>2, <3>4 DEF Outcome, ReviewInv, CandidatesAreOfTheTranscript
    <3> QED
      BY <2>1, <3>3, <3>4
  <2>4. CASE stage \notin {Highlight, Report}
    <3>1. candidates' = candidates
      BY <2>1, <2>4 DEF CandidatesAfterStage
    <3>2. \A s \in {Highlight, Report} : stages'[s] = "success" => stages[s] = "success"
      BY <1>4, <1>t, <2>4 DEF CommitCheckpoint
    <3> QED
      BY <2>1, <3>1, <3>2, ReviewIsKept
  <2> QED
    BY <2>2, <2>3, <2>4
<1>5. ASSUME NEW s \in Stages, Retry(s)
      PROVE  ReviewInv'
  <2>1. pc' = "idle" /\ UNCHANGED <<transcript, candidates, report>>
    BY <1>5 DEF Retry, SubtitleFacts, StepInv, WorkerHoldsEntry
  <2>2. \A q \in {Highlight, Report} : stages'[q] = "success" => stages[q] = "success"
    BY <1>5 DEF Retry, Reset
  <2> QED
    BY <2>1, <2>2, ReviewIsKept
<1>6. CASE (\E s \in Stages : RefusedRetry(s)) \/ ExportClip \/ EndExport \/ SourceChanges
  <2>1. UNCHANGED <<transcript, candidates, report, pc, stage, captions>>
    BY <1>6 DEF RefusedRetry, ExportClip, EndExport, SourceChanges
  <2>2. stages'[Highlight] = stages[Highlight] /\ stages'[Report] = stages[Report]
    BY <1>6, <1>t DEF RefusedRetry, ExportClip, EndExport, PersistExport, FailExport, SourceChanges
  <2> QED
    BY <2>1, <2>2 DEF ReviewInv, CandidatesAreOfTheTranscript
<1>7. CASE (\E c \in children : ChildStep(c)) \/ UNCHANGED vars
  <2>1. UNCHANGED <<transcript, candidates, report, pc, stage, stages, captions>>
    BY <1>7 DEF vars, ChildStep, ChildFails, ChildTranscribes, ChildWritesOutputs, ChildSucceeds
  <2> QED
    BY <2>1 DEF ReviewInv, CandidatesAreOfTheTranscript
<1> QED
  BY <1>1, <1>2, <1>3, <1>4, <1>5, <1>6, <1>7 DEF Next, WorkerStep, User

\* The candidates of a finished highlight stage are scored on the transcript of this
\* run, although the stage prefers the final subtitles and may find them removed.
THEOREM CandidatesAreCurrent == Spec => []CandidatesAreOfTheTranscript
<1>1. Init => SubtitleFacts /\ ReviewInv
  BY InitTypes, InitSteps, InitStatuses, InitRow, InitSubtitles, InitReview DEF SubtitleFacts
<1>2. SubtitleFacts /\ ReviewInv /\ [Next]_vars => (SubtitleFacts /\ ReviewInv)'
  BY TypeStep, StepStep, StatusStep, RowStep, SubtitleStep, ReviewStep DEF SubtitleFacts
<1>3. ReviewInv => CandidatesAreOfTheTranscript
  BY DEF ReviewInv
<1> QED
  BY <1>1, <1>2, <1>3, PTL DEF Spec

-----------------------------------------------------------------------------
(* The ASR stage, as long as the worker has not crashed *)

\* At most the child that the worker waits for writes results.
OneWatchedChild ==
    children = {} \/ (pc = "child" /\ exit = "none" /\ \E c \in children : children = {c} /\ c.watched)

\* The transcript on disk is the merge that the worker holds.
Merging == MayMerge(plan) /\ transcript = CaptionsOf(plan) /\ captions = CaptionsOf(plan)

AsrInv ==
    crashes = 0 =>
        /\ pc # "dead"
        /\ OneWatchedChild
        /\ pc \in {"chunk", "child", "aggregate"} => plan # None /\ length = plan
        /\ pc = "aggregate" => Merging
        /\ pc = "publish" \/ (pc = "commit" /\ stage = Asr) => MergeIsCurrent
        /\ stages[Asr] = "success" => MergeIsCurrent

\* Both depend on files that no step outside of preparation, children and merge touches.
LEMMA MergeIsKept ==
    ASSUME UNCHANGED <<plan, wav, result, transcript>>
    PROVE  /\ UNCHANGED captions => (Merging <=> Merging')
           /\ UNCHANGED aggregate => (MergeIsCurrent <=> MergeIsCurrent')
<1>1. TakesOf(plan)' = TakesOf(plan) /\ CaptionsOf(plan)' = CaptionsOf(plan)
  BY DEF TakesOf, CaptionsOf
<1>2. MayMerge(plan)' <=> MayMerge(plan)
  BY <1>1 DEF MayMerge, HasValidResult, HasSuccessManifest, HasReadableTake
<1>3. UNCHANGED captions => (Merging <=> Merging')
  BY <1>1, <1>2 DEF Merging
<1>4. UNCHANGED aggregate => (MergeIsCurrent <=> MergeIsCurrent')
  BY <1>1, <1>2 DEF MergeIsCurrent, AggregateIsCurrent, TranscriptIsCurrent
<1> QED
  BY <1>3, <1>4

\* Steps outside of the ASR stage.
LEMMA AsrIsKept ==
    ASSUME AsrInv, UNCHANGED <<plan, wav, result, transcript, aggregate, children, exit>>,
           crashes' = 0 => crashes = 0, pc # "child",
           pc' \notin {"dead", "chunk", "child", "aggregate", "publish"},
           pc' = "commit" => stage' # Asr,
           stages'[Asr] = "success" => stages[Asr] = "success"
    PROVE  AsrInv'
BY MergeIsKept DEF AsrInv, OneWatchedChild

LEMMA InitAsr == Init => AsrInv
BY StageNumbers DEF Init, AsrInv, OneWatchedChild

LEMMA RecognizeKeepsAsr ==
    ASSUME TypeInv, StepInv, StatusInv, AsrInv, Recognize
    PROVE  AsrInv'
<1> USE StageNumbers
<1>s. stage = Asr /\ UNCHANGED <<stage, crashes>> /\ stages'[Asr] # "success"
  <2>1. stage = Asr
    BY DEF Recognize, LoadPlan, ReuseChunk, StartChild, AwaitChild, MergeChunks, WriteAggregate,
           PublishTranscript, FailAsr, StepInv, StepIsOfStage
  <2>2. UNCHANGED <<stage, crashes>> /\ (Fail \/ UNCHANGED stages)
    BY WorkStatuses DEF Work
  <2> QED
    BY <2>1, <2>2 DEF Fail, StatusInv, Unfinished, TypeInv, TypeOK
<1> SUFFICES ASSUME crashes = 0
             PROVE  /\ pc' # "dead" /\ OneWatchedChild'
                    /\ pc' \in {"chunk", "child", "aggregate"} => plan' # None /\ length' = plan'
                    /\ pc' = "aggregate" => Merging'
                    /\ pc' = "publish" \/ pc' = "commit" => MergeIsCurrent'
  BY <1>s DEF AsrInv
<1>1. CASE LoadPlan
  BY <1>1 DEF LoadPlan, AsrInv, OneWatchedChild
<1>2. CASE ReuseChunk
  BY <1>2 DEF ReuseChunk, AsrInv, OneWatchedChild
<1>3. CASE StartChild
  <2>1. children = {}
    BY <1>3 DEF StartChild, AsrInv, OneWatchedChild
  <2> DEFINE new == [chunk |-> index, step |-> "start", take |-> None, text |-> None, watched |-> TRUE]
  <2>2. new.watched /\ children' = {new} /\ exit' = "none" /\ pc' = "child"
    BY <1>3, <2>1 DEF StartChild, GoTo
  <2> HIDE DEF new
  <2>3. OneWatchedChild'
    BY <2>2 DEF OneWatchedChild
  <2> QED
    BY <1>3, <2>2, <2>3 DEF StartChild, GoTo, AsrInv
<1>4. CASE AwaitChild
  <2>1. children = {}
    BY <1>4 DEF AwaitChild, ChildDelivered, AsrInv, OneWatchedChild
  <2> QED
    BY <1>4, <2>1 DEF AwaitChild, AsrInv, OneWatchedChild
<1>5. CASE MergeChunks
  <2>1. length = plan /\ children = {}
    BY <1>5 DEF MergeChunks, AsrInv, OneWatchedChild
  <2>2. UNCHANGED <<plan, wav, result, children, length>> /\ MayMerge(plan) /\ plan # None
        /\ captions' = CaptionsOf(plan) /\ transcript' = CaptionsOf(plan) /\ pc' = "aggregate"
    BY <1>5, <2>1 DEF MergeChunks, AsrInv
  <2>3. TakesOf(plan)' = TakesOf(plan) /\ CaptionsOf(plan)' = CaptionsOf(plan)
    BY <2>2 DEF TakesOf, CaptionsOf
  <2>4. MayMerge(plan)'
    BY <2>2, <2>3 DEF MayMerge, HasValidResult, HasSuccessManifest, HasReadableTake
  <2>5. Merging'
    BY <2>2, <2>3, <2>4 DEF Merging
  <2> QED
    BY <2>1, <2>2, <2>5 DEF OneWatchedChild
<1>6. CASE WriteAggregate
  <2>1. Merging /\ length = plan /\ plan # None /\ children = {}
    BY <1>6 DEF WriteAggregate, AsrInv, OneWatchedChild
  <2>2. DOMAIN captions = Places(TakesOf(plan))
    BY <2>1 DEF Merging, CaptionsOf, Merged
  <2>3. /\ UNCHANGED <<plan, wav, result, transcript, captions, children>> /\ pc' = "publish"
        /\ aggregate' = [chunks |-> Chunks(plan), captions |-> Cardinality(Places(TakesOf(plan)))]
    BY <1>6, <2>1, <2>2 DEF WriteAggregate, GoTo
  <2>4. TakesOf(plan)' = TakesOf(plan) /\ CaptionsOf(plan)' = CaptionsOf(plan)
    BY <2>3 DEF TakesOf, CaptionsOf
  <2>5. Merging'
    BY <2>1, <2>3, MergeIsKept
  <2>6. AggregateIsCurrent(plan)'
    BY <2>3, <2>4 DEF AggregateIsCurrent
  <2>7. MergeIsCurrent'
    BY <2>1, <2>3, <2>5, <2>6 DEF MergeIsCurrent, Merging, TranscriptIsCurrent
  <2> QED
    BY <2>1, <2>3, <2>7 DEF OneWatchedChild
<1>7. CASE PublishTranscript
  <2>1. UNCHANGED <<plan, wav, result, transcript, aggregate, children, exit>> /\ pc = "publish" /\ pc' = "commit"
    BY <1>7 DEF PublishTranscript, GoTo
  <2> QED
    BY <2>1, MergeIsKept DEF AsrInv, OneWatchedChild
<1>8. CASE FailAsr
  <2>1. UNCHANGED <<children, exit>> /\ pc' = "release" /\ (pc = "child" => exit # "none")
    BY <1>8 DEF FailAsr, Fail
  <2> QED
    BY <2>1 DEF AsrInv, OneWatchedChild
<1> QED
  BY <1>1, <1>2, <1>3, <1>4, <1>5, <1>6, <1>7, <1>8 DEF Recognize

\* A child works while its worker waits for it: the stage has not succeeded yet.
LEMMA ChildKeepsAsr ==
    ASSUME TypeInv, StepInv, StatusInv, AsrInv, NEW c \in children, ChildStep(c)
    PROVE  AsrInv'
<1> USE StageNumbers
<1>1. UNCHANGED <<pc, stage, stages, crashes, plan, length>>
  BY DEF ChildStep, ChildFails, ChildTranscribes, ChildWritesOutputs, ChildSucceeds
<1> SUFFICES ASSUME crashes = 0 PROVE AsrInv'
  BY <1>1 DEF AsrInv
<1>2. pc = "child" /\ exit = "none" /\ children = {c} /\ c.watched
  BY DEF AsrInv, OneWatchedChild
<1>3. stages[Asr] # "success"
  BY <1>2 DEF StepInv, StepIsOfStage, StatusInv, Unfinished
<1>4. c \in Child
  BY DEF TypeInv, TypeOK
<1>5. OneWatchedChild'
  <2>1. CASE ChildFails(c) \/ ChildSucceeds(c)
    BY <1>2, <2>1 DEF ChildFails, ChildSucceeds, OneWatchedChild
  <2>2. CASE ChildTranscribes(c)
    <3>1. PICK take \in Takes : children' = (children \ {c})
              \cup {[c EXCEPT !.step = "write", !.take = take, !.text = wav[c.chunk]]}
      BY <2>2 DEF ChildTranscribes
    <3> DEFINE next == [c EXCEPT !.step = "write", !.take = take, !.text = wav[c.chunk]]
    <3>2. next.watched
      BY <1>2, <1>4 DEF Child
    <3>3. children' = {next} /\ UNCHANGED <<exit, pc>>
      BY <1>2, <2>2, <3>1 DEF ChildTranscribes
    <3> HIDE DEF next
    <3> QED
      BY <1>2, <3>2, <3>3 DEF OneWatchedChild
  <2>3. CASE ChildWritesOutputs(c)
    <3> DEFINE next == [c EXCEPT !.step = "manifest"]
    <3>1. next.watched
      BY <1>2, <1>4 DEF Child
    <3>2. children' = {next} /\ UNCHANGED <<exit, pc>>
      BY <1>2, <2>3 DEF ChildWritesOutputs
    <3> HIDE DEF next
    <3> QED
      BY <1>2, <3>1, <3>2 DEF OneWatchedChild
  <2> QED
    BY <2>1, <2>2, <2>3 DEF ChildStep
<1> QED
  BY <1>1, <1>2, <1>3, <1>5 DEF AsrInv

LEMMA AsrStep == TypeInv /\ StepInv /\ StatusInv /\ AsrInv /\ [Next]_vars => AsrInv'
<1> SUFFICES ASSUME TypeInv, StepInv, StatusInv, AsrInv, [Next]_vars PROVE AsrInv'
  OBVIOUS
<1> USE StageNumbers
<1>t. stages \in [Stages -> StageStatus] /\ stage \in Stages
  BY DEF TypeInv, TypeOK
<1>u. stage <= Asr => stages[Asr] # "success"
  BY DEF StatusInv, Unfinished
<1>1. CASE Prepare
  <2>1. stage < Asr /\ UNCHANGED <<stage, crashes, children, exit>> /\ pc # "child"
    BY <1>1, WorkStatuses
    DEF Work, Prepare, IngestSource, FallBackToYtDlp, ProbeSource, CutChunk, WritePlan, FailMediaStage,
        StepInv, StepIsOfStage
  <2>2. pc' \notin {"dead", "chunk", "child", "aggregate", "publish"}
    BY <1>1
    DEF Prepare, IngestSource, FallBackToYtDlp, ProbeSource, CutChunk, WritePlan, FailMediaStage, Fail, GoTo
  <2>3. stages'[Asr] # "success"
    BY <1>1, <1>t, <1>u, <2>1, WorkStatuses DEF Work, Fail
  <2> QED
    BY <2>1, <2>2, <2>3 DEF AsrInv, OneWatchedChild
<1>2. CASE Translate \/ Review
  <2>1. UNCHANGED <<plan, wav, result, transcript, aggregate, children, exit>>
        /\ pc' \notin {"dead", "chunk", "child", "aggregate", "publish"}
    BY <1>2, FirstSteps
    DEF Translate, VerifyTranscript, FailVerification, TranslateChunk,
        WriteDraft, ProofreadBatch, RetryRequest, WriteJson, WriteSrt, DiscardPublication,
        Review, ResolveScenes, ScoreCandidates, SkipHighlight, GenerateReport, FailReview, Fail, GoTo
  <2>2. pc \in {"verify", "translate", "proofread", "srt", "highlight", "score", "report"}
        \/ (pc = "commit" /\ stage = Translation)
    BY <1>2, FirstSteps
    DEF Translate, VerifyTranscript, FailVerification, TranslateChunk,
        WriteDraft, ProofreadBatch, RetryRequest, WriteJson, WriteSrt, DiscardPublication,
        Review, ResolveScenes, ScoreCandidates, SkipHighlight, GenerateReport, FailReview
  <2>3. stage # Asr /\ pc # "child"
    BY <2>2 DEF StepInv, StepIsOfStage
  <2>4. UNCHANGED <<stage, crashes>> /\ (stages'[Asr] = "success" => stages[Asr] = "success")
    BY <1>2, <1>t, WorkStatuses DEF Work, Fail
  <2> QED
    BY <2>1, <2>3, <2>4, AsrIsKept
<1>3. CASE Claim \/ Release
  <2>1. UNCHANGED <<plan, wav, result, transcript, aggregate, children, exit, crashes>> /\ pc # "child"
    BY <1>3 DEF Claim, Release
  <2>2. pc' \in {"idle"} \cup {FirstStep[s] : s \in Stages}
    BY <1>3, <1>t DEF Claim, Release, GoTo
  <2>3. stages'[Asr] = "success" => stages[Asr] = "success"
    BY <1>3, <1>t DEF Claim, Release
  <2> QED
    BY <2>1, <2>2, <2>3, FirstStepsOfStages, AsrIsKept
<1>4. CASE Crash
  <2>1. crashes' # 0
    BY <1>4 DEF Crash, TypeInv, TypeOK
  <2> QED
    BY <2>1 DEF AsrInv
<1>5. CASE Recover
  BY <1>5 DEF Recover, AsrInv
<1>6. CASE CommitCheckpoint
  <2>1. UNCHANGED <<plan, wav, result, transcript, aggregate, children, exit, crashes>> /\ pc # "child"
    BY <1>6 DEF CommitCheckpoint
  <2>2. pc' \notin {"dead", "chunk", "child", "aggregate", "publish", "commit"}
    BY <1>6, <1>t, FirstSteps DEF CommitCheckpoint
  <2>3. CASE stage = Asr
    <3>1. pc = "commit"
      BY <1>6, <2>3 DEF CommitCheckpoint, StepInv, StepIsOfStage
    <3> QED
      BY <2>1, <2>2, <2>3, <3>1, MergeIsKept DEF AsrInv, OneWatchedChild
  <2>4. CASE stage # Asr
    <3>1. stages'[Asr] = "success" => stages[Asr] = "success"
      BY <1>6, <1>t, <2>4 DEF CommitCheckpoint
    <3> QED
      BY <2>1, <2>2, <3>1, AsrIsKept
  <2> QED
    BY <2>3, <2>4
<1>7. ASSUME NEW s \in Stages, Retry(s)
      PROVE  AsrInv'
  <2>1. pc = "idle" /\ UNCHANGED <<plan, wav, result, transcript, aggregate, children, exit, crashes, pc>>
    BY <1>7 DEF Retry, StepInv, WorkerHoldsEntry
  <2>2. stages'[Asr] = "success" => stages[Asr] = "success"
    BY <1>7 DEF Retry, Reset
  <2> QED
    BY <2>1, <2>2, AsrIsKept
<1>8. CASE (\E s \in Stages : RefusedRetry(s)) \/ ExportClip \/ EndExport \/ SourceChanges
  <2>1. UNCHANGED <<plan, wav, result, transcript, aggregate, children, exit, crashes, pc, stage,
                    length, captions>>
    BY <1>8 DEF RefusedRetry, ExportClip, EndExport, SourceChanges
  <2>2. stages'[Asr] = stages[Asr]
    BY <1>8, <1>t DEF RefusedRetry, ExportClip, EndExport, PersistExport, FailExport, SourceChanges
  <2> QED
    BY <2>1, <2>2, MergeIsKept DEF AsrInv, OneWatchedChild
<1>9. CASE UNCHANGED vars
  BY <1>9, MergeIsKept DEF vars, AsrInv, OneWatchedChild
<1> QED
  BY <1>1, <1>2, <1>3, <1>4, <1>5, <1>6, <1>7, <1>8, <1>9, RecognizeKeepsAsr, ChildKeepsAsr
  DEF Next, WorkerStep, User

\* Without a crash, the files of a successful ASR stage are one merge that translation
\* accepts, whatever retries reused and whatever the children wrote.
THEOREM AsrLeavesAMerge == Spec => []AsrSuccessIsVerifiable
<1>1. Init => TypeInv /\ StepInv /\ StatusInv /\ AsrInv
  BY InitTypes, InitSteps, InitStatuses, InitAsr
<1>2. AsrInv => AsrSuccessIsVerifiable
  BY DEF AsrInv, AsrSuccessIsVerifiable
<1> QED
  BY <1>1, <1>2, TypeStep, StepStep, StatusStep, AsrStep, PTL DEF Spec

-----------------------------------------------------------------------------
(* The end of a run *)

\* What the measure of the remaining work rests on: a child is started for a chunk of
\* the plan, and the worker translates and proofreads a finite number of captions.
RankInv ==
    /\ pc = "child" => index \in Chunks(length)
    /\ pc \in {"translate", "proofread"} => IsFiniteSet(DOMAIN captions)

\* A merge of finitely many chunks has finitely many captions.
LEMMA MergeIsFinite ==
    ASSUME TypeInv, NEW d \in Durations \cup {0}, MayMerge(d)
    PROVE  IsFiniteSet(DOMAIN CaptionsOf(d))
<1> DEFINE takes == TakesOf(d)
<1>1. d \in Nat /\ Chunks(d) \subseteq AllChunks
  BY ChunksOfDurations
<1>2. takes \in [Chunks(d) -> Seq(Caption)]
  <2>1. ASSUME NEW i \in Chunks(d)
        PROVE  result[i].take \in Seq(Caption)
    <3>1. result[i].take \in Takes \cup {None, Torn}
      BY <1>1 DEF TypeInv, TypeOK, Result
    <3>2. result[i].take \in Takes
      BY <3>1 DEF MayMerge, HasValidResult, HasReadableTake
    <3> QED
      BY <3>2, TakesAssumption DEF Caption, Span
  <2> QED
    BY <2>1 DEF TakesOf
<1>3. DOMAIN CaptionsOf(d) = Places(takes)
  BY DEF CaptionsOf, Merged
<1> HIDE DEF takes
<1> QED
  BY <1>1, <1>2, <1>3, PlacesAreFinite

LEMMA InitRank == Init => RankInv
BY DEF Init, RankInv

LEMMA RankStep == TypeInv /\ StepInv /\ RankInv /\ [Next]_vars => RankInv'
<1> SUFFICES ASSUME TypeInv, StepInv, RankInv, [Next]_vars PROVE RankInv'
  OBVIOUS
<1>1. ASSUME UNCHANGED <<pc, memory>>
      PROVE  RankInv'
  BY <1>1 DEF RankInv
<1>2. ASSUME pc' \notin {"child", "translate", "proofread"}
      PROVE  RankInv'
  BY <1>2 DEF RankInv
<1>3. CASE Claim \/ CommitCheckpoint \/ Release \/ Recover \/ Crash
  <2>1. pc' \in {"idle", "dead", "release"} \cup {FirstStep[s] : s \in Stages}
    BY <1>3, StageNumbers DEF Claim, CommitCheckpoint, Release, Recover, Crash, GoTo, TypeInv, TypeOK
  <2> QED
    BY <1>2, <2>1, FirstStepsOfStages
<1>4. CASE Prepare \/ Review
  BY <1>2, <1>4
  DEF Prepare, IngestSource, FallBackToYtDlp, ProbeSource, CutChunk, WritePlan, FailMediaStage,
      Review, ResolveScenes, ScoreCandidates, SkipHighlight, GenerateReport, FailReview, Fail, GoTo
<1>5. CASE Recognize
  BY <1>5
  DEF RankInv, Recognize, LoadPlan, ReuseChunk, StartChild, AwaitChild, MergeChunks, WriteAggregate,
      PublishTranscript, FailAsr, Fail, GoTo
<1>6. CASE VerifyTranscript
  <2>1. plan \in Durations \cup {0} /\ MayMerge(plan) /\ captions' = CaptionsOf(plan)
    BY <1>6 DEF VerifyTranscript, MergeIsCurrent, TranscriptIsCurrent, TypeInv, TypeOK
  <2> QED
    BY <1>6, <2>1, MergeIsFinite DEF RankInv, VerifyTranscript
<1>7. CASE Translate /\ ~VerifyTranscript
  BY <1>7
  DEF RankInv, Translate, FailVerification, TranslateChunk, WriteDraft, ProofreadBatch, RetryRequest,
      WriteJson, WriteSrt, DiscardPublication, Fail, GoTo
<1>8. CASE (\E c \in children : ChildStep(c)) \/ User \/ SourceChanges \/ UNCHANGED vars
  BY <1>1, <1>8
  DEF ChildStep, ChildFails, ChildTranscribes, ChildWritesOutputs, ChildSucceeds, User, Retry,
      RefusedRetry, ExportClip, EndExport, SourceChanges, vars
<1> QED
  BY <1>3, <1>4, <1>5, <1>6, <1>7, <1>8 DEF Next, WorkerStep

\* The next step of the stage leaves less.
LEMMA NextPlace ==
    ASSUME stage' = stage, pc # "release", pc' # "release", PlacesLeft' < PlacesLeft
    PROVE  LessLeft
BY DEF LessLeft, StagesLeft

\* At the same step, less work leaves less.
LEMMA LessWork ==
    ASSUME stage' = stage, pc # "release", pc' # "release", PlacesLeft' = PlacesLeft,
           WorkLeft' < WorkLeft
    PROVE  LessLeft
BY DEF LessLeft, StagesLeft

LEMMA FailureLeavesLess ==
    ASSUME TypeInv, pc # "release", pc' = "release"
    PROVE  LessLeft
BY StageNumbers DEF LessLeft, StagesLeft, TypeInv, TypeOK

\* One chunk less.
LEMMA NextChunk ==
    ASSUME length \in Nat, index \in Chunks(length), index' = index + 1, length' = length
    PROVE  ChunksLeft \in Nat /\ ChunksLeft' \in Nat /\ ChunksLeft' < ChunksLeft
BY DEF ChunksLeft, Chunks

LEMMA PrepareLeavesLess ==
    ASSUME TypeInv, Prepare
    PROVE  LessLeft
<1>1. CASE IngestSource \/ FallBackToYtDlp \/ ProbeSource \/ WritePlan
  <2>1. stage' = stage /\ pc # "release" /\ pc' # "release"
    BY <1>1 DEF IngestSource, FallBackToYtDlp, ProbeSource, WritePlan, GoTo
  <2>2. PlacesLeft' < PlacesLeft
    BY <1>1 DEF IngestSource, FallBackToYtDlp, ProbeSource, WritePlan, GoTo, PlacesLeft
  <2> QED
    BY <2>1, <2>2, NextPlace
<1>2. CASE CutChunk
  <2>1. /\ stage' = stage /\ pc = "cut" /\ pc' = pc
        /\ index \in Chunks(length) /\ index' = index + 1 /\ length' = length
    BY <1>2 DEF CutChunk
  <2>2. length \in Nat
    BY DurationAssumption DEF TypeInv, TypeOK, Durations
  <2>3. PlacesLeft' = PlacesLeft /\ WorkLeft' < WorkLeft
    BY <2>1, <2>2, NextChunk DEF PlacesLeft, WorkLeft
  <2> QED
    BY <2>1, <2>3, LessWork
<1>3. CASE FailMediaStage
  BY <1>3, FailureLeavesLess DEF FailMediaStage, Fail
<1> QED
  BY <1>1, <1>2, <1>3 DEF Prepare

LEMMA RecognizeLeavesLess ==
    ASSUME TypeInv, RankInv, Recognize
    PROVE  LessLeft
<1>0. length \in Nat
  BY DurationAssumption DEF TypeInv, TypeOK, Durations
<1>1. CASE LoadPlan \/ MergeChunks \/ WriteAggregate \/ PublishTranscript
  <2>1. stage' = stage /\ pc # "release" /\ pc' # "release"
    BY <1>1 DEF LoadPlan, MergeChunks, WriteAggregate, PublishTranscript, GoTo
  <2>2. PlacesLeft' < PlacesLeft
    BY <1>1 DEF LoadPlan, MergeChunks, WriteAggregate, PublishTranscript, GoTo, PlacesLeft
  <2> QED
    BY <2>1, <2>2, NextPlace
<1>2. CASE ReuseChunk \/ AwaitChild
  <2>1. /\ stage' = stage /\ pc \in {"chunk", "child"} /\ pc' = "chunk"
        /\ index \in Chunks(length) /\ index' = index + 1 /\ length' = length
    BY <1>2 DEF ReuseChunk, AwaitChild, RankInv
  <2>2. ChunksLeft \in Nat /\ ChunksLeft' \in Nat /\ ChunksLeft' < ChunksLeft
    BY <1>0, <2>1, NextChunk
  <2>3. PlacesLeft' = PlacesLeft
    BY <2>1 DEF PlacesLeft
  <2>4. WorkLeft >= 2 * ChunksLeft /\ WorkLeft' = 2 * ChunksLeft' + 1
    BY <2>1, <2>2 DEF WorkLeft
  <2>5. WorkLeft' < WorkLeft
    BY <2>1, <2>2, <2>4 DEF WorkLeft
  <2> QED
    BY <2>1, <2>3, <2>5, LessWork
<1>3. CASE StartChild
  <2>1. /\ stage' = stage /\ pc = "chunk" /\ pc' = "child"
        /\ index' = index /\ length' = length /\ index \in Chunks(length)
    BY <1>3 DEF StartChild, GoTo
  <2>2. ChunksLeft \in Nat /\ ChunksLeft' = ChunksLeft
    BY <1>0, <2>1 DEF ChunksLeft, Chunks
  <2>3. PlacesLeft' = PlacesLeft /\ WorkLeft' < WorkLeft
    BY <2>1, <2>2 DEF PlacesLeft, WorkLeft
  <2> QED
    BY <2>1, <2>3, LessWork
<1>4. CASE FailAsr
  BY <1>4, FailureLeavesLess DEF FailAsr, Fail
<1> QED
  BY <1>1, <1>2, <1>3, <1>4 DEF Recognize

LEMMA TranslateLeavesLess ==
    ASSUME TypeInv, RankInv, Translate
    PROVE  LessLeft
<1>1. CASE VerifyTranscript \/ WriteDraft \/ WriteJson \/ WriteSrt
  <2>1. stage' = stage /\ pc # "release" /\ pc' # "release"
    BY <1>1 DEF VerifyTranscript, WriteDraft, WriteJson, WriteSrt, GoTo
  <2>2. PlacesLeft' < PlacesLeft
    BY <1>1 DEF VerifyTranscript, WriteDraft, WriteJson, WriteSrt, GoTo, PlacesLeft
  <2> QED
    BY <2>1, <2>2, NextPlace
<1>2. CASE TranslateChunk
  <2>1. /\ stage' = stage /\ pc = "translate" /\ pc' = pc
        /\ index \in Chunks(length) /\ index' = index + 1 /\ length' = length
    BY <1>2 DEF TranslateChunk
  <2>2. length \in Nat
    BY DurationAssumption DEF TypeInv, TypeOK, Durations
  <2>3. PlacesLeft' = PlacesLeft /\ WorkLeft' < WorkLeft
    BY <2>1, <2>2, NextChunk DEF PlacesLeft, WorkLeft
  <2> QED
    BY <2>1, <2>3, LessWork
<1>3. CASE ProofreadBatch
  <2>1. /\ stage' = stage /\ pc = "proofread" /\ pc' = pc
        /\ index' = index + 1 /\ captions' = captions /\ BatchesLeft
    BY <1>3 DEF ProofreadBatch
  <2>2. /\ Cardinality(DOMAIN captions) \in Nat /\ index \in Nat \ {0} /\ BatchSize \in Nat \ {0}
    BY <2>1, FS_CardinalityType, ProofreadAssumption DEF RankInv, TypeInv, TypeOK
  <2> DEFINE n == Cardinality(DOMAIN captions)
             done == (index - 1) * BatchSize
  <2>3. /\ n \in Nat /\ done \in Nat /\ done < n
        /\ (index' - 1) * BatchSize = done + BatchSize
    BY <2>1, <2>2 DEF BatchesLeft
  <2>4. WorkLeft = n - done
    BY <2>1 DEF WorkLeft
  <2>5. WorkLeft' = IF BatchesLeft' THEN n - (done + BatchSize) ELSE 0
    <3>1. WorkLeft' = IF BatchesLeft' THEN n - (index' - 1) * BatchSize ELSE 0
      BY <2>1 DEF WorkLeft
    <3> QED
      BY <2>3, <3>1
  <2>6. WorkLeft' < WorkLeft
    <3> HIDE DEF n, done
    <3> QED
      BY <2>2, <2>3, <2>4, <2>5
  <2> QED
    BY <2>1, <2>6, LessWork DEF PlacesLeft
<1>4. CASE RetryRequest
  <2>1. /\ stage' = stage /\ pc = "proofread" /\ pc' = pc
        /\ index' = index /\ captions' = captions /\ attempt' = attempt + 1 /\ attempt < MaxAttempts
    BY <1>4 DEF RetryRequest
  <2>2. StagesLeft' = StagesLeft /\ PlacesLeft' = PlacesLeft /\ WorkLeft' = WorkLeft
    BY <2>1 DEF StagesLeft, PlacesLeft, WorkLeft, BatchesLeft
  <2>3. attempt' \in (attempt + 1)..MaxAttempts
    BY <2>1, ProofreadAssumption DEF TypeInv, TypeOK
  <2> QED
    BY <2>2, <2>3 DEF LessLeft
<1>5. CASE FailVerification \/ DiscardPublication
  BY <1>5, FailureLeavesLess DEF FailVerification, DiscardPublication, Fail
<1> QED
  BY <1>1, <1>2, <1>3, <1>4, <1>5 DEF Translate

LEMMA ReviewLeavesLess ==
    ASSUME TypeInv, Review
    PROVE  LessLeft
<1>1. CASE ResolveScenes \/ ScoreCandidates \/ SkipHighlight \/ GenerateReport
  <2>1. stage' = stage /\ pc # "release" /\ pc' # "release"
    BY <1>1 DEF ResolveScenes, ScoreCandidates, SkipHighlight, GenerateReport, GoTo
  <2>2. PlacesLeft' < PlacesLeft
    BY <1>1 DEF ResolveScenes, ScoreCandidates, SkipHighlight, GenerateReport, GoTo, PlacesLeft
  <2> QED
    BY <2>1, <2>2, NextPlace
<1>2. CASE FailReview
  BY <1>2, FailureLeavesLess DEF FailReview, Fail
<1> QED
  BY <1>1, <1>2 DEF Review

LEMMA CheckpointLeavesLess ==
    ASSUME TypeInv, CommitCheckpoint
    PROVE  LessLeft
<1>1. CASE stage = Report
  BY <1>1, FailureLeavesLess DEF CommitCheckpoint
<1>2. CASE stage # Report
  <2>1. stage \in 1..6 /\ stage' = stage + 1 /\ pc' = FirstStep[stage + 1] /\ pc # "release"
    BY <1>2, StageNumbers DEF CommitCheckpoint, TypeInv, TypeOK
  <2>2. stage + 1 \in Stages /\ pc' # "release"
    BY <2>1, StageNumbers, FirstSteps
  <2> QED
    BY <2>1, <2>2, StageNumbers DEF LessLeft, StagesLeft
<1> QED
  BY <1>1, <1>2

RankFacts == TypeInv /\ StepInv /\ RankInv

LEMMA RankInvariant == Spec => []RankFacts
<1>1. Init => RankFacts
  BY InitTypes, InitSteps, InitRank DEF RankFacts
<1>2. RankFacts /\ [Next]_vars => RankFacts'
  BY TypeStep, StepStep, RankStep DEF RankFacts
<1> QED
  BY <1>1, <1>2, PTL DEF Spec

\* Every step of the worker loop between a claim and the release leaves less of
\* the run, lexicographically in stages, steps, chunks or captions and requests;
\* what others do in between leaves the same.  With a fair worker that is why
\* run_task_pipeline returns.
THEOREM RunsGetShorter == Spec => EveryStepLeavesLess
<1> DEFINE Advance == pc \notin {"idle", "dead"} =>
                          \/ pc' \in {"idle", "dead"}
                          \/ LessLeft
                          \/ UNCHANGED <<pc, stage, memory>> /\ ~WorkerStep
<1>1. RankFacts /\ [Next]_vars => [Advance]_vars
  <2> SUFFICES ASSUME RankFacts, Next, pc \notin {"idle", "dead"}
               PROVE  \/ pc' \in {"idle", "dead"}
                      \/ LessLeft
                      \/ UNCHANGED <<pc, stage, memory>> /\ ~WorkerStep
    OBVIOUS
  <2>1. CASE WorkerStep
    <3>1. CASE Claim \/ Recover
      BY <3>1 DEF Claim, Recover
    <3>2. CASE Release
      BY <3>2 DEF Release, GoTo
    <3> QED
      BY <2>1, <3>1, <3>2, PrepareLeavesLess, RecognizeLeavesLess, TranslateLeavesLess,
         ReviewLeavesLess, CheckpointLeavesLess
      DEF WorkerStep, RankFacts
  <2>2. CASE Crash
    BY <2>2 DEF Crash
  <2>3. ASSUME NEW s \in Stages, Retry(s)
        PROVE  FALSE
    BY <2>3 DEF Retry, RankFacts, StepInv, WorkerHoldsEntry
  <2>4. ASSUME \/ \E c \in children : ChildStep(c)
               \/ \E s \in Stages : RefusedRetry(s)
               \/ ExportClip \/ EndExport \/ SourceChanges
        PROVE  UNCHANGED <<pc, stage, memory>>
    BY <2>4
    DEF ChildStep, ChildFails, ChildTranscribes, ChildWritesOutputs, ChildSucceeds,
        RefusedRetry, ExportClip, EndExport, SourceChanges
  <2> QED
    BY <2>1, <2>2, <2>3, <2>4 DEF Next, User
<1> QED
  BY <1>1, RankInvariant, PTL DEF Spec, EveryStepLeavesLess

\* The worker never waits for a child that is gone: as long as no end was reported,
\* a child it watches is alive, also when an orphan of an earlier worker writes
\* results of the same chunk.
THEOREM AwaitedChildrenLive == Spec => []AwaitedChildLives
<1>1. Init => AwaitedChildLives
  BY DEF Init, AwaitedChildLives
<1>2. AwaitedChildLives /\ TypeInv /\ StepInv /\ [Next]_vars => AwaitedChildLives'
  <2> SUFFICES ASSUME AwaitedChildLives, TypeInv, StepInv, [Next]_vars, pc' = "child", exit' = "none"
               PROVE  \E c \in children' : c.watched
    BY DEF AwaitedChildLives
  <2>1. ASSUME NEW c \in children, ChildStep(c)
        PROVE  \E d \in children' : d.watched
    <3>1. pc = "child"
      BY <2>1 DEF ChildStep, ChildFails, ChildTranscribes, ChildWritesOutputs, ChildSucceeds
    <3>2. CASE ChildFails(c) \/ ChildSucceeds(c)
      BY <3>1, <3>2 DEF ChildFails, ChildSucceeds, AwaitedChildLives
    <3>3. CASE ChildTranscribes(c)
      <4>1. PICK take \in Takes :
                children' = (children \ {c})
                            \cup {[c EXCEPT !.step = "write", !.take = take, !.text = wav[c.chunk]]}
        BY <3>3 DEF ChildTranscribes
      <4>2. PICK d \in children : d.watched
        BY <3>1, <3>3 DEF ChildTranscribes, AwaitedChildLives
      <4>3. [c EXCEPT !.step = "write", !.take = take, !.text = wav[c.chunk]].watched = c.watched
        BY <2>1 DEF TypeInv, TypeOK, Child
      <4> QED
        BY <4>1, <4>2, <4>3
    <3>4. CASE ChildWritesOutputs(c)
      <4>1. children' = (children \ {c}) \cup {[c EXCEPT !.step = "manifest"]}
        BY <3>4 DEF ChildWritesOutputs
      <4>2. PICK d \in children : d.watched
        BY <3>1, <3>4 DEF ChildWritesOutputs, AwaitedChildLives
      <4>3. [c EXCEPT !.step = "manifest"].watched = c.watched
        BY <2>1 DEF TypeInv, TypeOK, Child
      <4> QED
        BY <4>1, <4>2, <4>3
    <3> QED
      BY <2>1, <3>2, <3>3, <3>4 DEF ChildStep
  <2>2. CASE StartChild
    <3>1. [chunk |-> index, step |-> "start", take |-> None, text |-> None, watched |-> TRUE]
          \in children'
      BY <2>2 DEF StartChild
    <3> QED
      BY <3>1
  <2>3. CASE Claim \/ CommitCheckpoint \/ Release \/ Recover \/ Crash
    <3>1. pc' \in {"idle", "dead", "release"} \cup {FirstStep[s] : s \in Stages}
      BY <2>3, StageNumbers
      DEF Claim, CommitCheckpoint, Release, Recover, Crash, GoTo, TypeInv, TypeOK
    <3> QED
      BY <3>1, FirstStepsOfStages
  <2>4. CASE Recognize /\ ~StartChild
    BY <2>4
    DEF Recognize, LoadPlan, ReuseChunk, AwaitChild, MergeChunks, WriteAggregate,
        PublishTranscript, FailAsr, Fail, GoTo
  <2>5. CASE Prepare
    BY <2>5
    DEF Prepare, IngestSource, FallBackToYtDlp, ProbeSource, CutChunk, WritePlan, FailMediaStage,
        Fail, GoTo
  <2>6. CASE Translate
    BY <2>6
    DEF Translate, VerifyTranscript, FailVerification, TranslateChunk, WriteDraft, ProofreadBatch,
        RetryRequest, WriteJson, WriteSrt, DiscardPublication, Fail, GoTo
  <2>7. CASE Review
    BY <2>7
    DEF Review, ResolveScenes, ScoreCandidates, SkipHighlight, GenerateReport, FailReview, Fail, GoTo
  <2>8. CASE User \/ SourceChanges \/ UNCHANGED vars
    BY <2>8
    DEF User, Retry, RefusedRetry, ExportClip, EndExport, SourceChanges, vars, AwaitedChildLives
  <2> QED
    BY <2>1, <2>2, <2>3, <2>4, <2>5, <2>6, <2>7, <2>8 DEF Next, WorkerStep
<1> QED
  BY <1>1, <1>2, RankInvariant, PTL DEF Spec, RankFacts

=============================================================================

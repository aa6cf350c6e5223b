------------------------------ MODULE TaskView ------------------------------
(***************************************************************************)
(* What the workstation says about a task: the counters of the library, the *)
(* filters of its list, and the recovery panel.  Pure projections of the    *)
(* state of MediaStages, translated from repositories/workstation.py and    *)
(* services/recovery_actions.py, and what they promise together with the    *)
(* worker, retries and exports.                                            *)
(***************************************************************************)
EXTENDS MediaStages

\* _EXPECTED_ARTIFACTS: the Artifact kinds that make a stage ready.
ExpectedKinds == <<
    {"source_video"}, {"prepared_audio", "asr_audio"}, {"transcript_json"},
    {"translated_segments", Final}, {"highlight_candidates", "highlight_candidates_json"},
    {"clip_video", "exported_clip"}, {"report", "task_report_markdown"} >>

\* Only translation outputs are ever removed while their row remains.
PathExists(kind) == kind = Final => json # None

HasArtifact(s) == \E kind \in rows \cap ExpectedKinds[s] : PathExists(kind)

\* _readiness_condition: does the filter of the library keep the task?
Listed(readiness) ==
    CASE readiness = "ready"   -> \E s \in Stages : HasArtifact(s)
      [] readiness = "failed"  -> \E s \in Stages : stages[s] = "failed"
      [] readiness = "missing" -> \E s \in Stages : stages[s] = "success" /\ ~HasArtifact(s)
      [] readiness = "not_ready" -> \E s \in Stages : stages[s] \in {"pending", "running"}
      [] readiness = "not_applicable" -> stages[Highlight] = "skipped"

\* The counter of get_task_library_summary that counts the task.
Bucket ==
    CASE task = "running" -> "active"
      [] task = "pending" -> "queued"
      [] task = "success" -> "review_required"
      [] task = "failed"  -> "failed"

FailedStages == {s \in Stages : stages[s] = "failed"}

\* Fault: only the stage of the checkpoint is offered.
RetryOffersAtCheckpoint == IF task # "failed" THEN {} ELSE FailedStages \cap {stage}

\* serialize_recovery_actions: the stage a retry is offered for, of a failed task.
RetryOffers ==
    IF task # "failed" THEN {}
    ELSE {s \in FailedStages : \A q \in FailedStages : s <= q}

-----------------------------------------------------------------------------
(* Properties *)

\* Whenever the library counts a task as failed, its recovery panel offers the
\* retry of a stage, and the filter for failed artifacts finds the task: the worker,
\* its recovery and failing clip exports leave no failed task without a failed stage.
\* (The endpoint accepts the retry once the entry has been released, see
\* RefusedRetry.)  A clip export that succeeds can hide the failed stage: it
\* overwrites the status of a failed export stage and not that of the task.
FailedTaskOffersRetry ==
    Bucket = "failed" /\ RowOf[Export] \notin rows => RetryOffers # {} /\ Listed("failed")

=============================================================================

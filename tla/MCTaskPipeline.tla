--------------------------- MODULE MCTaskPipeline ---------------------------
(* Instances of TaskPipeline for TLC. *)
EXTENDS TaskPipeline, TLC

CONSTANTS t1, t2, w1, w2

NoTasks == {}
OneTask == {t1}
TwoTasks == {t1, t2}
OneWorker == {w1}
TwoWorkers == {w1, w2}
AnyTaskAlike == Permutations(TwoTasks)

=============================================================================

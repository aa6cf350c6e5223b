-------------------------- MODULE MCTaskCreation --------------------------
(* An instance of TaskCreation for TLC: two links, of which one has the video *)
(* identifier in its text and the other may turn out to be of the same video. *)
EXTENDS TaskCreation, TLC

CONSTANTS t1, t2, t3, r1, r2, watch, short, BV1, file

ThreeTasks == {t1, t2, t3}
TwoRequests == {r1, r2}
TwoPages == {watch, short}
OneVideo == {BV1}
OneFile == {file}
LinkOf(p, v) == [page |-> p, video |-> v]
AllLinks == {LinkOf(watch, BV1), LinkOf(short, NoVideo)}
Alike == Permutations(ThreeTasks) \cup Permutations(TwoRequests)

=============================================================================

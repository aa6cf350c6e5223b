---------------------------- MODULE MCWorkQueue ----------------------------
(* Instances of WorkQueue for TLC, and the faults its properties catch. *)
EXTENDS WorkQueue, TLC

CONSTANTS t1, t2, t3, c1

MCTasks == {t1, t2, t3}
OneClient == {c1}
NoClients == {}
AnyTaskAlike == Permutations(MCTasks)
FlatPriorities == {0}
MixedPriorities == {0, 1}

=============================================================================

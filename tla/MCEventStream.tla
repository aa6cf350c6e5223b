--------------------------- MODULE MCEventStream ---------------------------
(* An instance of EventStream for TLC. *)
EXTENDS EventStream

CONSTANTS tasks, queue

TaskListAndQueue == {tasks, queue}

=============================================================================

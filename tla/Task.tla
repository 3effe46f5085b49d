-------------------------------- MODULE Task --------------------------------
(***************************************************************************)
(* The task component: task identifiers.                                   *)
(*                                                                         *)
(* The configuration step of the preemptive variants sorts the tasks by    *)
(* decreasing priority and numbers them from 0, so a smaller identifier is *)
(* a higher priority.                                                      *)
(***************************************************************************)
EXTENDS Integers

CONSTANT N                  \* tasks.length

ASSUME NAssumption == N \in Nat \ {0}

Tasks == 0 .. (N - 1)

\* TASK_ID_NONE: the value of TaskIdOption that is no task.
TASK_ID_NONE == -1

TaskIdOption == Tasks \cup {TASK_ID_NONE}
=============================================================================

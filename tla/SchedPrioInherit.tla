-------------------------- MODULE SchedPrioInherit --------------------------
(***************************************************************************)
(* The scheduler of the Kochab variant (components/sched-prio-inherit).    *)
(*                                                                         *)
(* The scheduler keeps one field per task: the task it is blocked on.  A   *)
(* task blocked on itself is runnable; a task blocked on TASK_ID_NONE      *)
(* waits for something that no task in particular provides.  Priority      *)
(* inheritance is the walk along these fields in sched_get_next.           *)
(*                                                                         *)
(* Here sched_get_next is defined by what it returns; the loop of the      *)
(* source is in SchedPrioInheritLoop.                                      *)
(***************************************************************************)
EXTENDS Task

VARIABLE blocked_on         \* sched_tasks.tasks[t].blocked_on

SchedTypeOK == blocked_on \in [Tasks -> TaskIdOption]

\* sched_set_runnable, called once for each task of T.
sched_set_runnable(T) ==
    blocked_on' = [t \in Tasks |-> IF t \in T THEN t ELSE blocked_on[t]]

\* Mutant: the blocker is not recorded.
sched_set_blocked(task_id, blocker) ==
    blocked_on' = [blocked_on EXCEPT ![task_id] = TASK_ID_NONE]

sched_set_blocked_on(task_id, blocker) ==
    blocked_on' = [blocked_on EXCEPT ![task_id] = blocker]

-----------------------------------------------------------------------------
\* S is left only through TASK_ID_NONE when one follows bo.
Closed(bo, S) == \A t \in S : bo[t] \in S \cup {TASK_ID_NONE}

\* The tasks on the walk that starts at t: those in every closed set around t.
Chain(bo, t) ==
    {r \in Tasks : \A S \in SUBSET Tasks : (t \in S /\ Closed(bo, S)) => r \in S}

\* The walk from t meets TASK_ID_NONE and the loop moves to the next priority.
Passed(bo, t) == \E r \in Chain(bo, t) : bo[r] = TASK_ID_NONE

\* The runnable task in which the walk from t ends, as a set.
Found(bo, t) == {r \in Chain(bo, t) : bo[r] = r}

\* What sched_get_next "returns" when its inner loop never ends.
SCHED_DIVERGES == -2

\* The highest priority whose walk does not meet TASK_ID_NONE.
IsFirst(bo, t) ==
    /\ t \in Tasks
    /\ ~Passed(bo, t)
    /\ \A u \in Tasks : u < t => Passed(bo, u)

\* The runnable task in which the walk of that priority ends, as a set.
FirstFound(bo) == {r \in Tasks : \E t \in Tasks : IsFirst(bo, t) /\ r \in Found(bo, t)}

sched_get_next(bo) ==
    IF \A t \in Tasks : Passed(bo, t) THEN TASK_ID_NONE
    ELSE IF FirstFound(bo) = {} THEN SCHED_DIVERGES
    ELSE CHOOSE r \in FirstFound(bo) : TRUE
=============================================================================

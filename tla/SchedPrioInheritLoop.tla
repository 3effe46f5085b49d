------------------------ MODULE SchedPrioInheritLoop ------------------------
(***************************************************************************)
(* The two nested loops of sched_get_next, one step per iteration.         *)
(*                                                                         *)
(* blocked_on does not change while the loops run: they run with           *)
(* preemption disabled, and no interrupt handler writes it.  Every value   *)
(* of blocked_on is an initial state.                                      *)
(***************************************************************************)
EXTENDS SchedPrioInherit

VARIABLES idx,              \* the local idx of the for loop
          task,             \* the local task of the do loop
          returned          \* the function has returned task

vars == <<blocked_on, idx, task, returned>>

LoopTypeOK ==
    /\ SchedTypeOK
    /\ idx \in Tasks
    /\ task \in TaskIdOption
    /\ returned \in BOOLEAN

Init ==
    /\ SchedTypeOK
    /\ idx = 0
    /\ task = 0
    /\ returned = FALSE

\* Mutant: any task that is not blocked on TASK_ID_NONE is found.
GotoFoundEarly ==
    /\ ~returned
    /\ blocked_on[task] # TASK_ID_NONE
    /\ returned' = TRUE
    /\ UNCHANGED <<blocked_on, idx, task>>

\* next_task == task: goto found.
GotoFound ==
    /\ ~returned
    /\ blocked_on[task] = task
    /\ returned' = TRUE
    /\ UNCHANGED <<blocked_on, idx, task>>

\* Mutant: the do loop does not advance to next_task.
FollowStays ==
    /\ ~returned
    /\ blocked_on[task] \in Tasks \ {task}
    /\ UNCHANGED vars

\* task = next_task, and round the do loop again.
Follow ==
    /\ ~returned
    /\ blocked_on[task] \in Tasks \ {task}
    /\ task' = blocked_on[task]
    /\ UNCHANGED <<blocked_on, idx, returned>>

\* Mutant: the for loop ends one task early.
NextIndexShort ==
    /\ ~returned
    /\ blocked_on[task] = TASK_ID_NONE
    /\ \/ idx < N - 2 /\ idx' = idx + 1 /\ task' = idx + 1 /\ UNCHANGED returned
       \/ idx >= N - 2 /\ task' = TASK_ID_NONE /\ returned' = TRUE /\ UNCHANGED idx
    /\ UNCHANGED blocked_on

\* The do loop ends with TASK_ID_NONE: the next idx, or the end of the for loop.
NextIndex ==
    /\ ~returned
    /\ blocked_on[task] = TASK_ID_NONE
    /\ \/ /\ idx < N - 1
          /\ idx' = idx + 1
          /\ task' = idx + 1
          /\ UNCHANGED returned
       \/ /\ idx = N - 1
          /\ task' = TASK_ID_NONE
          /\ returned' = TRUE
          /\ UNCHANGED idx
    /\ UNCHANGED blocked_on

Next == GotoFound \/ Follow \/ NextIndex

Spec == Init /\ [][Next]_vars /\ WF_vars(Next)

-----------------------------------------------------------------------------
\* What the loops return is what sched_get_next is defined to be: the end of
\* the walk of the highest priority task whose walk does not meet a task
\* blocked on TASK_ID_NONE.  In particular the loops do not return when that
\* walk runs into a cycle.
LoopImplements == returned => task = sched_get_next(blocked_on)

\* Task t has inherited the priority of task u: u is t, or is blocked on t
\* through any number of tasks.
Inherits(bo, t, u) == t \in Chain(bo, u)

\* The task that the loops return is runnable, and no runnable task has a
\* higher effective priority, which is the highest priority it inherits.
LoopPicksEffectivePriority ==
    (returned /\ task # TASK_ID_NONE) =>
        /\ blocked_on[task] = task
        /\ \E a \in Tasks :
              /\ Inherits(blocked_on, task, a)
              /\ \A r, b \in Tasks :
                    (blocked_on[r] = r /\ Inherits(blocked_on, r, b)) => a <= b

\* Without a cycle in blocked_on the loops end.
Acyclic(bo) == \A t \in Tasks : Passed(bo, t) \/ Found(bo, t) # {}

LoopTerminates == Acyclic(blocked_on) ~> returned
=============================================================================

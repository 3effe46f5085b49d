------------------------------- MODULE SchedRR ------------------------------
(***************************************************************************)
(* The round robin scheduler of the cooperative variants                   *)
(* (components/sched-rr): one flag per task and the hand, the index of the *)
(* task that was picked last.                                              *)
(***************************************************************************)
EXTENDS Task

VARIABLES cur,              \* sched_tasks.cur
          runnable          \* sched_tasks.tasks[t].runnable

SchedTypeOK ==
    /\ cur \in Tasks
    /\ runnable \in [Tasks -> BOOLEAN]

\* sched_set_runnable, called once for each task of T.
sched_set_runnable(T) == runnable' = [t \in Tasks |-> t \in T \/ runnable[t]]

sched_set_blocked(t) == runnable' = [runnable EXCEPT ![t] = FALSE]

\* How many other tasks the hand passes on its way from cur to t.
Distance(t) == (t - cur - 1) % N

\* The task at which the loop of sched_get_next stops: the first runnable one
\* after cur; cur itself comes last.
NextRunnable ==
    CHOOSE t \in Tasks : runnable[t] /\ \A u \in Tasks : runnable[u] => Distance(t) <= Distance(u)

\* Mutant: the hand starts from task 0 every time.
sched_get_next_first ==
    IF \E t \in Tasks : runnable[t]
    THEN CHOOSE t \in Tasks : runnable[t] /\ \A u \in Tasks : runnable[u] => t <= u
    ELSE TASK_ID_NONE

\* What sched_get_next returns.
sched_get_next == IF \E t \in Tasks : runnable[t] THEN NextRunnable ELSE TASK_ID_NONE

\* Where it leaves the hand.
sched_set_cur_index ==
    cur' = IF sched_get_next = TASK_ID_NONE THEN N - 1 ELSE sched_get_next
=============================================================================

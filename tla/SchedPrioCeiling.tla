-------------------------- MODULE SchedPrioCeiling --------------------------
(***************************************************************************)
(* The priority ceiling scheduler (components/sched-prio-ceiling): one     *)
(* table of all tasks and mutexes, sorted by decreasing priority, where    *)
(* the priority of a mutex is its ceiling (components/phact.py).           *)
(***************************************************************************)
EXTENDS BlockingMutex

CONSTANTS task_to_index, mutex_to_index

Indexes == 0 .. (N + NumMutexes - 1)
SCHED_INDEX_NONE == -1

\* No two entries have the same priority; the last one is a task, because a
\* mutex comes before every task that locks it.
ASSUME CeilingAssumption ==
    /\ task_to_index \in [Tasks -> Indexes]
    /\ mutex_to_index \in [Mutexes -> Indexes]
    /\ \A t, u \in Tasks : t < u => task_to_index[t] < task_to_index[u]
    /\ \A m, n \in Mutexes : m < n => mutex_to_index[m] < mutex_to_index[n]
    /\ \A t \in Tasks, m \in Mutexes : task_to_index[t] # mutex_to_index[m]
    /\ task_to_index[N - 1] = N + NumMutexes - 1

VARIABLE locked_by          \* sched_queue.entries[i].locked_by

SchedTypeOK == locked_by \in [Indexes -> Indexes \cup {SCHED_INDEX_NONE}]

\* Every task runnable and every mutex unlocked.
SchedInit ==
    locked_by = [i \in Indexes |-> IF \E t \in Tasks : task_to_index[t] = i THEN i ELSE SCHED_INDEX_NONE]

sched_runnable(t) == locked_by[task_to_index[t]] = task_to_index[t]

\* sched_set_runnable, called once for each task of T.
sched_set_runnable(T) ==
    locked_by' = [i \in Indexes |-> IF \E t \in T : task_to_index[t] = i THEN i ELSE locked_by[i]]

sched_set_blocked(t) ==
    locked_by' = [locked_by EXCEPT ![task_to_index[t]] = SCHED_INDEX_NONE]

sched_set_mutex_locked_by(m, t) ==
    locked_by' = [locked_by EXCEPT ![mutex_to_index[m]] = task_to_index[t]]

\* sched_set_mutex_unlocked(m), then sched_set_runnable for each task of T.
sched_set_mutex_unlocked(m, T) ==
    locked_by' = [i \in Indexes |->
        CASE i = mutex_to_index[m] -> SCHED_INDEX_NONE
          [] \E t \in T : task_to_index[t] = i -> i
          [] OTHER -> locked_by[i]]

\* Entry i ends the loop: a runnable task, or a mutex that one holds.
Eligible(i) ==
    locked_by[i] # SCHED_INDEX_NONE /\ locked_by[locked_by[i]] = locked_by[i]

\* index_to_mutex_task, for the entry of a task.
TaskAt(i) == CHOOSE t \in Tasks : task_to_index[t] = i

\* Mutant: the mutexes of the table are skipped.
sched_get_next_task ==
    IF \E t \in Tasks : sched_runnable(t)
    THEN CHOOSE t \in Tasks : sched_runnable(t) /\ \A u \in Tasks : sched_runnable(u) => t <= u
    ELSE N - 1

\* When no task is runnable, the loop ends with the last entry of the table
\* and its task is returned.
sched_get_next ==
    IF \E i \in Indexes : Eligible(i)
    THEN TaskAt(locked_by[CHOOSE i \in Indexes : Eligible(i) /\ \A j \in Indexes : Eligible(j) => i <= j])
    ELSE N - 1
=============================================================================

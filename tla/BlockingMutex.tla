---------------------------- MODULE BlockingMutex ---------------------------
(***************************************************************************)
(* The state of the blocking-mutex component: the holder of every mutex    *)
(* and, per task, the mutex it is waiting for.                             *)
(***************************************************************************)
EXTENDS Task

CONSTANT NumMutexes         \* mutexes.length

ASSUME MutexAssumption == NumMutexes \in Nat

Mutexes == 0 .. (NumMutexes - 1)
MUTEX_ID_NONE == -1

VARIABLES holder,           \* mutexes[m].holder
          mutex_waiters     \* mutex_waiters[t]

MutexTypeOK ==
    /\ holder \in [Mutexes -> TaskIdOption]
    /\ mutex_waiters \in [Tasks -> Mutexes \cup {MUTEX_ID_NONE}]

MutexInit ==
    /\ holder = [m \in Mutexes |-> TASK_ID_NONE]
    /\ mutex_waiters = [t \in Tasks |-> MUTEX_ID_NONE]

MutexFree(m) == holder[m] = TASK_ID_NONE

\* The internal mutex_try_lock, when the mutex is free.
mutex_take(m, t) ==
    /\ MutexFree(m)
    /\ holder' = [holder EXCEPT ![m] = t]
    /\ UNCHANGED mutex_waiters

\* Mutant: a task that is still registered stays where it is.
mutex_wait_once(m, t) ==
    /\ ~MutexFree(m)
    /\ mutex_waiters' = [mutex_waiters EXCEPT ![t] = IF @ = MUTEX_ID_NONE THEN m ELSE @]
    /\ UNCHANGED holder

\* The internal mutex_try_lock fails and the caller registers as a waiter.
mutex_wait(m, t) ==
    /\ ~MutexFree(m)
    /\ mutex_waiters' = [mutex_waiters EXCEPT ![t] = m]
    /\ UNCHANGED holder

\* Mutant: only the first waiter is woken up.
FirstMutexWaiter(m) ==
    {t \in Tasks : mutex_waiters[t] = m /\ \A u \in Tasks : u < t => mutex_waiters[u] # m}

\* Mutant: the loop over the tasks starts at the second one.
MutexWaitersButFirst(m) == {t \in Tasks : t # 0 /\ mutex_waiters[t] = m}

MutexWaiters(m) == {t \in Tasks : mutex_waiters[t] = m}

\* The effect of mutex_unlock on the mutex state.
mutex_release(m) ==
    /\ mutex_waiters' = [t \in Tasks |-> IF t \in MutexWaiters(m) THEN MUTEX_ID_NONE ELSE mutex_waiters[t]]
    /\ holder' = [holder EXCEPT ![m] = TASK_ID_NONE]
=============================================================================

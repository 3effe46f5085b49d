--------------------------- MODULE SimpleSemaphore --------------------------
(***************************************************************************)
(* The state of the simple-semaphore component: the value and the maximum  *)
(* of every semaphore and, per task, the semaphore it is waiting for.      *)
(***************************************************************************)
EXTENDS Task

CONSTANTS NumSems,          \* semaphores.length
          SemValueMod,      \* 2 ^ the width of SemValue
          SemEnableMax      \* semaphore_enable_max of the configuration

ASSUME SemAssumption ==
    /\ NumSems \in Nat
    /\ SemValueMod \in Nat \ {0, 1}
    /\ SemEnableMax \in BOOLEAN

Sems == 0 .. (NumSems - 1)
SEM_ID_NONE == -1
SemValue == 0 .. (SemValueMod - 1)

VARIABLES sem_value,        \* semaphores[s].value
          sem_max,          \* semaphores[s].max, 0 until sem_max_init
          sem_waiters       \* sem_waiters[t]

SemTypeOK ==
    /\ sem_value \in [Sems -> SemValue]
    /\ sem_max \in [Sems -> SemValue]
    /\ sem_waiters \in [Tasks -> Sems \cup {SEM_ID_NONE}]

\* The static initialisation, and sem_init.
SemInit ==
    /\ sem_value = [s \in Sems |-> 0]
    /\ sem_max = [s \in Sems |-> 0]
    /\ sem_waiters = [t \in Tasks |-> SEM_ID_NONE]

\* internal_sem_try_wait returns true.
sem_take(s) ==
    /\ sem_value[s] # 0
    /\ sem_value' = [sem_value EXCEPT ![s] = @ - 1]
    /\ UNCHANGED <<sem_max, sem_waiters>>

\* Mutant: the caller does not register.
sem_register_nothing(s, t) ==
    /\ sem_value[s] = 0
    /\ UNCHANGED <<sem_value, sem_max, sem_waiters>>

\* internal_sem_try_wait returns false and the caller registers as a waiter.
sem_register(s, t) ==
    /\ sem_value[s] = 0
    /\ sem_waiters' = [sem_waiters EXCEPT ![t] = s]
    /\ UNCHANGED <<sem_value, sem_max>>

\* Mutant: a post to a full semaphore is accepted.
SemPostFatalLate(s) == SemEnableMax /\ (sem_max[s] = 0 \/ sem_value[s] > sem_max[s])

\* The checks of sem_post that end in a fatal error.
SemPostFatal(s) == SemEnableMax /\ (sem_max[s] = 0 \/ sem_value[s] >= sem_max[s])

\* Mutant: only the first waiter is woken up.
FirstSemWaiter(s) ==
    IF sem_value[s] # 0 THEN {}
    ELSE {t \in Tasks : sem_waiters[t] = s /\ \A u \in Tasks : u < t => sem_waiters[u] # s}

\* The tasks that sem_post wakes up: only a semaphore at 0 has waiters to wake.
SemWoken(s) == IF sem_value[s] = 0 THEN {t \in Tasks : sem_waiters[t] = s} ELSE {}

\* The effect of sem_post on the semaphore state; value++ wraps.
sem_add(s) ==
    /\ sem_waiters' = [t \in Tasks |-> IF t \in SemWoken(s) THEN SEM_ID_NONE ELSE sem_waiters[t]]
    /\ sem_value' = [sem_value EXCEPT ![s] = (@ + 1) % SemValueMod]
    /\ UNCHANGED sem_max
=============================================================================

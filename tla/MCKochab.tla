------------------------------ MODULE MCKochab ------------------------------
(***************************************************************************)
(* Values for the constants of Kochab that a cfg cannot write down.        *)
(***************************************************************************)
EXTENDS Kochab

\* Who calls what, for each of the questions asked.
MutexCalls == [t \in Tasks |-> {"mutex_lock", "mutex_unlock", "mutex_try_lock", "signal_wait_set"}
                                 \cup (IF t = 1 THEN {"signal_send_set"} ELSE {})]
SemCalls == [t \in Tasks |-> {"sem_wait", "sem_post", "sem_try_wait", "signal_wait_set", "signal_poll_set"}
                               \cup (IF t = 1 THEN {"sem_max_init"} ELSE {}) \cup (IF t = 0 THEN {"sleep"} ELSE {})]
TimeoutCalls == [t \in Tasks |-> IF t = 0 THEN {"mutex_lock_timeout", "mutex_unlock", "sem_wait_timeout"}
                                  ELSE {"mutex_try_lock", "mutex_unlock", "sem_post"}]
SleepCalls == [t \in Tasks |-> {"mutex_lock_timeout", "mutex_unlock", "sleep"}]
TimerApi == {"timer_enable", "timer_oneshot", "timer_disable", "timer_check_overflow",
             "timer_reload_set", "timer_signal_set", "timer_error_set"}
TimerCalls == [t \in Tasks |-> IF t = 0 THEN {"signal_wait_set"} ELSE TimerApi]

\* The configured timers: none, or periodic ones for task 0.
TimerInit == [k \in UserTimers |-> UserTimer(TRUE, 1, 0, AppSignals)]

\* Event e signals task e.
OwnTask == [e \in Events |-> e % N]
AllSignals == [e \in Events |-> AppSignals]
=============================================================================

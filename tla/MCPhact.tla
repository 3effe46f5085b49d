------------------------------- MODULE MCPhact ------------------------------
(***************************************************************************)
(* Values for the constants of Phact that a cfg cannot write down.         *)
(***************************************************************************)
EXTENDS Phact

\* Task 0 waits for an event, and shares mutex 0 with task 1, which locks with a
\* timeout and shares mutex 1 with task 2.
ThreeCalls == [t \in Tasks |->
    CASE t = 0 -> {"mutex_lock", "mutex_unlock", "signal_wait_set"}
      [] t = 1 -> {"mutex_lock_timeout", "mutex_unlock", "mutex_try_lock", "signal_poll_set"}
      [] OTHER -> {"mutex_lock", "mutex_unlock", "sleep", "signal_send_set"}]
EventCalls == [t \in Tasks |-> {"signal_wait_set"}]
SharedMutexes == [t \in Tasks |-> Mutexes \cap {t - 1, t}]

\* The table of the scheduler: mutex 0, task 0, mutex 1, task 1, ...
TaskIndex == [t \in Tasks |-> t + IF t < NumMutexes THEN t + 1 ELSE NumMutexes]
MutexIndex == [m \in Mutexes |-> 2 * m]

\* Event e signals task e.
OwnTask == [e \in Events |-> e % N]
AllSignals == [e \in Events |-> AppSignals]
=============================================================================

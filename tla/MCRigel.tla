------------------------------- MODULE MCRigel ------------------------------
(***************************************************************************)
(* Values for the constants of Rigel that a cfg cannot write down.         *)
(***************************************************************************)
EXTENDS Rigel, TLC

\* Nothing depends on what a message is.
MessagePermutations == Permutations(Messages)

\* Who calls what.  In QueueCalls task 0 sends, task 1 receives and task 2 does
\* both with a timeout, and tasks 0 and 2 share a mutex.
QueueCalls == [t \in Tasks |->
    CASE t = 0 -> {"message_queue_put", "mutex_lock", "mutex_unlock"}
      [] t = 1 -> {"yield", "message_queue_get", "message_queue_try_get", "message_queue_try_put"}
      [] OTHER -> {"yield", "message_queue_put_timeout", "message_queue_get_timeout",
                   "mutex_lock", "mutex_unlock", "mutex_try_lock"}]
ApiCalls == [t \in Tasks |->
    IF t = 0 THEN {"yield", "sleep", "message_queue_get_timeout", "task_start"}
    ELSE {"yield", "message_queue_try_put", "signal_wait_set", "signal_poll_set",
          "interrupt_event_task_set"}]

\* The queues have the same length, and everybody uses the first one.
LengthOne == [q \in Queues |-> 1]
LengthTwo == [q \in Queues |-> 2]
FirstQueue == [t \in Tasks |-> {0}]
AnyQueue == [t \in Tasks |-> Queues]

\* Event e signals task e.
OwnTask == [e \in Events |-> e % N]
AllSignals == [e \in Events |-> AppSignals \ {RTOS_UTIL}]
=============================================================================

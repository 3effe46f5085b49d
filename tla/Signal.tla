------------------------------- MODULE Signal -------------------------------
(***************************************************************************)
(* The signal component (components/signal): the pending signals of every  *)
(* task.  A signal set is a set of signal labels.                          *)
(***************************************************************************)
EXTENDS Task

CONSTANTS AppSignals,       \* the signal labels of the application
          TASK_TIMER        \* SIGNAL_ID__TASK_TIMER, reserved by the RTOS

ASSUME SignalAssumption == TASK_TIMER \notin AppSignals

Signals == AppSignals \cup {TASK_TIMER}

VARIABLE PENDING_SIGNALS    \* signal_tasks.tasks[t].signals

SignalTypeOK == PENDING_SIGNALS \in [Tasks -> SUBSET Signals]

signal_peek(t, requested) == PENDING_SIGNALS[t] \cap requested # {}

\* Takes the requested signals that are pending.
signal_recv(t, requested) ==
    PENDING_SIGNALS' = [PENDING_SIGNALS EXCEPT ![t] = @ \ requested]

\* The effect on the pending signals of sending sigs[t] to every t in T.
signal_set_pending(T, sigs) ==
    PENDING_SIGNALS' = [t \in Tasks |-> IF t \in T
                                        THEN PENDING_SIGNALS[t] \cup sigs[t]
                                        ELSE PENDING_SIGNALS[t]]
=============================================================================

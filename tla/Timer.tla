-------------------------------- MODULE Timer -------------------------------
(***************************************************************************)
(* The timer component (components/timer, with the pending tick counter of *)
(* components/timer-armv7m).                                               *)
(*                                                                         *)
(* TicksAbsolute is a 32 bit counter and TicksTimeout, the type of a       *)
(* timer's expiry, a 16 bit one; both wrap.  Their sizes are parameters    *)
(* here.  The task timers, one per task, follow the configured timers.     *)
(***************************************************************************)
EXTENDS Signal

CONSTANTS NumUserTimers,    \* the timers of the system configuration
          TicksAbsoluteMod, \* 2^32
          TicksTimeoutMod   \* 2^16

ASSUME TimerAssumption ==
    /\ NumUserTimers \in Nat
    /\ TicksTimeoutMod \in Nat \ {0}
    /\ TicksAbsoluteMod \in Nat \ {0}
    /\ TicksAbsoluteMod % TicksTimeoutMod = 0

UserTimers == 0 .. (NumUserTimers - 1)
TimerIds == 0 .. (NumUserTimers + N - 1)

\* task_timers[t], which KochabModule.configure appends to the timers.
task_timers(t) == NumUserTimers + t

TicksAbsolute == 0 .. (TicksAbsoluteMod - 1)
TicksRelative == 0 .. (TicksTimeoutMod - 1)

\* struct timer.  Of error_id only whether it is set is kept.
TimerRecord == [enabled : BOOLEAN, overflow : BOOLEAN,
                expiry : TicksRelative, reload : TicksRelative,
                error : BOOLEAN, task_id : Tasks, signal_set : SUBSET Signals]

VARIABLES timers,
          timer_current_ticks,
          timer_pending_ticks,
          time_left         \* time_left[t]: the ticks until the timeout of the call
                            \* that t is in, counted one by one (history)

\* A timeout was reached, and since then the tick counter has begun anew.
WRAPPED == -1

TimerTypeOK ==
    /\ timers \in [TimerIds -> TimerRecord]
    /\ timer_current_ticks \in TicksAbsolute
    /\ timer_pending_ticks \in 0 .. 2

TimeLeftTypeOK == time_left \in [Tasks -> TicksRelative \cup {WRAPPED}]

\* A task timer before its first use.
TaskTimer(t) == [enabled |-> FALSE, overflow |-> FALSE, expiry |-> 0, reload |-> 0,
                 error |-> FALSE, task_id |-> t, signal_set |-> {TASK_TIMER}]

\* A configured timer: enabled at start it expires after its first reload.
UserTimer(enabled, reload, t, sigs) ==
    [enabled |-> enabled, overflow |-> FALSE, expiry |-> IF enabled THEN reload ELSE 0,
     reload |-> reload, error |-> FALSE, task_id |-> t, signal_set |-> sigs]

current_timeout(ticks) == ticks % TicksTimeoutMod

(***************************************************************************)
(* time_left is the true time: unlike the C code, which compares absolute  *)
(* ticks, it does not depend on where the tick counter stands.             *)
(***************************************************************************)

\* Task t enters a call with a timeout.
StartTimeout(t, timeout) == time_left' = [time_left EXCEPT ![t] = timeout]

\* Task t returns from the call.
EndTimeout(t) == time_left' = [time_left EXCEPT ![t] = 0]

\* The tick that makes the tick count ticks, when the tasks T are in calls that
\* compare it with an absolute timeout.
CountTick(ticks, T) ==
    time_left' = [t \in Tasks |-> IF time_left[t] > 0 THEN time_left[t] - 1
                                  ELSE IF ticks = 0 /\ t \in T THEN WRAPPED
                                  ELSE time_left[t]]

\* The timer of task t expires exactly when the time of its call is up; a call
\* whose timeout the counter has left behind by a wrap is not bounded by it.
ExpiresInTime(t) ==
    /\ timers[task_timers(t)].enabled
    /\ time_left[t] # WRAPPED =>
          /\ time_left[t] > 0
          /\ timers[task_timers(t)].expiry = (timer_current_ticks + time_left[t]) % TicksTimeoutMod

-----------------------------------------------------------------------------
\* Mutant: the expiry is kept in a type wider than TicksTimeout.
timer_process_one_wide(tm, pending) ==
    [tm EXCEPT !.enabled = tm.enabled /\ tm.reload > 0,
               !.expiry = tm.expiry + tm.reload,
               !.overflow = tm.overflow \/ tm.signal_set \subseteq pending]

\* timer_process_one on timer record tm, for a timer without error_id, when
\* pending are the pending signals of its task.
timer_process_one(tm, pending) ==
    [tm EXCEPT !.enabled = tm.enabled /\ tm.reload > 0,
               !.expiry = IF tm.reload > 0 THEN (tm.expiry + tm.reload) % TicksTimeoutMod ELSE tm.expiry,
               !.overflow = tm.overflow \/ tm.signal_set \subseteq pending]

\* Mutant: a timer expires one tick early.
timer_start_early(tm) ==
    [tm EXCEPT !.enabled = TRUE,
               !.expiry = (current_timeout(timer_current_ticks) + tm.reload - 1) % TicksTimeoutMod]

\* Mutant: the expiry is not cut to TicksTimeout.
timer_start_wide(tm) ==
    [tm EXCEPT !.enabled = TRUE, !.expiry = current_timeout(timer_current_ticks) + tm.reload]

\* timer_enable on timer record tm, for a reload that is not 0.
timer_start(tm) ==
    [tm EXCEPT !.enabled = TRUE,
               !.expiry = (current_timeout(timer_current_ticks) + tm.reload) % TicksTimeoutMod]

\* Mutant: the timer is set up and not enabled.
timer_prepare_oneshot(tm, timeout) ==
    [timer_start([tm EXCEPT !.reload = timeout]) EXCEPT !.reload = 0, !.enabled = FALSE]

\* timer_oneshot on timer record tm, for a timeout that is not 0.
timer_start_oneshot(tm, timeout) ==
    [timer_start([tm EXCEPT !.reload = timeout]) EXCEPT !.reload = 0]

\* The timers that timer_tick_process finds expired at the tick count ticks.
Expired(ticks) ==
    {k \in TimerIds : timers[k].enabled /\ timers[k].expiry = current_timeout(ticks)}

\* The pending signals that timer k of the expired timers K finds: the loop
\* has already sent the signals of the expired timers with a smaller id.
PendingAt(k, K) ==
    PENDING_SIGNALS[timers[k].task_id]
        \cup UNION {timers[j].signal_set : j \in {i \in K : i < k /\ timers[i].task_id = timers[k].task_id}}

TimersAfter(K) ==
    [k \in TimerIds |-> IF k \in K THEN timer_process_one(timers[k], PendingAt(k, K)) ELSE timers[k]]

\* The recipients and the signals of the expired timers K.
TimerTasks(K) == {timers[k].task_id : k \in K}
TimerSignals(K) == [t \in Tasks |-> UNION {timers[k].signal_set : k \in {j \in K : timers[j].task_id = t}}]
=============================================================================

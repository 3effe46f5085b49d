------------------------------- MODULE Kochab -------------------------------
(***************************************************************************)
(* The Kochab variant: preemptive tasks on the priority inheritance        *)
(* scheduler, with signals, timers, interrupt events, mutexes and          *)
(* semaphores, as components/kochab composes them, on the armv7m context   *)
(* switch (packages/armv7m/ctxt-switch-preempt.s).                         *)
(*                                                                         *)
(* A step is one stretch of code that runs with preemption disabled and    *)
(* does not give up the CPU, or one entry of the scheduler.  Interrupts    *)
(* stay enabled throughout, but what an interrupt handler writes           *)
(* (interrupt_event, timer_pending_ticks, PendSV) is read only by the      *)
(* scheduler steps and by PendSV itself, so a handler commutes with the    *)
(* rest of such a stretch.                                                 *)
(***************************************************************************)
EXTENDS SchedPrioInherit, Timer, BlockingMutex, SimpleSemaphore, InterruptEvent

CONSTANTS Calls,            \* Calls[t]: the API functions that task t calls
          UserTimerInit,    \* the configured timers in their initial state
          Timeouts,         \* the timeouts that tasks pass to the API
          TickReturns       \* what the handler of the tick interrupt returns
                            \* (nothing when the tick is not in use)

VARIABLES phase,            \* what the CPU is doing, see Phases
          current_task,
          preempt_pending,  \* the PendSV bit
          system_is_idle,
          pc,               \* where each task is in the RTOS code
          obj,              \* local m or s: the object of the call
          arg,              \* local absolute_timeout, or max in sem_max_init
          requested_signals,\* local of signal_wait_set_blocked_on
          blocker,          \* local of signal_wait_set_blocked_on
          urgent            \* what handlers raised asking for preemption, and
                            \* the scheduler did not take up yet (history)

(***************************************************************************)
(* The CPU runs current_task, or the scheduler on its behalf: one phase    *)
(* for each of the calls in rtos_internal_interrupt_event_get_next.  Then  *)
(* it may sleep in wfi ("idle"), turn in sched_get_next for ever           *)
(* ("diverged") or stop in fatal_error ("fatal").                          *)
(***************************************************************************)
Phases == {"task", "events", "ticks", "pick", "wait", "idle", "diverged", "fatal"}

\* Inside signal_wait_set_blocked_on, for each of its callers.
MutexWaits == {"lock_wait", "lock_timeout_wait"}
SemWaits == {"sem_wait", "sem_timeout_wait"}
TimedWaits == {"lock_timeout_wait", "sem_timeout_wait"}
TimerWaits == MutexWaits \cup SemWaits \cup {"sleep_wait"}
Waits == TimerWaits \cup {"signal_wait"}

\* With preemption enabled: application code, and API code before its
\* preempt_disable.
Preemptible == {"app", "lock_timeout_call", "sem_timeout_call", "max_init_call"}

\* With the task timer started, before signal_wait_set_blocked_on.
BlockLabels == {"lock_timeout_block", "sem_timeout_block", "sleep_block"}

Labels == Waits \cup Preemptible \cup BlockLabels \cup
          {"entry", "lock", "lock_timeout", "sem", "sem_timeout"}

\* Inside a call on a mutex, or on a semaphore.
MutexLabels == MutexWaits \cup {"lock", "lock_timeout_call", "lock_timeout", "lock_timeout_block"}
SemLabels == SemWaits \cup {"sem", "sem_timeout_call", "sem_timeout", "sem_timeout_block", "max_init_call"}

\* Inside a call with an absolute timeout.
TimedLabels == TimedWaits \cup {"lock_timeout_call", "lock_timeout", "lock_timeout_block",
                                "sem_timeout_call", "sem_timeout", "sem_timeout_block"}

\* The wait that a block label leads to.
WaitOf == [lock_timeout_block |-> "lock_timeout_wait",
           sem_timeout_block |-> "sem_timeout_wait", sleep_block |-> "sleep_wait"]

\* Where a wait continues once its signal is received.
AfterWait == [lock_wait |-> "lock", lock_timeout_wait |-> "lock_timeout",
              sem_wait |-> "sem", sem_timeout_wait |-> "sem_timeout",
              sleep_wait |-> "app", signal_wait |-> "app"]

TICK == -1                  \* the tick, as a member of urgent

ASSUME KochabAssumption ==
    /\ UserTimerInit \in [UserTimers -> TimerRecord]
    /\ Timeouts \subseteq TicksRelative
    /\ TicksTimeoutMod <= TicksAbsoluteMod
    /\ TickReturns \subseteq BOOLEAN

NoObject == -1

interruptVars == <<interrupt_event, timer_pending_ticks, urgent>>
timerVars == <<timers, timer_current_ticks, time_left>>
mutexVars == <<holder, mutex_waiters>>
semVars == <<sem_value, sem_max, sem_waiters>>
frameVars == <<pc, obj, arg>>
waitVars == <<requested_signals, blocker>>
cpuVars == <<phase, current_task, system_is_idle>>
vars == <<blocked_on, PENDING_SIGNALS, preempt_pending, interruptVars, timerVars,
          mutexVars, semVars, frameVars, waitVars, cpuVars>>

CpuTypeOK ==
    /\ phase \in Phases
    /\ current_task \in Tasks
    /\ preempt_pending \in BOOLEAN
    /\ system_is_idle \in BOOLEAN
    /\ urgent \in SUBSET (Events \cup {TICK})

FrameTypeOK ==
    /\ pc \in [Tasks -> Labels]
    /\ obj \in [Tasks -> Mutexes \cup Sems \cup {NoObject}]
    /\ arg \in [Tasks -> TicksAbsolute \cup SemValue]
    /\ requested_signals \in [Tasks -> SUBSET Signals]
    /\ blocker \in [Tasks -> TaskIdOption]

\* The locals of a call have the types that its code gives them.
LocalsTypeOK ==
    \A t \in Tasks :
        /\ pc[t] \in MutexLabels => obj[t] \in Mutexes
        /\ pc[t] \in SemLabels => obj[t] \in Sems
        /\ arg[t] \in IF pc[t] = "max_init_call" THEN SemValue ELSE TicksAbsolute

\* The type invariant: every variable, and every local of the call that a
\* task is in, holds a value of its C type.
TypeOK ==
    /\ SchedTypeOK /\ SignalTypeOK /\ TimerTypeOK /\ TimeLeftTypeOK
    /\ MutexTypeOK /\ SemTypeOK /\ EventTypeOK
    /\ CpuTypeOK /\ FrameTypeOK /\ LocalsTypeOK

\* start: every task runnable at its entry point, and a switch to task 0.
Init ==
    /\ blocked_on = [t \in Tasks |-> t]
    /\ PENDING_SIGNALS = [t \in Tasks |-> {}]
    /\ timers = [k \in TimerIds |-> IF k \in UserTimers THEN UserTimerInit[k]
                                    ELSE TaskTimer(k - NumUserTimers)]
    /\ timer_current_ticks = 0
    /\ timer_pending_ticks = 0
    /\ time_left = [t \in Tasks |-> 0]
    /\ MutexInit
    /\ SemInit
    /\ interrupt_event = {}
    /\ urgent = {}
    /\ phase = "task"
    /\ current_task = 0
    /\ preempt_pending = FALSE
    /\ system_is_idle = FALSE
    /\ pc = [t \in Tasks |-> "entry"]
    /\ obj = [t \in Tasks |-> NoObject]
    /\ arg = [t \in Tasks |-> 0]
    /\ requested_signals = [t \in Tasks |-> {}]
    /\ blocker = [t \in Tasks |-> TASK_ID_NONE]

-----------------------------------------------------------------------------
(* The calls that the components make of each other. *)

\* Task t executes with preemption disabled at label.
Running(t, label) ==
    /\ phase = "task"
    /\ t = current_task
    /\ pc[t] = label

\* Task t executes with preemption enabled: a pending PendSV comes first.
RunningEnabled(t, label) == Running(t, label) /\ ~preempt_pending

\* Task t is in application code and calls the API function name.
Calling(t, name) == RunningEnabled(t, "app") /\ name \in Calls[t]

\* The stack frame of t: its position and the locals of the call.
Frame(t, label, o, a) ==
    /\ pc' = [pc EXCEPT ![t] = label]
    /\ obj' = [obj EXCEPT ![t] = o]
    /\ arg' = [arg EXCEPT ![t] = a]

\* preempt_enable, and return to the application.
Return(t) == Frame(t, "app", NoObject, 0)

\* Mutant: a task becomes runnable and no preemption is pended.
unblock_quietly(T) ==
    /\ sched_set_runnable(T)
    /\ UNCHANGED preempt_pending

\* unblock, for every task of T.
unblock(T) ==
    /\ sched_set_runnable(T)
    /\ preempt_pending' = (preempt_pending \/ T # {})

\* signal_send_set of sigs[t], for every task t of T.
signal_send_set(T, sigs) ==
    /\ signal_set_pending(T, sigs)
    /\ unblock(T)

\* yield enters the scheduler through svc, which leaves PendSV alone.
yield ==
    /\ phase' = "events"
    /\ UNCHANGED <<current_task, system_is_idle, preempt_pending>>

\* signal_wait_set_blocked_on, up to its first block_on or its yield.
signal_wait_set_blocked_on(t, requested, b) ==
    /\ requested_signals' = [requested_signals EXCEPT ![t] = requested]
    /\ blocker' = [blocker EXCEPT ![t] = b]
    /\ IF signal_peek(t, requested)
       THEN UNCHANGED blocked_on
       ELSE sched_set_blocked_on(t, b)
    /\ yield

\* fatal_error does not return.
fatal_error ==
    /\ phase' = "fatal"
    /\ UNCHANGED <<current_task, system_is_idle>>

\* A failed api_assert, or any other fatal error, before anything is written.
Fatal ==
    /\ fatal_error
    /\ UNCHANGED <<blocked_on, PENDING_SIGNALS, preempt_pending, interruptVars, timerVars,
                   mutexVars, semVars, frameVars, waitVars>>

\* timer_enable for timer k with record tm: a reload of 0 fires at once.
\* The caller has excluded a timer that would raise its error.
timer_enable(k, tm) ==
    IF tm.reload = 0
    THEN /\ timers' = [timers EXCEPT ![k] = timer_process_one(tm, PENDING_SIGNALS[tm.task_id])]
         /\ signal_send_set({tm.task_id}, [t \in {tm.task_id} |-> tm.signal_set])
    ELSE /\ timers' = [timers EXCEPT ![k] = timer_start(tm)]
         /\ UNCHANGED <<blocked_on, PENDING_SIGNALS, preempt_pending>>

timer_oneshot(k, timeout) ==
    IF timeout = 0
    THEN timer_enable(k, [timers[k] EXCEPT !.reload = 0])
    ELSE /\ timers' = [timers EXCEPT ![k] = timer_start_oneshot(@, timeout)]
         /\ UNCHANGED <<blocked_on, PENDING_SIGNALS, preempt_pending>>

-----------------------------------------------------------------------------
(* Waiting and resuming. *)

\* entry_<task>: preempt_enable, then the task's function.
Entry(t) ==
    /\ Running(t, "entry")
    /\ Return(t)
    /\ UNCHANGED <<blocked_on, PENDING_SIGNALS, preempt_pending, interruptVars, timerVars,
                   mutexVars, semVars, waitVars, cpuVars>>

\* Mutant: a timed wait does not name the holder it waits for.
BlockTimedOnNone(t) ==
    /\ pc[t] \in BlockLabels
    /\ Running(t, pc[t])
    /\ Frame(t, WaitOf[pc[t]], obj[t], arg[t])
    /\ signal_wait_set_blocked_on(t, {TASK_TIMER}, TASK_ID_NONE)
    /\ UNCHANGED <<PENDING_SIGNALS, interruptVars, timerVars, mutexVars, semVars>>

\* The signal_wait of the calls that have started the task timer.
BlockTimed(t) ==
    /\ pc[t] \in BlockLabels
    /\ Running(t, pc[t])
    /\ Frame(t, WaitOf[pc[t]], obj[t], arg[t])
    /\ signal_wait_set_blocked_on(t, {TASK_TIMER},
           IF pc[t] = "lock_timeout_block" THEN holder[obj[t]] ELSE TASK_ID_NONE)
    /\ UNCHANGED <<PENDING_SIGNALS, interruptVars, timerVars, mutexVars, semVars>>

\* Mutant: the second block does not name the blocker.
WaitAgainOnNone(t) ==
    /\ pc[t] \in Waits
    /\ Running(t, pc[t])
    /\ ~signal_peek(t, requested_signals[t])
    /\ sched_set_blocked_on(t, TASK_ID_NONE)
    /\ yield
    /\ UNCHANGED <<PENDING_SIGNALS, interruptVars, timerVars, mutexVars, semVars, frameVars, waitVars>>

\* A task resumed in signal_wait_set_blocked_on without any requested signal
\* blocks again, on the blocker it was first called with.
WaitAgain(t) ==
    /\ pc[t] \in Waits
    /\ Running(t, pc[t])
    /\ ~signal_peek(t, requested_signals[t])
    /\ sched_set_blocked_on(t, blocker[t])
    /\ yield
    /\ UNCHANGED <<PENDING_SIGNALS, interruptVars, timerVars, mutexVars, semVars, frameVars, waitVars>>

\* A task resumed with a requested signal receives it; the timed calls then
\* disable the task timer.
WaitEnd(t) ==
    /\ pc[t] \in Waits
    /\ Running(t, pc[t])
    /\ signal_peek(t, requested_signals[t])
    /\ signal_recv(t, requested_signals[t])
    /\ timers' = IF pc[t] \in TimedWaits
                 THEN [timers EXCEPT ![task_timers(t)].enabled = FALSE]
                 ELSE timers
    /\ IF AfterWait[pc[t]] = "app"
       THEN Return(t) /\ EndTimeout(t)
       ELSE Frame(t, AfterWait[pc[t]], obj[t], arg[t]) /\ UNCHANGED time_left
    /\ requested_signals' = [requested_signals EXCEPT ![t] = {}]
    /\ blocker' = [blocker EXCEPT ![t] = TASK_ID_NONE]
    /\ UNCHANGED <<blocked_on, preempt_pending, timer_current_ticks, interruptVars, mutexVars,
                   semVars, cpuVars>>

-----------------------------------------------------------------------------
(* The mutex API. *)

mutex_lock(t) == \E m \in Mutexes :
    /\ Calling(t, "mutex_lock")
    /\ \/ holder[m] = t /\ Fatal
       \/ /\ holder[m] # t
          /\ Frame(t, "lock", m, 0)
          /\ UNCHANGED <<blocked_on, PENDING_SIGNALS, preempt_pending, interruptVars, timerVars,
                         mutexVars, semVars, waitVars, cpuVars>>

\* The loop of mutex_lock: try to lock, or wait on the holder.
mutex_lock_loop(t) ==
    /\ Running(t, "lock")
    /\ \/ /\ mutex_take(obj[t], t)
          /\ Return(t)
          /\ UNCHANGED <<blocked_on, preempt_pending, waitVars, cpuVars>>
       \/ /\ mutex_wait(obj[t], t)
          /\ Frame(t, "lock_wait", obj[t], 0)
          /\ signal_wait_set_blocked_on(t, {TASK_TIMER}, holder[obj[t]])
    /\ UNCHANGED <<PENDING_SIGNALS, interruptVars, timerVars, semVars>>

\* absolute_timeout is read before preempt_disable.
mutex_lock_timeout(t) == \E m \in Mutexes, timeout \in Timeouts :
    /\ Calling(t, "mutex_lock_timeout")
    /\ \/ holder[m] = t /\ Fatal
       \/ /\ holder[m] # t
          /\ Frame(t, "lock_timeout_call", m, (timer_current_ticks + timeout) % TicksAbsoluteMod)
          /\ StartTimeout(t, timeout)
          /\ UNCHANGED <<blocked_on, PENDING_SIGNALS, preempt_pending, interruptVars, timers,
                         timer_current_ticks, mutexVars, semVars, waitVars, cpuVars>>

\* preempt_disable of the API functions that read a local before it.
PreemptDisable(t) ==
    /\ \/ RunningEnabled(t, "lock_timeout_call") /\ pc' = [pc EXCEPT ![t] = "lock_timeout"]
       \/ RunningEnabled(t, "sem_timeout_call") /\ pc' = [pc EXCEPT ![t] = "sem_timeout"]
    /\ UNCHANGED <<obj, arg, blocked_on, PENDING_SIGNALS, preempt_pending, interruptVars,
                   timerVars, mutexVars, semVars, waitVars, cpuVars>>

\* The time left of a timed call, converted to TicksRelative.
Remaining(t) == (arg[t] - timer_current_ticks) % TicksTimeoutMod

\* The loop of mutex_lock_timeout: true, one more timed wait, or false.
mutex_lock_timeout_loop(t) ==
    /\ Running(t, "lock_timeout")
    /\ \/ /\ mutex_take(obj[t], t)
          /\ Return(t)
          /\ EndTimeout(t)
          /\ UNCHANGED <<blocked_on, PENDING_SIGNALS, preempt_pending, timers>>
       \/ /\ arg[t] > timer_current_ticks
          /\ mutex_wait(obj[t], t)
          /\ timer_oneshot(task_timers(t), Remaining(t))
          /\ Frame(t, "lock_timeout_block", obj[t], arg[t])
          /\ UNCHANGED time_left
       \/ /\ arg[t] <= timer_current_ticks
          /\ ~MutexFree(obj[t])
          /\ Return(t)
          /\ EndTimeout(t)
          /\ UNCHANGED <<blocked_on, PENDING_SIGNALS, preempt_pending, timers, mutexVars>>
    /\ UNCHANGED <<timer_current_ticks, interruptVars, semVars, waitVars, cpuVars>>

mutex_unlock(t) == \E m \in Mutexes :
    /\ Calling(t, "mutex_unlock")
    /\ \/ holder[m] # t /\ Fatal
       \/ /\ holder[m] = t
          /\ signal_send_set(MutexWaiters(m), [u \in MutexWaiters(m) |-> {TASK_TIMER}])
          /\ mutex_release(m)
          /\ UNCHANGED <<interruptVars, timerVars, semVars, frameVars, waitVars, cpuVars>>

mutex_try_lock(t) == \E m \in Mutexes :
    /\ Calling(t, "mutex_try_lock")
    /\ mutex_take(m, t)
    /\ UNCHANGED <<blocked_on, PENDING_SIGNALS, preempt_pending, interruptVars, timerVars,
                   semVars, frameVars, waitVars, cpuVars>>

-----------------------------------------------------------------------------
(* The semaphore API. *)

sem_wait(t) == \E s \in Sems :
    /\ Calling(t, "sem_wait")
    /\ Frame(t, "sem", s, 0)
    /\ UNCHANGED <<blocked_on, PENDING_SIGNALS, preempt_pending, interruptVars, timerVars,
                   mutexVars, semVars, waitVars, cpuVars>>

sem_wait_loop(t) ==
    /\ Running(t, "sem")
    /\ \/ /\ sem_take(obj[t])
          /\ Return(t)
          /\ UNCHANGED <<blocked_on, preempt_pending, waitVars, cpuVars>>
       \/ /\ sem_register(obj[t], t)
          /\ Frame(t, "sem_wait", obj[t], 0)
          /\ signal_wait_set_blocked_on(t, {TASK_TIMER}, TASK_ID_NONE)
    /\ UNCHANGED <<PENDING_SIGNALS, interruptVars, timerVars, mutexVars>>

sem_wait_timeout(t) == \E s \in Sems, timeout \in Timeouts :
    /\ Calling(t, "sem_wait_timeout")
    /\ Frame(t, "sem_timeout_call", s, (timer_current_ticks + timeout) % TicksAbsoluteMod)
    /\ StartTimeout(t, timeout)
    /\ UNCHANGED <<blocked_on, PENDING_SIGNALS, preempt_pending, interruptVars, timers,
                   timer_current_ticks, mutexVars, semVars, waitVars, cpuVars>>

sem_wait_timeout_loop(t) ==
    /\ Running(t, "sem_timeout")
    /\ \/ /\ sem_take(obj[t])
          /\ Return(t)
          /\ EndTimeout(t)
          /\ UNCHANGED <<blocked_on, PENDING_SIGNALS, preempt_pending, timers>>
       \/ /\ arg[t] > timer_current_ticks
          /\ sem_register(obj[t], t)
          /\ timer_oneshot(task_timers(t), Remaining(t))
          /\ Frame(t, "sem_timeout_block", obj[t], arg[t])
          /\ UNCHANGED time_left
       \/ /\ arg[t] <= timer_current_ticks
          /\ sem_value[obj[t]] = 0
          /\ Return(t)
          /\ EndTimeout(t)
          /\ UNCHANGED <<blocked_on, PENDING_SIGNALS, preempt_pending, timers, semVars>>
    /\ UNCHANGED <<timer_current_ticks, interruptVars, mutexVars, waitVars, cpuVars>>

sem_post(t) == \E s \in Sems :
    /\ Calling(t, "sem_post")
    /\ \/ SemPostFatal(s) /\ Fatal
       \/ /\ ~SemPostFatal(s)
          /\ signal_send_set(SemWoken(s), [u \in SemWoken(s) |-> {TASK_TIMER}])
          /\ sem_add(s)
          /\ UNCHANGED <<interruptVars, timerVars, mutexVars, frameVars, waitVars, cpuVars>>

sem_try_wait(t) == \E s \in Sems :
    /\ Calling(t, "sem_try_wait")
    /\ sem_take(s)
    /\ UNCHANGED <<blocked_on, PENDING_SIGNALS, preempt_pending, interruptVars, timerVars,
                   mutexVars, frameVars, waitVars, cpuVars>>

\* sem_max_init never disables preemption: its checks come first ...
sem_max_init(t) == \E s \in Sems, max \in SemValue :
    /\ Calling(t, "sem_max_init")
    /\ SemEnableMax
    /\ \/ (max = 0 \/ sem_max[s] # 0) /\ Fatal
       \/ /\ max # 0 /\ sem_max[s] = 0
          /\ Frame(t, "max_init_call", s, max)
          /\ UNCHANGED <<blocked_on, PENDING_SIGNALS, preempt_pending, interruptVars, timerVars,
                         mutexVars, semVars, waitVars, cpuVars>>

\* ... and its store second.
sem_max_init_store(t) ==
    /\ RunningEnabled(t, "max_init_call")
    /\ sem_max' = [sem_max EXCEPT ![obj[t]] = arg[t]]
    /\ Return(t)
    /\ UNCHANGED <<sem_value, sem_waiters, blocked_on, PENDING_SIGNALS, preempt_pending,
                   interruptVars, timerVars, mutexVars, waitVars, cpuVars>>

-----------------------------------------------------------------------------
(* The signal API and sleep. *)

signal_wait_set(t) == \E requested \in (SUBSET AppSignals) \ {{}} :
    /\ Calling(t, "signal_wait_set")
    /\ Frame(t, "signal_wait", NoObject, 0)
    /\ signal_wait_set_blocked_on(t, requested, TASK_ID_NONE)
    /\ UNCHANGED <<PENDING_SIGNALS, interruptVars, timerVars, mutexVars, semVars>>

signal_poll_set(t) == \E requested \in (SUBSET AppSignals) \ {{}} :
    /\ Calling(t, "signal_poll_set")
    /\ signal_recv(t, requested)
    /\ UNCHANGED <<blocked_on, preempt_pending, interruptVars, timerVars, mutexVars, semVars,
                   frameVars, waitVars, cpuVars>>

signal_send(t) == \E task_id \in Tasks, sigs \in (SUBSET AppSignals) \ {{}} :
    /\ Calling(t, "signal_send_set")
    /\ signal_send_set({task_id}, [u \in {task_id} |-> sigs])
    /\ UNCHANGED <<interruptVars, timerVars, mutexVars, semVars, frameVars, waitVars, cpuVars>>

sleep(t) == \E ticks \in Timeouts :
    /\ Calling(t, "sleep")
    /\ timer_oneshot(task_timers(t), ticks)
    /\ Frame(t, "sleep_block", NoObject, 0)
    /\ StartTimeout(t, ticks)
    /\ UNCHANGED <<timer_current_ticks, interruptVars, mutexVars, semVars, waitVars, cpuVars>>

-----------------------------------------------------------------------------
(* The timer API, on the configured timers. *)

\* A step of the timer API that only rewrites timer k.
SetTimer(k, tm) ==
    /\ timers' = [timers EXCEPT ![k] = tm]
    /\ UNCHANGED <<blocked_on, PENDING_SIGNALS, preempt_pending>>

TimerApiFrame ==
    UNCHANGED <<timer_current_ticks, time_left, interruptVars, mutexVars, semVars, frameVars, waitVars, cpuVars>>

timer_enable_call(t) == \E k \in UserTimers :
    /\ Calling(t, "timer_enable")
    /\ \/ timers[k].reload = 0 /\ timers[k].error /\ Fatal
       \/ ~(timers[k].reload = 0 /\ timers[k].error) /\ timer_enable(k, timers[k]) /\ TimerApiFrame

timer_oneshot_call(t) == \E k \in UserTimers, timeout \in Timeouts :
    /\ Calling(t, "timer_oneshot")
    /\ \/ timeout = 0 /\ timers[k].error /\ Fatal
       \/ ~(timeout = 0 /\ timers[k].error) /\ timer_oneshot(k, timeout) /\ TimerApiFrame

timer_disable(t) == \E k \in UserTimers :
    /\ Calling(t, "timer_disable")
    /\ SetTimer(k, [timers[k] EXCEPT !.enabled = FALSE])
    /\ TimerApiFrame

timer_check_overflow(t) == \E k \in UserTimers :
    /\ Calling(t, "timer_check_overflow")
    /\ SetTimer(k, [timers[k] EXCEPT !.overflow = FALSE])
    /\ TimerApiFrame

timer_reload_set(t) == \E k \in UserTimers, reload \in Timeouts :
    /\ Calling(t, "timer_reload_set")
    /\ SetTimer(k, [timers[k] EXCEPT !.reload = reload])
    /\ TimerApiFrame

timer_signal_set(t) == \E k \in UserTimers, task_id \in Tasks, sigs \in (SUBSET AppSignals) \ {{}} :
    /\ Calling(t, "timer_signal_set")
    /\ SetTimer(k, [timers[k] EXCEPT !.error = FALSE, !.task_id = task_id, !.signal_set = sigs])
    /\ TimerApiFrame

timer_error_set(t) == \E k \in UserTimers, error \in BOOLEAN :
    /\ Calling(t, "timer_error_set")
    /\ SetTimer(k, [timers[k] EXCEPT !.error = error])
    /\ TimerApiFrame

-----------------------------------------------------------------------------
(* The scheduler: rtos_internal_interrupt_event_get_next. *)

\* rtos_internal_pendsv_handler clears PendSV before it calls the scheduler.
Preempt ==
    /\ phase = "task"
    /\ pc[current_task] \in Preemptible
    /\ preempt_pending
    /\ preempt_pending' = FALSE
    /\ phase' = "events"
    /\ UNCHANGED <<blocked_on, PENDING_SIGNALS, current_task, system_is_idle, interruptVars,
                   timerVars, mutexVars, semVars, frameVars, waitVars>>

interrupt_event_process ==
    /\ phase = "events"
    /\ phase' = "ticks"
    /\ interrupt_event' = {}
    /\ urgent' = urgent \ Events
    /\ signal_send_set(EventTasks(EventTask, interrupt_event), EventSends(EventTask, interrupt_event))
    /\ UNCHANGED <<timer_pending_ticks, current_task, system_is_idle, timerVars, mutexVars,
                   semVars, frameVars, waitVars>>

\* At most one tick is pending, or ERROR_ID_TICK_OVERFLOW; an expired timer
\* with an error_id is fatal too.
timer_tick_process ==
    /\ phase = "ticks"
    /\ timer_pending_ticks' = 0
    /\ urgent' = urgent \ {TICK}
    /\ LET ticks == (timer_current_ticks + 1) % TicksAbsoluteMod
           K == Expired(ticks)
       IN  \/ /\ timer_pending_ticks = 0
              /\ phase' = "pick"
              /\ UNCHANGED <<blocked_on, PENDING_SIGNALS, preempt_pending, timerVars>>
           \/ /\ timer_pending_ticks > 1
              /\ phase' = "fatal"
              /\ UNCHANGED <<blocked_on, PENDING_SIGNALS, preempt_pending, timerVars>>
           \/ /\ timer_pending_ticks = 1
              /\ \E k \in K : timers[k].error
              /\ phase' = "fatal"
              /\ timer_current_ticks' = ticks
              /\ CountTick(ticks, {t \in Tasks : pc[t] \in TimedLabels})
              /\ UNCHANGED <<blocked_on, PENDING_SIGNALS, preempt_pending, timers>>
           \/ /\ timer_pending_ticks = 1
              /\ \A k \in K : ~timers[k].error
              /\ phase' = "pick"
              /\ timer_current_ticks' = ticks
              /\ CountTick(ticks, {t \in Tasks : pc[t] \in TimedLabels})
              /\ timers' = TimersAfter(K)
              /\ signal_send_set(TimerTasks(K), TimerSignals(K))
    /\ UNCHANGED <<interrupt_event, current_task, system_is_idle, mutexVars, semVars,
                   frameVars, waitVars>>

\* sched_get_next and the context switch, or the turn towards idling.
sched_pick ==
    /\ phase = "pick"
    /\ LET next == sched_get_next(blocked_on)
       IN  \/ /\ next \in Tasks
              /\ phase' = "task"
              /\ current_task' = next
              /\ system_is_idle' = FALSE
           \/ /\ next = TASK_ID_NONE
              /\ phase' = "wait"
              /\ system_is_idle' = TRUE
              /\ UNCHANGED current_task
           \/ /\ next = SCHED_DIVERGES
              /\ phase' = "diverged"
              /\ UNCHANGED <<current_task, system_is_idle>>
    /\ UNCHANGED <<blocked_on, PENDING_SIGNALS, preempt_pending, interruptVars, timerVars,
                   mutexVars, semVars, frameVars, waitVars>>

\* Mutant: wfi without the check.
interrupt_event_wait_unchecked ==
    /\ phase = "wait"
    /\ phase' = "idle"
    /\ UNCHANGED <<blocked_on, PENDING_SIGNALS, preempt_pending, current_task, system_is_idle,
                   interruptVars, timerVars, mutexVars, semVars, frameVars, waitVars>>

\* Interrupts are masked between the check and wfi.
interrupt_event_wait ==
    /\ phase = "wait"
    /\ phase' = IF interrupt_event # {} \/ timer_pending_ticks # 0 THEN "events" ELSE "idle"
    /\ UNCHANGED <<blocked_on, PENDING_SIGNALS, preempt_pending, current_task, system_is_idle,
                   interruptVars, timerVars, mutexVars, semVars, frameVars, waitVars>>

-----------------------------------------------------------------------------
(* Interrupt handlers.  A handler that returns true pends PendSV; wfi ends. *)

\* Mutant: the return value replaces the PendSV bit.
HandlerSetsPendSV(preempt) ==
    /\ phase # "fatal"
    /\ phase' = IF phase = "idle" THEN "events" ELSE phase
    /\ preempt_pending' = preempt
    /\ UNCHANGED <<blocked_on, PENDING_SIGNALS, current_task, system_is_idle, timerVars,
                   mutexVars, semVars, frameVars, waitVars>>

\* Mutant: the return value is ignored.
HandlerIgnored(preempt) ==
    /\ phase # "fatal"
    /\ phase' = IF phase = "idle" THEN "events" ELSE phase
    /\ UNCHANGED <<preempt_pending, blocked_on, PENDING_SIGNALS, current_task, system_is_idle,
                   timerVars, mutexVars, semVars, frameVars, waitVars>>

HandlerReturns(preempt) ==
    /\ phase # "fatal"
    /\ phase' = IF phase = "idle" THEN "events" ELSE phase
    /\ preempt_pending' = (preempt_pending \/ preempt)
    /\ UNCHANGED <<blocked_on, PENDING_SIGNALS, current_task, system_is_idle, timerVars,
                   mutexVars, semVars, frameVars, waitVars>>

interrupt_event_raise(e, preempt) ==
    /\ interrupt_event' = interrupt_event \cup {e}
    /\ urgent' = IF preempt THEN urgent \cup {e} ELSE urgent
    /\ UNCHANGED timer_pending_ticks
    /\ HandlerReturns(preempt)

timer_tick(preempt) ==
    /\ preempt \in TickReturns
    /\ timer_pending_ticks' = IF timer_pending_ticks < 2 THEN timer_pending_ticks + 1
                              ELSE timer_pending_ticks
    /\ urgent' = IF preempt THEN urgent \cup {TICK} ELSE urgent
    /\ UNCHANGED interrupt_event
    /\ HandlerReturns(preempt)

-----------------------------------------------------------------------------
\* fatal_error does not return and the diverged loop does not end.
Stopped ==
    /\ phase \in {"fatal", "diverged"}
    /\ UNCHANGED vars

TaskStep(t) ==
    \/ Entry(t) \/ BlockTimed(t) \/ WaitAgain(t) \/ WaitEnd(t) \/ PreemptDisable(t)
    \/ mutex_lock_loop(t) \/ mutex_lock_timeout_loop(t)
    \/ sem_wait_loop(t) \/ sem_wait_timeout_loop(t) \/ sem_max_init_store(t)

AppStep(t) ==
    \/ mutex_lock(t) \/ mutex_lock_timeout(t) \/ mutex_unlock(t) \/ mutex_try_lock(t)
    \/ sem_wait(t) \/ sem_wait_timeout(t) \/ sem_post(t) \/ sem_try_wait(t) \/ sem_max_init(t)
    \/ signal_wait_set(t) \/ signal_poll_set(t) \/ signal_send(t) \/ sleep(t)
    \/ timer_enable_call(t) \/ timer_oneshot_call(t) \/ timer_disable(t)
    \/ timer_check_overflow(t) \/ timer_reload_set(t) \/ timer_signal_set(t)
    \/ timer_error_set(t)

SchedStep ==
    Preempt \/ interrupt_event_process \/ timer_tick_process \/ sched_pick \/ interrupt_event_wait

Interrupt ==
    \E preempt \in BOOLEAN : timer_tick(preempt) \/ \E e \in Events : interrupt_event_raise(e, preempt)

Next ==
    \/ \E t \in Tasks : TaskStep(t) \/ AppStep(t)
    \/ SchedStep
    \/ Interrupt
    \/ Stopped

Spec == Init /\ [][Next]_vars

(***************************************************************************)
(* Fairness: the CPU executes RTOS code without stopping, takes a pending  *)
(* PendSV once it is enabled, and the tick interrupt keeps coming from a   *)
(* handler that asks for preemption.  Application code may run for ever    *)
(* between two calls.                                                      *)
(***************************************************************************)
FairSpec ==
    /\ Spec
    /\ WF_vars(SchedStep \/ \E t \in Tasks : TaskStep(t))
    /\ WF_vars(timer_tick(TRUE))

-----------------------------------------------------------------------------
(* Safety. *)

\* Task t sleeps in signal_wait_set_blocked_on: none of its signals is pending.
Asleep(t) == pc[t] \in Waits /\ ~signal_peek(t, requested_signals[t])

\* The task that t waits for, read off the mutexes and not off the scheduler.
WaitsFor(t) == IF pc[t] \in MutexWaits THEN holder[obj[t]] ELSE TASK_ID_NONE

\* Which task runs: whenever a task executes and no preemption is pending, it
\* is the one that sched_get_next would pick.  unblock must pend a preemption
\* after every change of the scheduler's state, in whichever component.
RunningIsScheduled ==
    (phase = "task" /\ ~preempt_pending) => current_task = sched_get_next(blocked_on)

\* blocked_on is a cache of the mutexes' holders, written when a task blocks
\* and never when a mutex changes hands.  It is exact: a task that is blocked
\* is asleep, and blocked on the current holder of the mutex it waits for.
BlockedOnIsExact ==
    \A t \in Tasks : blocked_on[t] # t => (Asleep(t) /\ blocked_on[t] = WaitsFor(t))

\* Priority inheritance: application code runs only in the task that the most
\* urgent task that can make progress is waiting for, through any number of
\* mutexes (or in that task itself).
PriorityInheritance ==
    (phase = "task" /\ ~preempt_pending /\ pc[current_task] = "app") =>
        current_task = sched_get_next([t \in Tasks |-> IF Asleep(t) THEN WaitsFor(t) ELSE t])

\* No wakeup of mutex_unlock is lost: a task asleep in a lock call is
\* registered with the mutex, and the mutex is held by the task it was
\* blocked on first, which is another one.
MutexWaitersRegistered ==
    \A t \in Tasks : (pc[t] \in MutexWaits /\ Asleep(t)) =>
        /\ mutex_waiters[t] = obj[t]
        /\ holder[obj[t]] = blocker[t]
        /\ holder[obj[t]] \notin {t, TASK_ID_NONE}

\* No wakeup of sem_post is lost: a task asleep in a wait call is registered
\* with the semaphore, and there is nothing to take.
SemWaitersRegistered ==
    \A t \in Tasks : (pc[t] \in SemWaits /\ Asleep(t)) =>
        /\ sem_waiters[t] = obj[t]
        /\ sem_value[obj[t]] = 0

\* A task asleep in a call with a timeout has its timer running, and it expires
\* when exactly the time of the call has passed, not when the code's absolute
\* tick says so: whatever woke the task before, however long it was preempted,
\* and wherever the counters wrapped.  Excepted is a call that was still under
\* way when the counter wrapped after its timeout (see LateWaitIsOver).
TimedWaitsArmed ==
    phase # "fatal" =>
        \A t \in Tasks : (pc[t] \in TimedWaits \cup {"sleep_wait"} /\ Asleep(t)) => ExpiresInTime(t)

\* No task sleeps in a call with a timeout once its time is up.
LateWaitIsOver ==
    \A t \in Tasks : (pc[t] \in TimedWaits /\ Asleep(t)) => time_left[t] > 0

\* Whatever an interrupt handler raises with a request for preemption is
\* about to be processed: it falls between no two steps of the scheduler.
NoLostPreemption ==
    phase \notin {"fatal", "diverged"} =>
        /\ urgent \cap Events # {} => preempt_pending \/ phase = "events"
        /\ TICK \in urgent => preempt_pending \/ phase \in {"events", "ticks"}

\* Tasks of which each sleeps in a lock of a mutex that the next one holds.
Deadlocked(S) ==
    /\ S # {}
    /\ \A t \in S : pc[t] \in MutexWaits /\ Asleep(t) /\ holder[obj[t]] \in S

\* sched_get_next runs for ever only when tasks wait for each other's mutexes:
\* no stale entry of blocked_on, and no unlock or timeout that is still to be
\* noticed by its waiter, closes a cycle.
DivergesOnlyInDeadlock ==
    phase = "diverged" => \E S \in SUBSET Tasks : Deadlocked(S)

\* The CPU sleeps in wfi only when nothing is left to do.
IdleHasNoWork ==
    phase = "idle" =>
        /\ interrupt_event = {} /\ timer_pending_ticks = 0
        /\ \A t \in Tasks : Asleep(t)

\* A task in sleep is not woken while its timer is still running.
SleepIsFullLength ==
    \A t \in Tasks : (pc[t] = "sleep_wait" /\ ~Asleep(t)) => ~timers[task_timers(t)].enabled

\* A semaphore never holds more than its maximum.
SemValueWithinMax ==
    \A s \in Sems : (SemEnableMax /\ sem_max[s] # 0) => sem_value[s] <= sem_max[s]

\* The value of a semaphore goes down only when a task takes from it, so no
\* sem_post is undone.
SemValueIsKept ==
    [][\A s \in Sems : sem_value'[s] < sem_value[s] =>
          \E t \in Tasks : sem_wait_loop(t) \/ sem_wait_timeout_loop(t) \/ sem_try_wait(t)]_vars

\* An enabled timer expires within the range of its counter: its expiry is
\* never the tick that is already processed, which comes again only after the
\* counter has wrapped.
TimersFireInRange ==
    phase # "fatal" =>
        \A k \in TimerIds : timers[k].enabled => timers[k].expiry # current_timeout(timer_current_ticks)

-----------------------------------------------------------------------------
(* Liveness, under FairSpec. *)

\* A task asleep in a call with a timeout is woken, whatever the other tasks do.
TimedWaitEnds ==
    \A t \in Tasks : (pc[t] \in TimedWaits /\ Asleep(t)) ~> (~Asleep(t) \/ phase = "fatal")

\* An event raised with a request for preemption is handled.
UrgentEventsHandled ==
    \A e \in Events : (e \in urgent) ~> (e \notin urgent \/ phase \in {"fatal", "diverged"})
=============================================================================

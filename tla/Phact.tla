-------------------------------- MODULE Phact -------------------------------
(***************************************************************************)
(* The Phact variant: preemptive tasks on the priority ceiling scheduler,  *)
(* with signals, task timers, interrupt events and mutexes, as             *)
(* components/phact composes them, on the ppce500 context switch           *)
(* (context-switch-preempt-ppce500 and packages/ppce500/vectable.s).       *)
(*                                                                         *)
(* Unlike armv7m, this platform has no deferred interrupt: preemption is   *)
(* enabled and pended by two flags in memory, and a handler that asks for  *)
(* preemption enters the scheduler itself, unless preemption is disabled.  *)
(* Interrupt events are cleared by a load and a store, with interrupts     *)
(* enabled in between.                                                     *)
(*                                                                         *)
(* A step is one stretch of code with preemption disabled and without a    *)
(* yield, up to the preempt_enable that ends it, or a part of the          *)
(* scheduler.  Such a stretch does not read what handlers write.           *)
(***************************************************************************)
EXTENDS SchedPrioCeiling, Timer, InterruptEvent

CONSTANTS Calls,            \* Calls[t]: the API functions that task t calls
          TaskMutexes,      \* TaskMutexes[t]: the mutexes it calls them on
          Recipients,       \* the tasks that signals are sent to
          Timeouts,         \* the timeouts that tasks pass to the API
          TickReturns       \* whether the tick handler may ask for preemption

\* The ceiling of a mutex is above every task that locks it.
ASSUME PhactAssumption ==
    /\ NumUserTimers = 0
    /\ Timeouts \subseteq TicksRelative
    /\ TickReturns \subseteq BOOLEAN
    /\ Recipients \subseteq Tasks
    /\ TaskMutexes \in [Tasks -> SUBSET Mutexes]
    /\ \A t \in Tasks : \A m \in TaskMutexes[t] : mutex_to_index[m] < task_to_index[t]

VARIABLES phase,            \* what the CPU is doing, see Phases
          current_task,
          preempt_disabled,
          preempt_pending,
          return_disabled,  \* local return_with_preempt_disabled of yield_common
          restore_disabled, \* restore_disabled[t]: PREEMPT_RESTORE_DISABLED in the
                            \* context of t
          tmp,              \* local of interrupt_event_process: its copy
          loaded,           \* interrupt_event as loaded by &=
          raised,           \* events raised and not handled since (history)
          pc,               \* where each task is in the RTOS code
          obj,              \* local m: the mutex of the call
          arg,              \* local absolute_timeout
          requested_signals \* local of signal_wait_set

\* The CPU runs current_task, or on its stack the scheduler: a part of
\* interrupt_event_process, timer_tick_process or sched_get_next.  There is no
\* idle phase, because sched_get_next always returns a task.
Phases == {"task", "events", "load", "store", "ticks", "pick", "fatal"}

\* Inside signal_wait_set, for each of its callers.
MutexWaits == {"lock_wait", "lock_timeout_wait"}
TimerWaits == MutexWaits \cup {"sleep_wait"}
Waits == TimerWaits \cup {"signal_wait"}

Labels == Waits \cup {"entry", "app", "lock", "lock_timeout_call", "lock_timeout", "enable"}

\* Inside a call with an absolute timeout.
TimedLabels == {"lock_timeout_call", "lock_timeout", "lock_timeout_wait"}

\* Where a wait continues once its signal is received.
AfterWait == [lock_wait |-> "lock", lock_timeout_wait |-> "lock_timeout",
              sleep_wait |-> "enable", signal_wait |-> "enable"]

NoObject == -1

eventVars == <<interrupt_event, tmp, loaded, raised>>
timerVars == <<timers, timer_current_ticks, time_left>>
mutexVars == <<holder, mutex_waiters>>
frameVars == <<pc, obj, arg>>
switchVars == <<phase, current_task, return_disabled, restore_disabled>>
vars == <<locked_by, PENDING_SIGNALS, preempt_disabled, preempt_pending, eventVars, timerVars,
          timer_pending_ticks, mutexVars, frameVars, requested_signals, switchVars>>

\* The type invariant: every variable, and every local of the call that a
\* task is in, holds a value of its C type.
TypeOK ==
    /\ SchedTypeOK /\ SignalTypeOK /\ TimerTypeOK /\ TimeLeftTypeOK /\ MutexTypeOK /\ EventTypeOK
    /\ phase \in Phases
    /\ current_task \in Tasks
    /\ {preempt_disabled, preempt_pending, return_disabled} \subseteq BOOLEAN
    /\ restore_disabled \in [Tasks -> BOOLEAN]
    /\ {tmp, loaded, raised} \subseteq SUBSET Events
    /\ pc \in [Tasks -> Labels]
    /\ obj \in [Tasks -> Mutexes \cup {NoObject}]
    /\ arg \in [Tasks -> TicksAbsolute]
    /\ requested_signals \in [Tasks -> SUBSET Signals]

\* start: every task runnable at its entry point, and a switch to task 0.
Init ==
    /\ SchedInit
    /\ PENDING_SIGNALS = [t \in Tasks |-> {}]
    /\ timers = [k \in TimerIds |-> TaskTimer(k)]
    /\ timer_current_ticks = 0
    /\ timer_pending_ticks = 0
    /\ time_left = [t \in Tasks |-> 0]
    /\ MutexInit
    /\ interrupt_event = {} /\ tmp = {} /\ loaded = {} /\ raised = {}
    /\ phase = "task"
    /\ current_task = 0
    /\ preempt_disabled = TRUE
    /\ preempt_pending = FALSE
    /\ return_disabled = FALSE
    /\ restore_disabled = [t \in Tasks |-> TRUE]
    /\ pc = [t \in Tasks |-> "entry"]
    /\ obj = [t \in Tasks |-> NoObject]
    /\ arg = [t \in Tasks |-> 0]
    /\ requested_signals = [t \in Tasks |-> {}]

-----------------------------------------------------------------------------
(* The calls that the components make of each other. *)

\* Task t executes at label.
Running(t, label) ==
    /\ phase = "task"
    /\ t = current_task
    /\ pc[t] = label

\* Task t is in application code and calls the API function name, which
\* begins with preempt_disable.
Calling(t, name) == Running(t, "app") /\ name \in Calls[t]

Disabling(t, name) == Calling(t, name) /\ preempt_disabled' = TRUE

\* The stack frame of t: its position and the locals of the call.
Frame(t, label, m, a) ==
    /\ pc' = [pc EXCEPT ![t] = label]
    /\ obj' = [obj EXCEPT ![t] = m]
    /\ arg' = [arg EXCEPT ![t] = a]

\* The call has come to its preempt_enable.
Finish(t) == Frame(t, "enable", NoObject, 0)

\* unblock, for every task of T, also pends a preemption.
signal_send_set(T, sigs) ==
    /\ signal_set_pending(T, sigs)
    /\ sched_set_runnable(T)
    /\ preempt_pending' = (preempt_pending \/ T # {})

\* yield_common enters the scheduler.
yield_common(disabled) ==
    /\ phase' = "events"
    /\ return_disabled' = disabled
    /\ UNCHANGED <<current_task, restore_disabled>>

\* block, the only caller of sched_set_blocked.
block(t) == sched_set_blocked(t) /\ yield_common(TRUE)

\* signal_wait_set, up to its yield or its first block.
signal_wait_set(t, requested) ==
    /\ requested_signals' = [requested_signals EXCEPT ![t] = requested]
    /\ IF signal_peek(t, requested)
       THEN yield_common(TRUE) /\ UNCHANGED locked_by
       ELSE block(t)

\* A failed api_assert.
Fatal ==
    /\ phase' = "fatal"
    /\ UNCHANGED <<locked_by, PENDING_SIGNALS, preempt_disabled, preempt_pending, eventVars, timerVars,
                   timer_pending_ticks, mutexVars, frameVars, requested_signals, current_task,
                   return_disabled, restore_disabled>>

\* timer_oneshot on the task timer of t, then signal_wait for its signal.  A
\* timeout of 0 fires at once, which unblocks t and leaves its signal pending.
timed_wait(t, timeout) ==
    LET tm == timers[task_timers(t)]
    IN  /\ requested_signals' = [requested_signals EXCEPT ![t] = {TASK_TIMER}]
        /\ IF timeout = 0
           THEN /\ timers' = [timers EXCEPT ![task_timers(t)] =
                                    timer_process_one([tm EXCEPT !.reload = 0], PENDING_SIGNALS[t])]
                /\ signal_send_set({t}, [u \in {t} |-> {TASK_TIMER}])
                /\ yield_common(TRUE)
           ELSE /\ timers' = [timers EXCEPT ![task_timers(t)] = timer_start_oneshot(tm, timeout)]
                /\ signal_wait_set(t, {TASK_TIMER})
                /\ UNCHANGED <<PENDING_SIGNALS, preempt_pending>>

-----------------------------------------------------------------------------
(* Starting, waiting and resuming. *)

\* entry_<task> begins with preempt_enable.
Entry(t) ==
    /\ Running(t, "entry")
    /\ Finish(t)
    /\ UNCHANGED <<locked_by, PENDING_SIGNALS, preempt_disabled, preempt_pending, eventVars, timerVars,
                   timer_pending_ticks, mutexVars, requested_signals, switchVars>>

\* preempt_enable: with a preemption pending it goes through the scheduler.
preempt_enable(t) ==
    /\ Running(t, "enable")
    /\ Frame(t, "app", NoObject, 0)
    /\ \/ /\ preempt_pending
          /\ yield_common(FALSE)
          /\ UNCHANGED preempt_disabled
       \/ /\ ~preempt_pending
          /\ preempt_disabled' = FALSE
          /\ UNCHANGED switchVars
    /\ UNCHANGED <<locked_by, PENDING_SIGNALS, preempt_pending, eventVars, timerVars,
                   timer_pending_ticks, mutexVars, requested_signals>>

\* A task resumed in signal_wait_set without any requested signal blocks again.
WaitAgain(t) ==
    /\ pc[t] \in Waits
    /\ Running(t, pc[t])
    /\ ~signal_peek(t, requested_signals[t])
    /\ block(t)
    /\ UNCHANGED <<PENDING_SIGNALS, preempt_disabled, preempt_pending, eventVars, timerVars,
                   timer_pending_ticks, mutexVars, frameVars, requested_signals>>

\* The end of signal_wait_set; mutex_core_block_on_timeout then disables the
\* task timer.
signal_wait_return(t) ==
    /\ pc[t] \in Waits
    /\ Running(t, pc[t])
    /\ signal_recv(t, requested_signals[t])
    /\ requested_signals' = [requested_signals EXCEPT ![t] = {}]
    /\ timers' = IF pc[t] = "lock_timeout_wait"
                 THEN [timers EXCEPT ![task_timers(t)].enabled = FALSE]
                 ELSE timers
    /\ IF AfterWait[pc[t]] = "enable"
       THEN Finish(t) /\ EndTimeout(t)
       ELSE Frame(t, AfterWait[pc[t]], obj[t], arg[t]) /\ UNCHANGED time_left
    /\ UNCHANGED <<locked_by, preempt_disabled, preempt_pending, eventVars, timer_current_ticks,
                   timer_pending_ticks, mutexVars, switchVars>>

\* Mutant: whoever is resumed takes its wait to be over.
WaitEndUnchecked(t) == signal_wait_return(t)

\* A task resumed with a requested signal receives it.
WaitEnd(t) == signal_wait_return(t) /\ signal_peek(t, requested_signals[t])

-----------------------------------------------------------------------------
(* The mutex API. *)

\* Mutant: the scheduler does not learn the holder.
mutex_acquire_quietly(t, m) == mutex_take(m, t) /\ UNCHANGED locked_by

\* The internal mutex_try_lock succeeds: also the scheduler learns the holder.
mutex_acquire(t, m) == mutex_take(m, t) /\ sched_set_mutex_locked_by(m, t)

mutex_lock(t) == \E m \in TaskMutexes[t] :
    \/ Calling(t, "mutex_lock") /\ holder[m] = t /\ Fatal
    \/ /\ Disabling(t, "mutex_lock")
       /\ holder[m] # t
       /\ Frame(t, "lock", m, 0)
       /\ UNCHANGED <<locked_by, PENDING_SIGNALS, preempt_pending, eventVars, timerVars,
                      timer_pending_ticks, mutexVars, requested_signals, switchVars>>

mutex_lock_loop(t) ==
    /\ Running(t, "lock")
    /\ \/ /\ mutex_acquire(t, obj[t])
          /\ Finish(t)
          /\ UNCHANGED <<requested_signals, switchVars>>
       \/ /\ mutex_wait(obj[t], t)
          /\ Frame(t, "lock_wait", obj[t], 0)
          /\ signal_wait_set(t, {TASK_TIMER})
    /\ UNCHANGED <<PENDING_SIGNALS, preempt_disabled, preempt_pending, eventVars, timerVars,
                   timer_pending_ticks>>

\* absolute_timeout is read before preempt_disable.
mutex_lock_timeout(t) == \E m \in TaskMutexes[t], timeout \in Timeouts :
    /\ Calling(t, "mutex_lock_timeout")
    /\ \/ holder[m] = t /\ Fatal
       \/ /\ holder[m] # t
          /\ Frame(t, "lock_timeout_call", m, (timer_current_ticks + timeout) % TicksAbsoluteMod)
          /\ StartTimeout(t, timeout)
          /\ UNCHANGED <<locked_by, PENDING_SIGNALS, preempt_disabled, preempt_pending, eventVars, timers,
                         timer_current_ticks, timer_pending_ticks, mutexVars, requested_signals, switchVars>>

PreemptDisable(t) ==
    /\ Running(t, "lock_timeout_call")
    /\ preempt_disabled' = TRUE
    /\ pc' = [pc EXCEPT ![t] = "lock_timeout"]
    /\ UNCHANGED <<obj, arg, locked_by, PENDING_SIGNALS, preempt_pending, eventVars, timerVars,
                   timer_pending_ticks, mutexVars, requested_signals, switchVars>>

\* The time left of the call, converted to TicksRelative.
Remaining(t) == (arg[t] - timer_current_ticks) % TicksTimeoutMod

mutex_lock_timeout_loop(t) ==
    /\ Running(t, "lock_timeout")
    /\ \/ /\ mutex_acquire(t, obj[t])
          /\ Finish(t)
          /\ EndTimeout(t)
          /\ UNCHANGED <<PENDING_SIGNALS, preempt_pending, timers, requested_signals, switchVars>>
       \/ /\ arg[t] > timer_current_ticks
          /\ mutex_wait(obj[t], t)
          /\ Frame(t, "lock_timeout_wait", obj[t], arg[t])
          /\ timed_wait(t, Remaining(t))
          /\ UNCHANGED time_left
       \/ /\ arg[t] <= timer_current_ticks
          /\ ~MutexFree(obj[t])
          /\ Finish(t)
          /\ EndTimeout(t)
          /\ UNCHANGED <<locked_by, PENDING_SIGNALS, preempt_pending, timers, mutexVars,
                         requested_signals, switchVars>>
    /\ UNCHANGED <<preempt_disabled, eventVars, timer_current_ticks, timer_pending_ticks>>

\* Losing the ceiling pends a preemption, with or without a waiter.
mutex_unlock(t) == \E m \in TaskMutexes[t] :
    \/ Calling(t, "mutex_unlock") /\ holder[m] # t /\ Fatal
    \/ /\ Disabling(t, "mutex_unlock")
       /\ holder[m] = t
       /\ signal_set_pending(MutexWaiters(m), [u \in MutexWaiters(m) |-> {TASK_TIMER}])
       /\ sched_set_mutex_unlocked(m, MutexWaiters(m))
       /\ preempt_pending' = TRUE
       /\ mutex_release(m)
       /\ Finish(t)
       /\ UNCHANGED <<eventVars, timerVars, timer_pending_ticks, requested_signals, switchVars>>

mutex_try_lock(t) == \E m \in TaskMutexes[t] :
    /\ Disabling(t, "mutex_try_lock")
    /\ \/ mutex_acquire(t, m)
       \/ ~MutexFree(m) /\ UNCHANGED <<mutexVars, locked_by>>
    /\ Finish(t)
    /\ UNCHANGED <<PENDING_SIGNALS, preempt_pending, eventVars, timerVars, timer_pending_ticks,
                   requested_signals, switchVars>>

-----------------------------------------------------------------------------
(* The signal API and sleep. *)

SignalSets == (SUBSET AppSignals) \ {{}}

signal_wait_set_call(t) == \E requested \in SignalSets :
    /\ Disabling(t, "signal_wait_set")
    /\ Frame(t, "signal_wait", NoObject, 0)
    /\ signal_wait_set(t, requested)
    /\ UNCHANGED <<PENDING_SIGNALS, preempt_pending, eventVars, timerVars, timer_pending_ticks,
                   mutexVars>>

signal_poll_set(t) == \E requested \in SignalSets :
    /\ Disabling(t, "signal_poll_set")
    /\ signal_recv(t, requested)
    /\ Finish(t)
    /\ UNCHANGED <<locked_by, preempt_pending, eventVars, timerVars, timer_pending_ticks, mutexVars,
                   requested_signals, switchVars>>

signal_send(t) == \E task_id \in Recipients, sigs \in SignalSets :
    /\ Disabling(t, "signal_send_set")
    /\ signal_send_set({task_id}, [u \in {task_id} |-> sigs])
    /\ Finish(t)
    /\ UNCHANGED <<eventVars, timerVars, timer_pending_ticks, mutexVars, requested_signals, switchVars>>

sleep(t) == \E ticks \in Timeouts :
    /\ Disabling(t, "sleep")
    /\ Frame(t, "sleep_wait", NoObject, 0)
    /\ timed_wait(t, ticks)
    /\ StartTimeout(t, ticks)
    /\ UNCHANGED <<eventVars, timer_current_ticks, timer_pending_ticks, mutexVars>>

-----------------------------------------------------------------------------
(* The scheduler, with interrupts enabled: preempt_irq_invoke_scheduler. *)

\* The start of interrupt_event_process, the one part with interrupts disabled.
event_copy ==
    /\ phase = "events"
    /\ preempt_pending' = FALSE
    /\ tmp' = interrupt_event
    /\ phase' = IF interrupt_event = {} THEN "ticks" ELSE "load"
    /\ UNCHANGED <<interrupt_event, loaded, raised, locked_by, PENDING_SIGNALS>>

\* The first half of interrupt_event &= ~(1U << i).
event_load ==
    /\ phase = "load"
    /\ loaded' = interrupt_event
    /\ phase' = "store"
    /\ UNCHANGED <<interrupt_event, tmp, raised, locked_by, PENDING_SIGNALS, preempt_pending>>

\* The event handled next: the lowest bit of tmp.
NextEvent == CHOOSE i \in tmp : \A j \in tmp : i <= j

event_handle(i) ==
    /\ raised' = raised \ {i}
    /\ tmp' = tmp \ {i}
    /\ signal_send_set({EventTask[i]}, EventSends(EventTask, {i}))

\* The second half, and interrupt_event_handle.
event_store ==
    /\ phase = "store"
    /\ interrupt_event' = loaded \ {NextEvent}
    /\ loaded' = {}
    /\ event_handle(NextEvent)
    /\ phase' = IF tmp' = {} THEN "ticks" ELSE "load"

\* Mutant: an event is handled before its bit is cleared.
event_process_late ==
    \/ event_copy
    \/ /\ phase = "load"
       /\ event_handle(NextEvent)
       /\ loaded' = interrupt_event \ {NextEvent}
       /\ phase' = "store"
       /\ UNCHANGED interrupt_event
    \/ /\ phase = "store"
       /\ interrupt_event' = loaded
       /\ loaded' = {}
       /\ phase' = IF tmp = {} THEN "ticks" ELSE "load"
       /\ UNCHANGED <<tmp, raised, locked_by, PENDING_SIGNALS, preempt_pending>>

event_process == event_copy \/ event_load \/ event_store

interrupt_event_process ==
    /\ event_process
    /\ UNCHANGED <<preempt_disabled, timerVars, timer_pending_ticks, mutexVars, frameVars,
                   requested_signals, current_task, return_disabled, restore_disabled>>

\* At most one tick is pending, or ERROR_ID_TICK_OVERFLOW.
timer_tick_process ==
    /\ phase = "ticks"
    /\ timer_pending_ticks' = 0
    /\ LET ticks == (timer_current_ticks + 1) % TicksAbsoluteMod
           K == Expired(ticks)
       IN  \/ /\ timer_pending_ticks = 0
              /\ phase' = "pick"
              /\ UNCHANGED <<locked_by, PENDING_SIGNALS, preempt_pending, timerVars>>
           \/ /\ timer_pending_ticks > 1
              /\ phase' = "fatal"
              /\ UNCHANGED <<locked_by, PENDING_SIGNALS, preempt_pending, timerVars>>
           \/ /\ timer_pending_ticks = 1
              /\ phase' = "pick"
              /\ timer_current_ticks' = ticks
              /\ CountTick(ticks, {t \in Tasks : pc[t] \in TimedLabels})
              /\ timers' = TimersAfter(K)
              /\ signal_send_set(TimerTasks(K), TimerSignals(K))
    /\ UNCHANGED <<preempt_disabled, eventVars, mutexVars, frameVars, requested_signals, current_task,
                   return_disabled, restore_disabled>>

\* The end of yield_common and of the handlers' scheduler wrapper: return to
\* the same task, or save its context and restore the one of another task.
switch_to(to) ==
    /\ phase' = "task"
    /\ current_task' = to
    /\ return_disabled' = FALSE
    /\ \/ /\ to = current_task
          /\ preempt_disabled' = return_disabled
          /\ UNCHANGED restore_disabled
       \/ /\ to # current_task
          /\ restore_disabled' = [restore_disabled EXCEPT ![current_task] = return_disabled]
          /\ preempt_disabled' = restore_disabled[to]

SchedPickFrame ==
    UNCHANGED <<locked_by, PENDING_SIGNALS, preempt_pending, eventVars, timerVars, timer_pending_ticks,
                mutexVars, frameVars, requested_signals>>

\* Mutant: the scheduler runs once.
sched_pick_once == phase = "pick" /\ switch_to(sched_get_next) /\ SchedPickFrame

\* sched_get_next; the scheduler runs again while a preemption is pending.
sched_pick ==
    /\ phase = "pick"
    /\ \/ /\ preempt_pending
          /\ phase' = "events"
          /\ UNCHANGED <<preempt_disabled, current_task, return_disabled, restore_disabled>>
       \/ ~preempt_pending /\ switch_to(sched_get_next)
    /\ SchedPickFrame

-----------------------------------------------------------------------------
(* Interrupt handlers, and what preempt_irq_common does when one returns. *)

\* The scheduler is entered at once, or left pending when preemption is
\* disabled.
HandlerReturns(preempt) ==
    /\ phase # "fatal"
    /\ preempt_pending' = (preempt_pending \/ preempt)
    /\ IF preempt /\ ~preempt_disabled
       THEN preempt_disabled' = TRUE /\ yield_common(FALSE)
       ELSE UNCHANGED <<preempt_disabled, switchVars>>
    /\ UNCHANGED <<locked_by, PENDING_SIGNALS, tmp, loaded, timerVars, mutexVars, frameVars,
                   requested_signals>>

interrupt_event_raise(e, preempt) ==
    /\ interrupt_event' = interrupt_event \cup {e}
    /\ raised' = raised \cup {e}
    /\ UNCHANGED timer_pending_ticks
    /\ HandlerReturns(preempt)

timer_tick(preempt) ==
    /\ timer_pending_ticks' = IF timer_pending_ticks < 2 THEN timer_pending_ticks + 1
                              ELSE timer_pending_ticks
    /\ UNCHANGED <<interrupt_event, raised>>
    /\ HandlerReturns(preempt)

-----------------------------------------------------------------------------
\* fatal_error does not return.
Stopped ==
    /\ phase = "fatal"
    /\ UNCHANGED vars

TaskStep(t) ==
    \/ Entry(t) \/ preempt_enable(t) \/ WaitAgain(t) \/ WaitEnd(t) \/ PreemptDisable(t)
    \/ mutex_lock_loop(t) \/ mutex_lock_timeout_loop(t)

AppStep(t) ==
    \/ mutex_lock(t) \/ mutex_lock_timeout(t) \/ mutex_unlock(t) \/ mutex_try_lock(t)
    \/ signal_wait_set_call(t) \/ signal_poll_set(t) \/ signal_send(t) \/ sleep(t)

SchedStep == interrupt_event_process \/ timer_tick_process \/ sched_pick

Interrupt ==
    \/ \E preempt \in TickReturns : timer_tick(preempt)
    \/ \E e \in Events, preempt \in BOOLEAN : interrupt_event_raise(e, preempt)

Next ==
    \/ \E t \in Tasks : TaskStep(t) \/ AppStep(t)
    \/ SchedStep
    \/ Interrupt
    \/ Stopped

Spec == Init /\ [][Next]_vars

-----------------------------------------------------------------------------
(* Properties. *)

\* Task t sleeps in signal_wait_set: none of its signals is pending.
Asleep(t) == pc[t] \in Waits /\ ~signal_peek(t, requested_signals[t])

\* The priority of task t and the ceilings of the mutexes it holds; a smaller
\* index is a higher priority.
Priorities(t) == {task_to_index[t]} \cup {mutex_to_index[m] : m \in {n \in Mutexes : holder[n] = t}}

\* The ceiling protocol: application code runs only in the task of the highest
\* effective priority of all that are not asleep, read off the mutexes' own
\* holders and the tasks' signals, not off the scheduler's table.
CeilingProtocol ==
    (phase = "task" /\ pc[current_task] = "app") =>
        \A u \in {v \in Tasks : ~Asleep(v)} : \A p \in Priorities(u) :
            \E c \in Priorities(current_task) : c <= p

\* No wake-up of mutex_unlock is lost: a task asleep in a lock is registered
\* with the mutex, which another task holds.
MutexWaitersRegistered ==
    \A t \in Tasks : (pc[t] \in MutexWaits /\ Asleep(t)) =>
        mutex_waiters[t] = obj[t] /\ holder[obj[t]] \notin {t, TASK_ID_NONE}

\* The two flags: with preemption enabled no preemption is pending, and it is
\* enabled exactly in application code and in the API's reads before
\* preempt_disable.  A flag restored from the wrong context would break it.
PreemptionFlags ==
    phase # "fatal" =>
        /\ preempt_pending => preempt_disabled
        /\ preempt_disabled = (phase # "task" \/ pc[current_task] \notin {"app", "lock_timeout_call"})

\* No interrupt event is lost: one that was raised and not handled since is
\* still in the event word, or in the copy that is being processed.
RaisedEventIsKept == raised \subseteq interrupt_event \cup tmp

\* A task that sleeps, or waits for an application's signal, holds no mutex.
SleepersHoldNothing ==
    \A t \in Tasks : (pc[t] \in {"sleep_wait", "signal_wait"} /\ Asleep(t)) =>
        \A m \in Mutexes : holder[m] # t

\* Tasks that sleep only without a mutex never block on one, so they never
\* deadlock: when a task gets to run, no mutex that it may lock is held by
\* another.  This is what the ceilings are for, and sched_get_next must pass
\* over every task whose lock would fail.
CeilingAvoidsBlocking ==
    []SleepersHoldNothing => [](\A t \in Tasks : pc[t] \notin MutexWaits)

\* A task asleep in sleep or in mutex_lock_timeout has its timer running, and it
\* expires when exactly the time of the call has passed, although the code's
\* absolute timeout is read with preemption enabled and any number of ticks may
\* pass before it is compared.  Excepted is a call that was still under way
\* when the tick counter wrapped after its timeout.
TimedWaitsArmed ==
    \A t \in Tasks : (pc[t] \in {"lock_timeout_wait", "sleep_wait"} /\ Asleep(t)) => ExpiresInTime(t)

\* When no task is runnable the scheduler returns a blocked one.  It does
\* nothing but block again.
BlockedTaskOnlyWaits ==
    (phase = "task" /\ ~sched_runnable(current_task)) => Asleep(current_task)
=============================================================================

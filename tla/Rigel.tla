-------------------------------- MODULE Rigel -------------------------------
(***************************************************************************)
(* The Rigel variant: cooperative tasks on the round robin scheduler, with *)
(* signals, timers, interrupt events, mutexes and message queues, as       *)
(* components/rigel composes them, on armv7m.                              *)
(*                                                                         *)
(* There is no preemption: a step is the code that a task executes up to   *)
(* the point where it yields or blocks, or one call in the scheduler's     *)
(* loop.  A handler writes only interrupt_event and timer_pending_ticks,   *)
(* which the scheduler's steps read, so it commutes with the rest of every *)
(* step of a task.                                                         *)
(***************************************************************************)
EXTENDS SchedRR, Timer, BlockingMutex, MessageQueue, InterruptEvent

CONSTANTS Calls,            \* Calls[t]: the API functions that task t calls
          TaskQueues,       \* TaskQueues[t]: the queues it calls them on
          Recipients,       \* the tasks that others start or send signals to
          Timeouts,         \* the timeouts that tasks pass to the API
          StartTasks,       \* the tasks configured to start
          RTOS_UTIL,        \* SIGNAL_ID__RTOS_UTIL, reserved by Rigel
          TickInUse         \* whether an interrupt handler calls timer_tick

ASSUME RigelAssumption ==
    /\ NumUserTimers = 0
    /\ TaskQueues \in [Tasks -> SUBSET Queues]
    /\ Timeouts \subseteq TicksRelative
    /\ Recipients \subseteq Tasks
    /\ StartTasks \subseteq Tasks /\ StartTasks # {}
    /\ RTOS_UTIL \in AppSignals
    /\ TickInUse \in BOOLEAN

VARIABLES phase,            \* what the CPU is doing, see Phases
          current_task,
          event_task,       \* interrupt_events[e].task
          pc,               \* where each task is in the RTOS code
          obj,              \* local m or message_queue: the object of the call
          arg,              \* local absolute_timeout
          message,          \* the message that a put passes
          received,         \* where the task's calls of get copy messages to
          requested_signals \* local of signal_wait_set

\* The CPU runs current_task, or the scheduler for it when it yields.
Phases == {"task", "events", "ticks", "pick", "wait", "idle", "fatal"}

\* Inside signal_wait_set, for each of its callers.
PutWaits == {"put_wait", "put_timeout_wait"}
GetWaits == {"get_wait", "get_timeout_wait"}
TimedWaits == {"put_timeout_wait", "get_timeout_wait"}
TimerWaits == PutWaits \cup GetWaits \cup {"lock_wait", "sleep_wait"}
Waits == TimerWaits \cup {"signal_wait", "start_wait"}

\* With the task timer started, before the signal_wait of sleep.
BlockLabels == {"put_timeout_block", "get_timeout_block", "sleep_block"}

\* The loops of the blocking calls.
LoopLabels == {"put", "put_timeout", "get", "get_timeout", "lock"}

Labels == Waits \cup BlockLabels \cup LoopLabels \cup {"entry", "app"}

\* Inside a call with an absolute timeout.
TimedLabels == TimedWaits \cup {"put_timeout", "put_timeout_block", "get_timeout", "get_timeout_block"}

WaitOf == [put_timeout_block |-> "put_timeout_wait",
           get_timeout_block |-> "get_timeout_wait", sleep_block |-> "sleep_wait"]

\* Where a wait continues once its signal is received.
AfterWait == [put_wait |-> "put", put_timeout_wait |-> "put_timeout",
              get_wait |-> "get", get_timeout_wait |-> "get_timeout",
              lock_wait |-> "lock", sleep_wait |-> "app",
              signal_wait |-> "app", start_wait |-> "app"]

NoObject == -1

interruptVars == <<interrupt_event, timer_pending_ticks>>
timerVars == <<timers, timer_current_ticks, time_left>>
mutexVars == <<holder, mutex_waiters>>
queueVars == <<messages, head, available, message_queue_waiters>>
frameVars == <<pc, obj, arg, message>>
cpuVars == <<phase, current_task, cur>>
vars == <<runnable, PENDING_SIGNALS, interruptVars, timerVars, mutexVars, queueVars,
          frameVars, cpuVars, event_task, received, requested_signals>>

\* The type invariant: every variable, and every local of the call that a
\* task is in, holds a value of its C type.
TypeOK ==
    /\ SchedTypeOK /\ SignalTypeOK /\ TimerTypeOK /\ TimeLeftTypeOK
    /\ MutexTypeOK /\ QueueTypeOK /\ EventTypeOK
    /\ phase \in Phases
    /\ current_task \in Tasks
    /\ event_task \in [Events -> Tasks]
    /\ pc \in [Tasks -> Labels]
    /\ obj \in [Tasks -> Mutexes \cup Queues \cup {NoObject}]
    /\ arg \in [Tasks -> TicksAbsolute]
    /\ message \in [Tasks -> Contents]
    /\ received \in [Tasks -> Contents]
    /\ requested_signals \in [Tasks -> SUBSET Signals]

\* start: every task runnable at its entry point, and a switch to task 0.
Init ==
    /\ cur = 0
    /\ runnable = [t \in Tasks |-> TRUE]
    /\ PENDING_SIGNALS = [t \in Tasks |-> {}]
    /\ timers = [k \in TimerIds |-> TaskTimer(k)]
    /\ timer_current_ticks = 0
    /\ timer_pending_ticks = 0
    /\ time_left = [t \in Tasks |-> 0]
    /\ MutexInit
    /\ QueueInit
    /\ interrupt_event = {}
    /\ event_task = EventTask
    /\ phase = "task"
    /\ current_task = 0
    /\ pc = [t \in Tasks |-> "entry"]
    /\ obj = [t \in Tasks |-> NoObject]
    /\ arg = [t \in Tasks |-> 0]
    /\ message = [t \in Tasks |-> NoMessage]
    /\ received = [t \in Tasks |-> NoMessage]
    /\ requested_signals = [t \in Tasks |-> {}]

-----------------------------------------------------------------------------
(* The calls that the components make of each other. *)

\* Task t executes at label.
Running(t, label) ==
    /\ phase = "task"
    /\ t = current_task
    /\ pc[t] = label

\* Task t is in application code and calls the API function name.
Calling(t, name) == Running(t, "app") /\ name \in Calls[t]

\* The stack frame of t: its position and the locals of the call.
Frame(t, label, o, a, m) ==
    /\ pc' = [pc EXCEPT ![t] = label]
    /\ obj' = [obj EXCEPT ![t] = o]
    /\ arg' = [arg EXCEPT ![t] = a]
    /\ message' = [message EXCEPT ![t] = m]

Return(t) == Frame(t, "app", NoObject, 0, NoMessage)

\* The same call continues at label.
Goto(t, label) == Frame(t, label, obj[t], arg[t], message[t])

\* signal_send_set of sigs[t], for every task t of T.
signal_send_set(T, sigs) ==
    /\ signal_set_pending(T, sigs)
    /\ sched_set_runnable(T)

\* The wake-ups of the mutexes and the message queues.
send_task_timer(W) == signal_send_set(W, [t \in W |-> {TASK_TIMER}])

\* yield enters the scheduler.
yield ==
    /\ phase' = "events"
    /\ UNCHANGED <<current_task, cur>>

\* block, the only caller of sched_set_blocked.
block(t) == sched_set_blocked(t) /\ yield

\* signal_wait_set, up to its yield or its first block.
signal_wait_set(t, requested) ==
    /\ requested_signals' = [requested_signals EXCEPT ![t] = requested]
    /\ IF signal_peek(t, requested)
       THEN yield /\ UNCHANGED runnable
       ELSE block(t)

\* A failed api_assert.
Fatal ==
    /\ phase' = "fatal"
    /\ UNCHANGED <<current_task, cur, runnable, PENDING_SIGNALS, interruptVars, timerVars, mutexVars,
                   queueVars, frameVars, event_task, received, requested_signals>>

\* timer_oneshot on the task timer of t: a timeout of 0 fires at once.
timer_oneshot(t, timeout) ==
    LET tm == timers[task_timers(t)]
    IN  IF timeout = 0
        THEN /\ timers' = [timers EXCEPT ![task_timers(t)] =
                                timer_process_one([tm EXCEPT !.reload = 0], PENDING_SIGNALS[t])]
             /\ send_task_timer({t})
        ELSE /\ timers' = [timers EXCEPT ![task_timers(t)] = timer_start_oneshot(tm, timeout)]
             /\ UNCHANGED <<PENDING_SIGNALS, runnable>>

-----------------------------------------------------------------------------
(* Starting, waiting and resuming. *)

\* entry_<task>: a started task yields once, the others wait for task_start.
Entry(t) ==
    /\ Running(t, "entry")
    /\ \/ /\ t \in StartTasks
          /\ Return(t)
          /\ yield
          /\ UNCHANGED <<runnable, requested_signals>>
       \/ /\ t \notin StartTasks
          /\ Goto(t, "start_wait")
          /\ signal_wait_set(t, {RTOS_UTIL})
    /\ UNCHANGED <<PENDING_SIGNALS, interruptVars, timerVars, mutexVars, queueVars, event_task,
                   received>>

\* The signal_wait of sleep, also for the calls with a timeout.
BlockTimed(t) ==
    /\ pc[t] \in BlockLabels
    /\ Running(t, pc[t])
    /\ Goto(t, WaitOf[pc[t]])
    /\ signal_wait_set(t, {TASK_TIMER})
    /\ UNCHANGED <<PENDING_SIGNALS, interruptVars, timerVars, mutexVars, queueVars, event_task,
                   received>>

\* A task resumed in signal_wait_set without any requested signal blocks again.
WaitAgain(t) ==
    /\ pc[t] \in Waits
    /\ Running(t, pc[t])
    /\ ~signal_peek(t, requested_signals[t])
    /\ block(t)
    /\ UNCHANGED <<PENDING_SIGNALS, interruptVars, timerVars, mutexVars, queueVars, frameVars,
                   event_task, received, requested_signals>>

\* Mutant: the task timer goes on after a timed wait.
WaitEndTimerRuns(t) ==
    /\ pc[t] \in Waits
    /\ Running(t, pc[t])
    /\ signal_peek(t, requested_signals[t])
    /\ signal_recv(t, requested_signals[t])
    /\ requested_signals' = [requested_signals EXCEPT ![t] = {}]
    /\ IF pc[t] \in TimedWaits
       THEN register(MESSAGE_QUEUE_ID_NONE, t) /\ UNCHANGED timers
       ELSE UNCHANGED <<timers, queueVars>>
    /\ IF AfterWait[pc[t]] = "app"
       THEN Return(t) /\ EndTimeout(t)
       ELSE Goto(t, AfterWait[pc[t]]) /\ UNCHANGED time_left
    /\ UNCHANGED <<runnable, timer_current_ticks, interruptVars, mutexVars, cpuVars, event_task, received>>

\* A task resumed with a requested signal receives it.  The calls with a
\* timeout then disable the task timer and leave the waiters.
WaitEnd(t) ==
    /\ pc[t] \in Waits
    /\ Running(t, pc[t])
    /\ signal_peek(t, requested_signals[t])
    /\ signal_recv(t, requested_signals[t])
    /\ requested_signals' = [requested_signals EXCEPT ![t] = {}]
    /\ IF pc[t] \in TimedWaits
       THEN /\ timers' = [timers EXCEPT ![task_timers(t)].enabled = FALSE]
            /\ register(MESSAGE_QUEUE_ID_NONE, t)
       ELSE UNCHANGED <<timers, queueVars>>
    /\ IF AfterWait[pc[t]] = "app"
       THEN Return(t) /\ EndTimeout(t)
       ELSE Goto(t, AfterWait[pc[t]]) /\ UNCHANGED time_left
    /\ UNCHANGED <<runnable, timer_current_ticks, interruptVars, mutexVars, cpuVars, event_task, received>>

-----------------------------------------------------------------------------
(* The message queue API. *)

\* try_put succeeds: the message is stored and waiters are woken.
put_message(q, m) ==
    /\ store(q, m)
    /\ send_task_timer(PutWakes(q))
    /\ UNCHANGED received

\* try_get succeeds: the message is copied to the caller t.
get_message(q, t) ==
    /\ remove(q)
    /\ received' = [received EXCEPT ![t] = Oldest(q)]
    /\ send_task_timer(GetWakes(q))

\* One of the try functions succeeds, within the call of t.
TryCallFrame ==
    UNCHANGED <<interruptVars, timers, timer_current_ticks, mutexVars, cpuVars, event_task,
                requested_signals>>

message_queue_try_put(t) == \E q \in TaskQueues[t], m \in Messages :
    /\ Calling(t, "message_queue_try_put")
    /\ put_message(q, m)
    /\ TryCallFrame
    /\ UNCHANGED <<frameVars, time_left>>

message_queue_try_get(t) == \E q \in TaskQueues[t] :
    /\ Calling(t, "message_queue_try_get")
    /\ get_message(q, t)
    /\ TryCallFrame
    /\ UNCHANGED <<frameVars, time_left>>

\* The calls that may wait enter their loop; nothing runs in between.
EnterLoop(t, label, o, a, m) ==
    /\ Frame(t, label, o, a, m)
    /\ UNCHANGED <<runnable, PENDING_SIGNALS, interruptVars, timers, timer_current_ticks, mutexVars,
                   queueVars, cpuVars, event_task, received, requested_signals>>

message_queue_put(t) == \E q \in TaskQueues[t], m \in Messages :
    Calling(t, "message_queue_put") /\ EnterLoop(t, "put", q, 0, m) /\ UNCHANGED time_left

message_queue_get(t) == \E q \in TaskQueues[t] :
    Calling(t, "message_queue_get") /\ EnterLoop(t, "get", q, 0, NoMessage) /\ UNCHANGED time_left

\* absolute_timeout, which wraps.
AbsoluteTimeout(timeout) == (timer_current_ticks + timeout) % TicksAbsoluteMod

message_queue_put_timeout(t) == \E q \in TaskQueues[t], m \in Messages, timeout \in Timeouts :
    /\ Calling(t, "message_queue_put_timeout")
    /\ \/ timeout = 0 /\ Fatal
       \/ /\ timeout # 0
          /\ EnterLoop(t, "put_timeout", q, AbsoluteTimeout(timeout), m)
          /\ StartTimeout(t, timeout)

message_queue_get_timeout(t) == \E q \in TaskQueues[t], timeout \in Timeouts :
    /\ Calling(t, "message_queue_get_timeout")
    /\ \/ timeout = 0 /\ Fatal
       \/ /\ timeout # 0
          /\ EnterLoop(t, "get_timeout", q, AbsoluteTimeout(timeout), NoMessage)
          /\ StartTimeout(t, timeout)

\* message_queue_wait.
message_queue_wait(t, label) ==
    /\ register(obj[t], t)
    /\ Goto(t, label)
    /\ signal_wait_set(t, {TASK_TIMER})
    /\ UNCHANGED <<PENDING_SIGNALS, interruptVars, timerVars, mutexVars, event_task, received>>

\* The time left of a timed call, converted to TicksRelative.
Remaining(t) == (arg[t] - timer_current_ticks) % TicksTimeoutMod

\* message_queue_wait_timeout, up to the signal_wait of sleep.
message_queue_wait_timeout(t, label) ==
    /\ register(obj[t], t)
    /\ timer_oneshot(t, Remaining(t))
    /\ Goto(t, label)
    /\ UNCHANGED <<timer_current_ticks, time_left, interruptVars, mutexVars, cpuVars, event_task, received,
                   requested_signals>>

message_queue_put_loop(t) ==
    /\ Running(t, "put")
    /\ \/ put_message(obj[t], message[t]) /\ Return(t) /\ TryCallFrame /\ UNCHANGED time_left
       \/ Full(obj[t]) /\ message_queue_wait(t, "put_wait")

message_queue_get_loop(t) ==
    /\ Running(t, "get")
    /\ \/ get_message(obj[t], t) /\ Return(t) /\ TryCallFrame /\ UNCHANGED time_left
       \/ Empty(obj[t]) /\ message_queue_wait(t, "get_wait")

\* A timed call whose try function fails returns false.
GiveUp(t) ==
    /\ Return(t)
    /\ EndTimeout(t)
    /\ UNCHANGED <<runnable, PENDING_SIGNALS, queueVars, received>>
    /\ TryCallFrame

message_queue_put_timeout_loop(t) ==
    /\ Running(t, "put_timeout")
    /\ \/ put_message(obj[t], message[t]) /\ Return(t) /\ TryCallFrame /\ EndTimeout(t)
       \/ /\ Full(obj[t]) /\ arg[t] > timer_current_ticks
          /\ message_queue_wait_timeout(t, "put_timeout_block")
       \/ Full(obj[t]) /\ arg[t] <= timer_current_ticks /\ GiveUp(t)

message_queue_get_timeout_loop(t) ==
    /\ Running(t, "get_timeout")
    /\ \/ get_message(obj[t], t) /\ Return(t) /\ TryCallFrame /\ EndTimeout(t)
       \/ /\ Empty(obj[t]) /\ arg[t] > timer_current_ticks
          /\ message_queue_wait_timeout(t, "get_timeout_block")
       \/ Empty(obj[t]) /\ arg[t] <= timer_current_ticks /\ GiveUp(t)

-----------------------------------------------------------------------------
(* The mutex, signal, sleep, task and interrupt event API. *)

mutex_lock(t) == \E m \in Mutexes :
    /\ Calling(t, "mutex_lock")
    /\ \/ holder[m] = t /\ Fatal
       \/ holder[m] # t /\ EnterLoop(t, "lock", m, 0, NoMessage) /\ UNCHANGED time_left

mutex_lock_loop(t) ==
    /\ Running(t, "lock")
    /\ \/ /\ mutex_take(obj[t], t)
          /\ Return(t)
          /\ UNCHANGED <<runnable, cpuVars, requested_signals>>
       \/ /\ mutex_wait(obj[t], t)
          /\ Goto(t, "lock_wait")
          /\ signal_wait_set(t, {TASK_TIMER})
    /\ UNCHANGED <<PENDING_SIGNALS, interruptVars, timerVars, queueVars, event_task, received>>

mutex_unlock(t) == \E m \in Mutexes :
    /\ Calling(t, "mutex_unlock")
    /\ \/ holder[m] # t /\ Fatal
       \/ /\ holder[m] = t
          /\ send_task_timer(MutexWaiters(m))
          /\ mutex_release(m)
          /\ UNCHANGED <<interruptVars, timerVars, queueVars, frameVars, cpuVars, event_task,
                         received, requested_signals>>

mutex_try_lock(t) == \E m \in Mutexes :
    /\ Calling(t, "mutex_try_lock")
    /\ mutex_take(m, t)
    /\ UNCHANGED <<runnable, PENDING_SIGNALS, interruptVars, timerVars, queueVars, frameVars, cpuVars,
                   event_task, received, requested_signals>>

\* The signal sets that applications may name.
SignalSets == (SUBSET (AppSignals \ {RTOS_UTIL})) \ {{}}

signal_wait_set_call(t) == \E requested \in SignalSets :
    /\ Calling(t, "signal_wait_set")
    /\ Goto(t, "signal_wait")
    /\ signal_wait_set(t, requested)
    /\ UNCHANGED <<PENDING_SIGNALS, interruptVars, timerVars, mutexVars, queueVars, event_task,
                   received>>

signal_poll_set(t) == \E requested \in SignalSets :
    /\ Calling(t, "signal_poll_set")
    /\ signal_recv(t, requested)
    /\ UNCHANGED <<runnable, interruptVars, timerVars, mutexVars, queueVars, frameVars, cpuVars,
                   event_task, received, requested_signals>>

\* signal_send_set and task_start.
signal_send(t) == \E task_id \in Recipients, sigs \in SignalSets \cup {{RTOS_UTIL}} :
    /\ Calling(t, IF sigs = {RTOS_UTIL} THEN "task_start" ELSE "signal_send_set")
    /\ signal_send_set({task_id}, [u \in {task_id} |-> sigs])
    /\ UNCHANGED <<interruptVars, timerVars, mutexVars, queueVars, frameVars, cpuVars, event_task,
                   received, requested_signals>>

sleep(t) == \E ticks \in Timeouts :
    /\ Calling(t, "sleep")
    /\ timer_oneshot(t, ticks)
    /\ Goto(t, "sleep_block")
    /\ StartTimeout(t, ticks)
    /\ UNCHANGED <<timer_current_ticks, interruptVars, mutexVars, queueVars, cpuVars, event_task,
                   received, requested_signals>>

yield_call(t) ==
    /\ Calling(t, "yield")
    /\ yield
    /\ UNCHANGED <<runnable, PENDING_SIGNALS, interruptVars, timerVars, mutexVars, queueVars,
                   frameVars, event_task, received, requested_signals>>

interrupt_event_task_set(t) == \E e \in Events, task_id \in Tasks :
    /\ Calling(t, "interrupt_event_task_set")
    /\ event_task' = [event_task EXCEPT ![e] = task_id]
    /\ UNCHANGED <<runnable, PENDING_SIGNALS, interruptVars, timerVars, mutexVars, queueVars,
                   frameVars, cpuVars, received, requested_signals>>

-----------------------------------------------------------------------------
(* The scheduler: rtos_internal_interrupt_event_get_next and yield_to. *)

interrupt_event_process ==
    /\ phase = "events"
    /\ phase' = "ticks"
    /\ interrupt_event' = {}
    /\ signal_send_set(EventTasks(event_task, interrupt_event), EventSends(event_task, interrupt_event))
    /\ UNCHANGED <<current_task, cur, timer_pending_ticks, timerVars, mutexVars, queueVars,
                   frameVars, event_task, received, requested_signals>>

\* At most one tick is pending, or ERROR_ID_TICK_OVERFLOW.
timer_tick_process ==
    /\ phase = "ticks"
    /\ timer_pending_ticks' = 0
    /\ LET ticks == (timer_current_ticks + 1) % TicksAbsoluteMod
           K == Expired(ticks)
       IN  \/ /\ timer_pending_ticks = 0
              /\ phase' = "pick"
              /\ UNCHANGED <<PENDING_SIGNALS, runnable, timerVars>>
           \/ /\ timer_pending_ticks > 1
              /\ phase' = "fatal"
              /\ UNCHANGED <<PENDING_SIGNALS, runnable, timerVars>>
           \/ /\ timer_pending_ticks = 1
              /\ phase' = "pick"
              /\ timer_current_ticks' = ticks
              /\ CountTick(ticks, {t \in Tasks : pc[t] \in TimedLabels})
              /\ timers' = TimersAfter(K)
              /\ signal_send_set(TimerTasks(K), TimerSignals(K))
    /\ UNCHANGED <<interrupt_event, current_task, cur, mutexVars, queueVars, frameVars, event_task,
                   received, requested_signals>>

sched_pick ==
    /\ phase = "pick"
    /\ sched_set_cur_index
    /\ IF sched_get_next = TASK_ID_NONE
       THEN phase' = "wait" /\ UNCHANGED current_task
       ELSE phase' = "task" /\ current_task' = sched_get_next
    /\ UNCHANGED <<runnable, PENDING_SIGNALS, interruptVars, timerVars, mutexVars, queueVars,
                   frameVars, event_task, received, requested_signals>>

\* Mutant: wfi without the check.
interrupt_event_wait_unchecked ==
    /\ phase = "wait"
    /\ phase' = "idle"
    /\ UNCHANGED <<current_task, cur, runnable, PENDING_SIGNALS, interruptVars, timerVars, mutexVars,
                   queueVars, frameVars, event_task, received, requested_signals>>

\* Interrupts are masked between the check and wfi.
interrupt_event_wait ==
    /\ phase = "wait"
    /\ phase' = IF interrupt_event # {} \/ timer_pending_ticks # 0 THEN "events" ELSE "idle"
    /\ UNCHANGED <<current_task, cur, runnable, PENDING_SIGNALS, interruptVars, timerVars, mutexVars,
                   queueVars, frameVars, event_task, received, requested_signals>>

-----------------------------------------------------------------------------
(* Interrupt handlers.  wfi ends when one returns. *)

HandlerReturns ==
    /\ phase # "fatal"
    /\ phase' = IF phase = "idle" THEN "events" ELSE phase
    /\ UNCHANGED <<current_task, cur, runnable, PENDING_SIGNALS, timerVars, mutexVars, queueVars,
                   frameVars, event_task, received, requested_signals>>

interrupt_event_raise(e) ==
    /\ interrupt_event' = interrupt_event \cup {e}
    /\ UNCHANGED timer_pending_ticks
    /\ HandlerReturns

timer_tick ==
    /\ TickInUse
    /\ timer_pending_ticks' = IF timer_pending_ticks < 2 THEN timer_pending_ticks + 1
                              ELSE timer_pending_ticks
    /\ UNCHANGED interrupt_event
    /\ HandlerReturns

-----------------------------------------------------------------------------
\* fatal_error does not return.
Stopped ==
    /\ phase = "fatal"
    /\ UNCHANGED vars

TaskStep(t) ==
    \/ Entry(t) \/ BlockTimed(t) \/ WaitAgain(t) \/ WaitEnd(t) \/ mutex_lock_loop(t)
    \/ message_queue_put_loop(t) \/ message_queue_get_loop(t)
    \/ message_queue_put_timeout_loop(t) \/ message_queue_get_timeout_loop(t)

AppStep(t) ==
    \/ message_queue_try_put(t) \/ message_queue_try_get(t)
    \/ message_queue_put(t) \/ message_queue_get(t)
    \/ message_queue_put_timeout(t) \/ message_queue_get_timeout(t)
    \/ mutex_lock(t) \/ mutex_unlock(t) \/ mutex_try_lock(t)
    \/ signal_wait_set_call(t) \/ signal_poll_set(t) \/ signal_send(t)
    \/ sleep(t) \/ yield_call(t) \/ interrupt_event_task_set(t)

SchedStep == interrupt_event_process \/ timer_tick_process \/ sched_pick \/ interrupt_event_wait

Interrupt == timer_tick \/ \E e \in Events : interrupt_event_raise(e)

Next ==
    \/ \E t \in Tasks : TaskStep(t) \/ AppStep(t)
    \/ SchedStep
    \/ Interrupt
    \/ Stopped

Spec == Init /\ [][Next]_vars

(***************************************************************************)
(* Fairness: the CPU executes RTOS code without stopping, a task that goes *)
(* on executing application code yields at some time, as the manual        *)
(* requires of every task (components/rigel/docs.md), and the tick         *)
(* interrupt keeps coming.                                                 *)
(***************************************************************************)
FairSpec ==
    /\ Spec
    /\ WF_vars(SchedStep)
    /\ \A t \in Tasks : WF_vars(TaskStep(t)) /\ SF_vars(yield_call(t))
    /\ WF_vars(timer_tick)

-----------------------------------------------------------------------------
(* Properties. *)

\* Task t sleeps in signal_wait_set: none of its signals is pending.
Asleep(t) == pc[t] \in Waits /\ ~signal_peek(t, requested_signals[t])

\* No wake-up of try_put is lost: a task asleep in a get, with or without a
\* timeout, is registered with the queue and the queue is empty.
ReceiversWoken ==
    \A t \in Tasks : (pc[t] \in GetWaits /\ Asleep(t)) =>
        message_queue_waiters[t] = obj[t] /\ Empty(obj[t])

\* No wake-up of try_get is lost: a task asleep in a put, with or without a
\* timeout, is registered with the queue and the queue is full.
SendersWoken ==
    \A t \in Tasks : (pc[t] \in PutWaits /\ Asleep(t)) =>
        message_queue_waiters[t] = obj[t] /\ Full(obj[t])

\* One signal serves mutexes, queues, sleeps and timeouts; it is never left
\* behind by a call that no longer needs it, to be taken for the end of a later
\* one: it is pending only in a task that is waiting for it, and the timer of
\* a task in application code is disabled, as the queues' own check asks.
TimerSignalIsExpected ==
    \A t \in Tasks :
        /\ TASK_TIMER \in PENDING_SIGNALS[t] => pc[t] \in TimerWaits \cup BlockLabels
        /\ pc[t] = "app" => ~timers[task_timers(t)].enabled

\* No wake-up of mutex_unlock is lost: a task asleep in a lock is registered
\* with the mutex, which another task holds.
MutexWaitersRegistered ==
    \A t \in Tasks : (pc[t] = "lock_wait" /\ Asleep(t)) =>
        mutex_waiters[t] = obj[t] /\ holder[obj[t]] \notin {t, TASK_ID_NONE}

\* A task asleep in sleep, or in a put or a get with a timeout, has its timer
\* running, and it expires when exactly the time of the call has passed,
\* however often a queue or a mutex woke the task and however late it got the
\* CPU.  Excepted is a call that was still under way when the tick counter
\* wrapped after its timeout: the code does not bound it (KochabLateWait shows
\* this for the same comparison in mutex_lock_timeout).
TimedWaitsArmed ==
    \A t \in Tasks : (pc[t] \in TimedWaits \cup {"sleep_wait"} /\ Asleep(t)) => ExpiresInTime(t)

\* The CPU sleeps in wfi only when nothing is left to do: no event and no tick
\* is pending, and every task waits for a signal that it has not been sent.
IdleHasNoWork ==
    phase = "idle" =>
        /\ interrupt_event = {} /\ timer_pending_ticks = 0
        /\ \A t \in Tasks : Asleep(t)

\* The queues implement bounded first-in/first-out channels: no message is
\* lost, duplicated or reordered, whichever tasks put and get and however
\* they wait.
FifoChannel == INSTANCE Fifo WITH
    Channels <- Queues, Capacity <- QueueLength, Readers <- Tasks, Values <- Contents,
    channel <- [q \in Queues |-> Queued(q)], delivered <- received

ImplementsFifo == FifoChannel!Spec

\* The round robin: a runnable task gets the CPU.
RunnableTaskRuns ==
    \A t \in Tasks : runnable[t] ~> ((phase = "task" /\ current_task = t) \/ phase = "fatal")

\* A task asleep in sleep, or in a put or a get with a timeout, is woken,
\* whatever happens to the queue.
TimedWaitEnds ==
    \A t \in Tasks : (pc[t] \in TimedWaits \cup {"sleep_wait"} /\ Asleep(t)) ~> (~Asleep(t) \/ phase = "fatal")
=============================================================================

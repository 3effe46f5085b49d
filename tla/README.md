# A TLA+ verification of the eChronos RTOS

eChronos is a real-time operating system generated from components.  A *variant*
(Kochab, Phact, Rigel, ...) picks a scheduler, a context switch and a set of API
components, and a Python module renders their templates into one C file for a given
system configuration.  This directory models the three large variants:

* **Kochab** on ARMv7-M: preemptive tasks, priority inheritance, signals, timers, interrupt
  events, mutexes and semaphores;
* **Rigel** on ARMv7-M: cooperative tasks, round robin, signals, task timers, interrupt
  events, mutexes and message queues;
* **Phact** on ppce500: preemptive tasks, priority ceilings, signals, task timers,
  interrupt events and mutexes, with preemption and event handling in software.

The small variants and the host platform are inventoried below and not modelled.

## 1. Inventory

Sources are under `src/components/<name>/implementation.c` unless said otherwise.

| component | state | operations | interacts with |
|---|---|---|---|
| task | `current_task`, one context per task | get_current_task | everything |
| sched-prio-inherit | `blocked_on` per task | set_runnable, set_blocked_on, get_next | called by kochab and by interrupt-event |
| signal | pending signals per task | wait_set, poll_set, peek_set, send_set | block_on / unblock of the variant |
| timer, timer-armv7m | `timers[]`, current ticks, pending ticks | enable, disable, oneshot, sleep, check_overflow, remaining, reload_set, signal_set, error_set, tick, tick_process | sends signals; one timer per task serves sleeps and timed waits |
| blocking-mutex | holder per mutex, `mutex_waiters` per task, statistics | lock, lock_timeout, try_lock, unlock | waits for TASK_TIMER, names the holder as the blocker |
| simple-semaphore | value and maximum, `sem_waiters` per task | wait, wait_timeout, try_wait, post, max_init | waits for TASK_TIMER |
| interrupt-event (+ -armv7m, -signal) | event bits, `system_is_idle` | raise (in interrupt handlers), process, wait, get_next | sends signals, calls the scheduler, sleeps in wfi |
| context-switch-preempt-armv7m, `packages/armv7m/*.s` | PendSV bit, BASEPRI, saved contexts | preempt_enable, preempt_disable, yield (svc), preempt_pend, PendSV handler, interrupt trampolines | enters the scheduler |
| kochab, `components/kochab.py` | `task_timers` | block_on, unblock, timed blocks, start; sorts the tasks by priority, adds TASK_TIMER and the task timers | composes all of the above |
| error | – | api_assert, fatal_error | stops the system |
| message-queue | ring buffers, `message_queue_waiters` per task | put, get, try_put, try_get, put_timeout, get_timeout | waits for TASK_TIMER, sleeps in the timed calls |
| sched-rr | runnable flags, the index of the last pick | set_runnable, set_blocked, get_next | called by rigel and by interrupt-event |
| rigel, `components/rigel.py` | `task_timers` | yield, block, unblock, task_start, start; reserves TASK_TIMER and RTOS_UTIL | composes the cooperative variant |
| sched-prio-ceiling | one `locked_by` entry per task and per mutex | set_runnable, set_blocked, set_mutex_locked_by, set_mutex_unlocked, get_next | called by phact and by interrupt-event |
| phact, `components/phact.py` | `task_timers` | block, unblock, mutex_core_locked_by, mutex_core_unlocked, start; sorts tasks and mutexes into one table | composes the variant with ceilings |
| context-switch-preempt-ppce500, `packages/ppce500/vectable.s` | `preempt_disabled`, `preempt_pending`, a restore status per context | preempt_enable, yield, the scheduler wrapper of interrupt handlers, the switch | enters the scheduler |
| interrupt-event-ppce500, timer-ppce500 | event word, pending ticks | raise, process, wait, tick | as the armv7m ones, without atomic bit access |
| sched-prio, simple-mutex, kraz, gatria, acrux, acamar | runnable flags, locked flags | yield, yield_to, block, unblock | small cooperative variants |
| interrupt-event-posix, timer-posix | event word, pending ticks | raise, process, wait | host platform |
| profiling, reentrant, preempt-null, stack-*, *-stub, *-test | | | no behaviour of the RTOS |
| `prj/`, `x.py`, `pylib/`, `packages/machine-*`, `tools/`, `external_tools/`, `pm/` | | | build tool, scripts, machine support, vendored tools, records |

What is hard here:

* **Interleaving.**  A task may be preempted wherever preemption is enabled, and an
  interrupt may arrive between any two instructions.  Five components change the state of
  the scheduler; each change must reach the CPU.
* **Cached state.**  `blocked_on` copies the holder of a mutex, `mutex_waiters` and
  `sem_waiters` copy who waits for what, a task timer copies a timeout.  Nothing updates
  the copies when the original changes; they must be exact when they are read.
* **One signal for everything.**  Mutexes, semaphores, queues, sleeps and timeouts all wake a
  task with the same TASK_TIMER signal.  A signal that arrives late is taken for another one.
* **One array of waiters.**  Senders and receivers of a queue wait in the same array, without
  their direction; a wake-up must come exactly when the queue leaves full or empty.
* **No atomic access.**  On ppce500 the event word is changed by loads and stores, and
  preemption is two flags that handlers, tasks and the scheduler all write.
* **Wrapping counters.**  Ticks are 32 bits, expiries 16 bits, semaphore values 8 bits or
  more; timers fire on equality.
* **Liveness.**  The scheduler follows `blocked_on` with no bound, an idle CPU sleeps until
  an interrupt, and a timed wait must end.

The hazards, each at its line, are in `PROJECT.json`.

## 2. Modules

| module | models | remarks |
|---|---|---|
| `Task` | task identifiers and TASK_ID_NONE | a smaller identifier is a higher priority, as `kochab.py` and `phact.py` number them |
| `SchedPrioInherit` | the scheduler's state, and `sched_get_next` by what it returns | the walk along `blocked_on` is the least closed set around its start, so that no recursion is needed |
| `SchedPrioInheritLoop` | the two loops of `sched_get_next`, one step per iteration | starts in every `blocked_on` |
| `Signal`, `Timer`, `BlockingMutex`, `SimpleSemaphore`, `InterruptEvent` | the state of each component and the effect of its internal functions on it | parameters carry named assumptions |
| `Kochab` | the composition: every API function, the scheduler's entries, PendSV and the interrupt handlers | the specification `Spec`, with fairness `FairSpec`, and the properties |
| `SchedRR` | the round robin scheduler | `sched_get_next` by the distance from the last pick |
| `MessageQueue` | ring buffers and waiters, and what one put or get does to them | the messages of a queue are read off the ring by `Queued` |
| `Fifo` | bounded FIFO channels: what message queues promise | the abstract specification that `Rigel` implements |
| `Rigel` | the cooperative composition | `Spec`, `FairSpec` and the properties |
| `SchedPrioCeiling` | the table of tasks and mutexes | |
| `Phact` | the composition with ceilings, on ppce500 | its own preemption flags and event word; no idle phase, see below |
| `MCRigel`, `MCPhact` | who calls what on which objects | |
| `MCKochab` | which task calls what, and the configured timers and events of the runs | |
| `SchedPrioInheritLemmas`, `SchedPrioInheritProofs` | facts about the walk; the loops implement the definition | |
| `TimerLemmas` | facts about the timers and about counters that wrap | cited by the proofs about every variant |
| `KochabTypes`, `KochabProofs` | type correctness; the safety theorems of Kochab | |
| `RigelTypes`, `RigelProofs` | type correctness; the refinement and the safety theorems of Rigel | |
| `PhactProofs` | type correctness and the safety theorems of Phact | |

Definitions have the names of the functions they model.  Where one C function takes several
steps (`mutex_lock` and its loop, for instance) the later steps have a suffix (`_loop`,
`_store`).  A public function with the name of an internal one has `_call` or a shorter
name.  Definitions marked *Mutant* are faulty variants that show that a property can fail.

**State.**  The scheduler, signals, timers, mutexes, semaphores and events are as in C.
`phase` says what the CPU does: it runs `current_task`, it is at one of the calls of
`rtos_internal_interrupt_event_get_next` (`events`, `ticks`, `pick`, `wait`), it sleeps in
wfi (`idle`), it turns in `sched_get_next` for ever (`diverged`) or it stopped in
`fatal_error` (`fatal`).  `pc[t]` is where task t is inside the RTOS, `obj`, `arg`,
`requested_signals` and `blocker` are the locals of that call.  Whether preemption is
disabled is a function of `pc`: the context switch saves and restores it with the context
(CONTEXT_PREEMPT_DISABLED), so it belongs to the task and not to the CPU.  `urgent` is a
history variable: what handlers raised asking for preemption and the scheduler has not yet
taken up.

`time_left` is a history variable of all three variants: the ticks that task t's call with a
timeout has left, set when the call starts, taken down by one with every tick that is processed, and 0
between calls.  No action reads it.  The code knows the timeout only as an absolute tick, which
it compares with a counter that wraps; `time_left` is the true time that it is checked against.
Once the time is up and the counter then begins anew while the call is still under way, it is
`WRAPPED`: from there on the comparison of the code says that the timeout is ahead.

**Grain.**  A step is a stretch of code that runs with preemption disabled up to the point
where it gives up the CPU, or one call in the scheduler's loop.  Code that runs with
preemption *enabled* and reads a variable before it disables preemption is cut there:
`mutex_lock_timeout` and `sem_wait_timeout` (they compute the absolute timeout first) and
`sem_max_init` (which never disables it).  The check of the mutex holder at the start of
`mutex_lock` and `mutex_unlock` is not cut: it compares the holder with the caller, and
only the caller can change the outcome.  Interrupts stay enabled throughout, but a handler
writes only `interrupt_event`, `timer_pending_ticks` and PendSV.  These are read by the
scheduler's calls, which are steps of their own, and by PendSV, so a handler commutes with
the rest of every step.  `interrupt_event_process` takes one snapshot of the events and
clears single bits through the bit-band alias: an event that is raised during its loop is
either one of the snapshot that is not yet cleared, and counts as raised before, or it
stays set for the next entry.

*Rigel* is cooperative: a step is what a task executes up to the point where it yields or
blocks, and the handlers' writes are read only by the scheduler's calls.  *Phact* has the
grain of Kochab with two differences.  A handler that asks for preemption sets
`preempt_pending` and, unless preemption is disabled, enters the scheduler on the stack of
the task it interrupted, so preemption is state of the CPU here: `preempt_disabled`,
`preempt_pending`, and `restore_disabled[t]`, the PREEMPT_RESTORE_DISABLED bit in the saved
context of t; `return_disabled` is the parameter of the `yield_common` that is under way.
And `interrupt_event &= ~(1U << i)` is two steps, a load and a store, with handlers in
between; `raised` is a history variable, the events raised and not handled since.  The
scheduler of Phact never returns TASK_ID_NONE: when no task is runnable it returns the
last task of its table, which blocks again at once.  There is then no wfi: the CPU
turns in the scheduler, in the context of that task.

**Abstractions.**  A signal set is a set of labels.  Error codes, the identifiers that
`assert_*_valid` rejects, and the values that functions return without changing state
(`signal_peek_set`, `timer_remaining`, `mutex_holder_is_current`) are left out; failed
`try_` calls change nothing and are stutters.  A message is one value, copied in one piece.
Internal assertions (`internal_asserts`, off by default) are left out: among
them `message_queue_invariants_check`, and the two that stop a timed put or get near the wrap of
the ticks.  Of a timer's error only whether it is set is kept.  After a fatal error nothing
is executed, so what it leaves half done is not modelled.  API assertions are compiled in
(`api_asserts`).  Signal API calls name application signals only: TASK_TIMER is reserved.
Task functions do not return, and interrupt handlers call only `interrupt_event_raise` and
`timer_tick`, as the manual requires.

## 3. Runs

Bounds are the constants of each `.cfg`; the widths of the counters are small so that they
wrap several times within a run, and there is no other bound.

| run | instance | checks |
|---|---|---|
| `SchedPrioInheritLoop` | 4 tasks, every `blocked_on` (625 initial states), chains of length up to 4 and cycles | `LoopImplements`, `LoopPicksEffectivePriority`, `LoopTerminates` |
| `KochabMutex` | 3 tasks, 2 mutexes, signals, 1 event; chains of two mutexes and a medium task that is preempted are reached | `RunningIsScheduled`, `BlockedOnIsExact`, `PriorityInheritance`, `MutexWaitersRegistered`, `DivergesOnlyInDeadlock` |
| `KochabSem` | 3 tasks, 1 semaphore with a maximum, sleeps, 1 event and the tick, from handlers that do and do not ask for preemption: two tasks wait at once; one task initialises the maximum, once and only once as the manual asks | `SemWaitersRegistered`, `SemValueWithinMax`, `SemValueIsKept`, `NoLostPreemption`, `IdleHasNoWork` |
| `KochabTimeouts` | 2 tasks, 1 mutex and 1 semaphore with timeouts of 1 tick, 1 event, absolute ticks modulo 4, expiries modulo 2: both wrap, the former half as often; under `FairSpec` | `BlockedOnIsExact`, `SemWaitersRegistered`, `TimedWaitsArmed`, `TimedWaitEnds`, `UrgentEventsHandled` |
| `KochabTimers` | the whole timer API on 2 periodic timers, reloads 0 and 1 | `TypeOK`, `TimersFireInRange` |
| `RigelQueue` | 3 tasks on one of 2 queues of length 2, with 2 messages: a sender, a receiver, and a task that does both with timeouts of 0 and 1 and shares a mutex with the sender | `TypeOK`, `ReceiversWoken`, `SendersWoken`, `TimerSignalIsExpected`, `MutexWaitersRegistered`, `TimedWaitsArmed`, `IdleHasNoWork`, `ImplementsFifo` |
| `RigelApi` | 2 tasks, 1 queue of length 1, sleeps and gets with a timeout, a task started by the other, 1 event whose task is changed, the tick; under `FairSpec` | `RunnableTaskRuns`, `TimedWaitEnds` |
| `Phact` | 3 tasks; mutex 0 of tasks 0 and 1, mutex 1 of tasks 1 and 2; a lock with timeouts of 0 and 1, sleeps, signals, 1 event, the tick | `TypeOK`, `CeilingProtocol`, `MutexWaitersRegistered`, `PreemptionFlags`, `RaisedEventIsKept`, `BlockedTaskOnlyWaits`, `TimedWaitsArmed`, `CeilingAvoidsBlocking` |

Priority inheritance needs three tasks (the urgent one, the holder, and one in between);
every other question is about one waiter and one other task.  Identifiers are priorities,
so no symmetry is used for tasks; messages are symmetric in `RigelQueue`.  `RigelQueue` has
two queues because `try_get` compares the messages left with the number of queues: with
queues of length 2 that is what it should compare with, and all that a queue promises can be
checked (`RigelSenderForgotten` has one queue, and it is not).  A queue of length 2 is the
smallest that can be neither full nor empty.  `Recipients`, the tasks that signals are sent
to, bounds the runs of Rigel and Phact.  With one event `RaisedEventIsKept` holds, whatever
the handler interrupts; with two it does not (`PhactEventLost`).  Deadlock is checked in all
runs of the variants: an idle CPU waits for an interrupt, and a fatal error or the divergence of the scheduler is a
step of its own (`Stopped`).  The loops of `sched_get_next` do stop, when they return.

In `KochabTimeouts` task 1 takes the mutex with `mutex_try_lock` only, so that every task that waits
does so with a timeout; in `RigelQueue` the sender gives up the CPU only in `message_queue_put`
and `mutex_lock`.  `TimedWaitsArmed` says of every task asleep in a timed call that its timer is
running and expires when exactly `time_left` more ticks have come, neither before nor after, with
one exception, `WRAPPED`; the run `KochabLateWait` shows what happens then.
`TimedWaitEnds` says that every timed wait is woken, not that the call returns: that needs the
CPU, which an urgent task may keep.

**Fairness.**  `FairSpec` says that RTOS code is executed (weak fairness of the scheduler's
steps, a pending PendSV among them, and of the tasks inside a call, taken together: the one CPU does
not stop), and that the tick interrupt keeps coming, from a handler
that returns true.  The application is free to compute for ever between two calls.

In Rigel a task that never yields stops all others, and the manual asks every task to yield
or block at least once per timer period (`rigel/docs.md:93`).  `FairSpec` of `Rigel` states
this as strong fairness of `yield`: a task may go on calling functions that do not yield,
but not for ever.  Weak fairness would not do, because `yield` is disabled inside the other
calls.  The CPU and the tick are as in Kochab.

**Refinement.**  `ImplementsFifo` maps the ring buffer of every queue to the sequence of its
messages and what each task has received last to `delivered`; every step of Rigel is then a
put or a get of `Fifo`, or leaves both alone.  `Fifo` promises that every message put is delivered
once and in order; which message a put stores is the choice of its caller.

**Disagreements with the documentation** (runs that are expected to fail):

* `KochabSleepEarly`: a timed lock that fails leaves its caller in `mutex_waiters`; the
  next unlock sends it TASK_TIMER, and if the task sleeps by then the sleep ends early.
  The manual says that a sleep lasts the specified number of ticks.
* `RigelSenderForgotten`: `message_queue_try_get` wakes the waiters when the number of
  messages left is the number of *queues* minus 1.  With one queue of length 2, a task that
  waits to put is not woken when the full queue gets room.  The manual says that it waits
  until another task removes a message.
* `KochabLateWait`: `mutex_lock_timeout` compares its absolute timeout with the tick counter as
  plain numbers.  If the time passes and the counter wraps before the task gets to compare them
  (it is preempted after it computed the timeout, or not scheduled after it timed out), the timeout
  seems to be ahead, and the task sleeps again after its time is up, for up to a turn of a
  timer.  The manual bounds the time that it is blocked by the timeout.  `sem_wait_timeout`,
  Phact's `mutex_lock_timeout` and the puts and gets with a timeout (where other tasks have to
  keep the CPU from the time-out until the counter has wrapped) have the same comparison.
* `PhactEventLost`: on ppce500, an event that a handler raises between the load and the store
  that clear another event is overwritten.  The manual says that raising an event sends its
  signals, and that the API avoids data races.

Three more disagreements have no run:

* `timer_oneshot` passes its timeout in the reload field and leaves 0 there, as the model does.
  The manual (`src/components/timer/docs.md:163` and `:246`) says that a timer enabled again starts
  from its configured reload value; after a one shot it expires at once.
* Tasks that lock mutexes in opposite orders form a cycle in `blocked_on`, and `sched_get_next`
  never returns.  The tick is not processed any more, so a lock with a timeout, which the manual
  bounds by it (`src/components/blocking-mutex/docs.md:168`), does not return either.  That it
  happens in a deadlock only is `DivergesOnlyInDeadlock` and the theorem `DivergenceIsDeadlock`.
* When the absolute timeout of a put or a get itself wraps, the call finds it in the past and
  fails without waiting, where the manual (`src/components/message-queue/docs.md:111` and `:170`)
  says that it waits until `timeout` ticks elapse.  An internal assertion
  (`message-queue/implementation.c:292` and `:359`, off by default) stops the system in this case.
  It does not cover the late wait, since that call may begin long before the wrap.

## 4. Proofs

All theorems hold for every number of tasks, mutexes, semaphores, queues, timers and events,
every width of the counters and every choice of calls.  The assumptions are the named ASSUMEs
of the modules: `NAssumption` (there is a task), `SignalAssumption` (TASK_TIMER is not an
application signal), `TimerAssumption` (the tick types are moduli that divide each other),
`MutexAssumption`, `SemAssumption`, `EventAssumption`, `QueueAssumption` (types of the
configuration; a queue has a length of at least 1), `CeilingAssumption` (the table of tasks and
mutexes as `phact.py` sorts it), and `KochabAssumption`, `RigelAssumption` and
`PhactAssumption` (what the calls are given has its type).  A theorem that needs more says so
as a hypothesis.

| module | theorem | statement |
|---|---|---|
| `SchedPrioInheritProofs` | `SchedGetNextCorrect`, `SchedGetNextInherits` | `[]LoopImplements`, `[]LoopPicksEffectivePriority` |
| `KochabTypes` | `TypeCorrect` | `[]TypeOK` |
| `KochabProofs` | `WaitsCorrect`; `BlockedOnCorrect`, `MutexWakeups`, `SemWakeups` | `[](TypeOK /\ WaitInv)`; `[]BlockedOnIsExact`, `[]MutexWaitersRegistered`, `[]SemWaitersRegistered` |
| | `CpuCorrect`; `RunningCorrect`, `PreemptionNotLost`, `IdleCorrect`, `InheritanceCorrect` | `[](TypeOK /\ WaitInv /\ CpuInv)`; `[]RunningIsScheduled`, `[]NoLostPreemption`, `[]IdleHasNoWork`, `[]PriorityInheritance` |
| | `TimersCorrect` | `ConfiguredInRange => []TimersFireInRange` |
| | `TimeoutsCorrect` | `[]TimedWaitsArmed` |
| | `SemMaxCorrect`, `SemValueCorrect` | `OneInitializer => []SemValueWithinMax`, `OneInitializer /\ SemEnableMax => SemValueIsKept` |
| | `DivergenceIsDeadlock` | `[]DivergesOnlyInDeadlock` |
| | `LockOrderSuffices` | `[](LockOrder(rank) => phase # "diverged")`, for any `rank` of the mutexes |
| `RigelTypes` | `TypeCorrect` | `[]TypeOK` |
| `RigelProofs` | `QueuesAreFifo` | `ImplementsFifo` |
| | `WaitsCorrect`; `ReceiverWakeups`, `SenderWakeups` | `[](TypeInv /\ WaitInv)`; `[]ReceiversWoken`, `LengthsMatch => []SendersWoken` |
| | `TimerSignalOnlyWhenExpected` | `[]TimerSignalIsExpected` |
| | `MutexWakeups`, `IdleCorrect` | `[]MutexWaitersRegistered`, `[]IdleHasNoWork` |
| | `TimeoutsCorrect` | `[]TimedWaitsArmed` |
| `PhactProofs` | `TypeCorrect`, `FlagsCorrect` | `[]TypeOK`, `[]PreemptionFlags` |
| | `CeilingCorrect`, `WaitersRegistered`, `BlockedOnlyWaits` | `[]CeilingProtocol`, `[]MutexWaitersRegistered`, `[]BlockedTaskOnlyWaits` |
| | `SingleEventIsKept` | `NumEvents <= 1 => []RaisedEventIsKept` |
| | `EventsAreKept` | `[][~RaisesDuringClear]_vars => []RaisedEventIsKept` |
| | `TimeoutsCorrect` | `[]TimedWaitsArmed` |
| | `CeilingsAvoidBlocking` | `CeilingAvoidsBlocking`: `[]SleepersHoldNothing` implies that no task ever waits for a mutex |

Each statement is about the `Spec` that its module, or the module it is about, defines.

*The scheduler of Kochab.*  `SchedPrioInheritLemmas` shows that the walk from a task is the
task and the walk from its blocker, and that it has at most one end.  The loop invariant then
says that the walk from the current `idx` agrees with the walk from the local `task`, and
that every smaller index was passed.

*Waits in Kochab.*  `WaitInv` strengthens `BlockedOnIsExact` and the two registration
properties, which are not inductive by themselves: they have to be carried through the part
of a timed call between registering and blocking (`lock_timeout_block`,
`sem_timeout_block`), where the task is not yet asleep, nobody else runs and the mutex must
stay held.  `WaitInv` also says which signal a wait is for, that the blocker of a wait for no
mutex is TASK_ID_NONE, that a task which is inside a call with preemption disabled is the
running one, and that nobody waits for a mutex it holds.  Most steps only wake other tasks;
the lemma `Bystander` covers these.

*The CPU in Kochab.*  `CpuInv` adds that from the point where the scheduler chose to wait no
task is runnable.  Every step of a task either leaves `blocked_on` alone, pends a preemption
or enters the scheduler (`TaskSideHolds`).  `PriorityInheritance` follows from
`RunningIsScheduled` and `BlockedOnIsExact`: both arguments of `sched_get_next` agree on
every walk that matters (`NextIgnoresOthers`).

*Divergence in Kochab.*  `DivergedInv` says that `sched_get_next` has no result in a state
where the CPU has diverged.  Then, by `DivergesInCycle`, there is a non-empty set of tasks
whose `blocked_on` stays in the set, and `BlockedOnIsExact` turns this into tasks that each
sleep in a lock of a mutex that another of them holds.  If every task that waits
for a mutex holds only mutexes of a higher rank, there is no such set: the holder of the lowest
mutex that they wait for would wait for a lower one.

*Timers.*  `TimersFireInRange` is inductive together with the types.  `TimerSteps` reduces
every step of a task to `TimerSet`, one timer that is started for less than a turn of the
counter, or keeps its expiry, or is stopped; `ModDiffers` says that such a start does not meet
the tick that is being processed.  The hypothesis `ConfiguredInRange` excludes a timer that is
enabled at start without a reload value: its expiry is 0, where the counter begins, and it
fires after the counter has wrapped.

*Timeouts.*  `TimedWaitsArmed` speaks of the true time, `time_left`, and the code of its absolute
timeout.  `ClockOK` relates the two: as long as time is left, the absolute timeout is the
current tick plus the time left, modulo the counter; once it is up, the timeout is not larger than
the current tick, until the counter wraps (`OnClock`, established by `ClockStarts` and kept by
`ClockTicks`).  A call that finds its timeout ahead has therefore time left, or was left behind
by a wrap; if time is left, the timer it starts with the difference, cut to 16 bits,
expires exactly then (`TimerInTime`), although the two counters wrap at different widths.  A tick
that does not fire the timer leaves it so (`TickInTime`).  `ArmOK` carries this through the step
between starting the timer and blocking, and through wake-ups: the task has its timer signal or
its timer is armed.  It also says that a task timer keeps its owner and signal and never raises an
error.  The exception of a wrap is in the statement, not in a hypothesis: without it the
theorem is false, as `KochabLateWait` shows.

*Semaphores.*  `MaxInv` says that an unset maximum is 0, that no value is larger than its
maximum, and that a task between the check and the store of `sem_max_init` finds the maximum
still unset.  The last needs `OneInitializer`: these two steps run with preemption enabled, and
with two callers both may pass the check.  The manual asks for one call per semaphore.

*Queues.*  `QueuesAreFifo` maps every step: `store` appends to the sequence of a queue's
messages (`StoreAppends`), `remove` takes its first (`RemoveTakesOldest`), both by cases on the
wrap of the ring (`SlotWraps`), and every other step leaves all sequences and all received
messages as they are.

*Waits in Rigel.*  `WaitInv` says, as in Kochab, that what a call has seen before it waits
(the queue is empty or full) still stands when it blocks, because nobody else runs in between,
and that a sleeper is registered with a queue that still refuses it.  For senders this is true
only under `LengthsMatch`, every queue as long as there are queues: otherwise `try_get`
compares with the wrong number, and `RigelSenderForgotten` shows the lost wake-up.
`TimerInv` says who may have the TASK_TIMER signal pending, whose timer may run and who may be
registered, label by label; all three are needed at once, since each of them is a source of the
signal.

*Mutexes, flags and timed waits in Rigel.*  `MutexInv` adds to the registration
that a task inside a lock does not hold the mutex it locks, so that a holder's own steps
disturb no wait of its own.  `RunInv` says
that only tasks that sleep are not runnable: every signal that wakes a task also sets
its flag, so when round robin finds nobody there is nobody.  `ArmInv` is the
invariant of the timed puts, gets and sleeps, with the two parts it has in Kochab (`ClockOK` and
`ArmOK`).  A queue or a mutex may wake the task any number of times in between, and the timer is
then started again with what is left.

*Counters that wrap.*  The proofs of `TimeoutsCorrect` about Kochab, Rigel and Phact share the
lemmas of `TimerLemmas` about one timer and one call: `ClockStarts`, `ClockTicks`, `TimerInTime` and
`TickInTime` (see Timeouts), on top of `OneshotExpiry` (a timer started with a difference of
absolute ticks expires at their end), `ModAdvance`, `ModTurn` and `TickEffect` (what a tick does to
one timer).

*Phact.*  The type invariant needs `TableOK`, the shape of the scheduler's table: the entry of
a mutex names its holder, the entry of a task names the task or nobody.  Without it
`sched_get_next` may return no task at all.  `FlagsOK` says which copy of the preemption flag
(the CPU's, the parameter of the yield under way, the saved contexts) stands for which task.
`WakeInv` relates the table to the tasks: a task that is not on the table sleeps (`SleepOK`), a
sleeper in a lock call is registered with a held mutex (`LockOK`), and a task that runs without a
pending preemption has the highest effective priority (`TopOK`).  Every step is first reduced
to its effect on the other tasks (`Quiet`), on the mutexes (`HolderEffect`) and on the top
priority (`Calm`); the invariant is proved from these.

*Events in Phact.*  `EventsOK` says that a raised event is in the word or in the snapshot that
is being processed, and between the load and the store of a clear in what will be stored.  The
second is what another handler can break: it adds an event to the word that the store then
overwrites.  With one event it is harmless, because the event is the one being cleared; with more
it needs the hypothesis that no handler raises an event between these two instructions, which is
what disabling interrupts around them would give.  `PhactEventLost` shows the loss without it.

*Ceilings in Phact.*  `CeilingInv` says that of two tasks that hold mutexes one has preempted
the other, so that its own priority, without that of its mutexes, is higher than every
priority of the other.  A task that gets to run while another holds a mutex is therefore above
the ceiling of that mutex, and is not among the tasks that may lock it.  This needs the
hypothesis `SleepersHoldNothing`: a task that sleeps with a mutex lets lower ones run.

*Timed waits in Phact.*  `mutex_lock_timeout` computes its absolute timeout with preemption
enabled, so any number of ticks may pass before it compares, blocks, or starts its timer again; only
a wrap of the counter after the timeout makes it go to sleep late, and is excepted.  The comparison, the start of the timer and the block are one stretch without preemption, so `ArmInv`
speaks of the waits alone, besides `ClockOK`: a task in one requests its timer signal only, and has it pending or has
its own timer armed.

*Only model-checked*: the liveness properties `LoopTerminates`, `TimedWaitEnds`,
`UrgentEventsHandled` and `RunnableTaskRuns` (liveness under fairness is outside the prover's
reach).  Every safety property of the runs that pass is proved.

## 5. Not modelled

* Mutex statistics; registers, stacks and floating point contexts of the switches.
* In Phact: semaphores and the timer API, which are the same source as in Kochab.  Phact on
  ARMv7-M shares its platform with Kochab.
* `system_is_idle`, which only the profiling component reads.
* Internal assertions, which are compiled out by default.  One of them demands that a task
  registered with a queue is not runnable, which is not so after a timeout.
* The host platform (posix), where handlers are unix signals.
* The small variants: Kraz, Gatria, Acrux and Acamar compose parts of what Rigel composes, and
  `simple-mutex` is a flag that tasks poll; `sched-prio` is `sched-prio-ceiling` without mutexes.
* Nothing in the code keeps a task from sleeping, or from waiting for a signal, with a mutex.
  `CeilingAvoidsBlocking` says what holds for tasks that do not; what becomes of the others is
  covered by `MutexWaitersRegistered` and `TimedWaitsArmed`, and mutual deadlock is then possible.
* No run has a timer that is enabled at start without a reload value (see Timers above).
* The build tool and the scripts.

`PROJECT.json` lists each component with its reason.

## 6. Plan

1. The posix event word, at the grain of single reads and writes.
2. Semaphores and the timer API in Phact; mutex statistics.

---------------------------- MODULE KochabProofs ----------------------------
(***************************************************************************)
(* Safety of Kochab, for any configuration.                                *)
(***************************************************************************)
EXTENDS KochabTypes

\* Inside an API call, with preemption disabled and not waiting.
Uninterrupted == {"lock", "lock_timeout", "sem", "sem_timeout"} \cup BlockLabels

(***************************************************************************)
(* The inductive invariant of the waits, for one task.  What the proofs    *)
(* need besides the properties themselves: which signal a wait is for and  *)
(* on whom it blocks again, that a call which has registered as a waiter   *)
(* is not interrupted until it waits, and that no task waits for itself.   *)
(***************************************************************************)
WaitOK(u) ==
    /\ pc[u] \in TimerWaits => requested_signals[u] = {TASK_TIMER}
    /\ pc[u] \in Waits \ MutexWaits => blocker[u] = TASK_ID_NONE
    /\ pc[u] \in Uninterrupted => (phase = "task" /\ u = current_task)
    /\ pc[u] = "lock_timeout_block" => (mutex_waiters[u] = obj[u] /\ holder[obj[u]] # TASK_ID_NONE)
    /\ pc[u] = "sem_timeout_block" => (sem_waiters[u] = obj[u] /\ sem_value[obj[u]] = 0)
    /\ pc[u] \in MutexLabels => holder[obj[u]] # u
    /\ (pc[u] \in MutexWaits /\ Asleep(u)) =>
          /\ mutex_waiters[u] = obj[u]
          /\ holder[obj[u]] = blocker[u]
          /\ holder[obj[u]] \notin {u, TASK_ID_NONE}
    /\ (pc[u] \in SemWaits /\ Asleep(u)) => (sem_waiters[u] = obj[u] /\ sem_value[obj[u]] = 0)
    /\ blocked_on[u] # u => (Asleep(u) /\ blocked_on[u] = WaitsFor(u))

WaitInv == \A u \in Tasks : WaitOK(u)

\* A step keeps task u as the scheduler and the signals know it, or wakes it.
KeptOrWoken(u) ==
    \/ PENDING_SIGNALS'[u] = PENDING_SIGNALS[u] /\ blocked_on'[u] = blocked_on[u]
    \/ PENDING_SIGNALS[u] \subseteq PENDING_SIGNALS'[u] /\ blocked_on'[u] = u

-----------------------------------------------------------------------------
\* signal_send_set wakes its recipients and takes nothing from anyone.
LEMMA SendEffect ==
  ASSUME TypeOK, NEW T \in SUBSET Tasks, NEW sigs, signal_send_set(T, sigs)
  PROVE  \A u \in Tasks : /\ KeptOrWoken(u)
                          /\ u \in T => sigs[u] \subseteq PENDING_SIGNALS'[u]
  BY DEF TypeOK, SchedTypeOK, SignalTypeOK, signal_send_set, signal_set_pending, unblock, sched_set_runnable,
         KeptOrWoken

\* timer_enable and timer_oneshot send a signal or leave the tasks alone.
LEMMA TimerEffect ==
  ASSUME TypeOK, NEW k \in TimerIds,
         \/ timer_enable(k, timers[k])
         \/ \E timeout \in TicksRelative : timer_oneshot(k, timeout)
  PROVE  \A u \in Tasks : KeptOrWoken(u)
<1>1. PICK tm \in TimerRecord :
          \/ signal_send_set({tm.task_id}, [t \in {tm.task_id} |-> tm.signal_set])
          \/ UNCHANGED <<blocked_on, PENDING_SIGNALS, preempt_pending>>
  <2>1. timers[k] \in TimerRecord /\ [timers[k] EXCEPT !.reload = 0] \in TimerRecord
    BY TimerAssumption DEF TypeOK, TimerTypeOK, TimerRecord, TicksRelative
  <2>2. \A tm \in TimerRecord : timer_enable(k, tm) =>
          \/ signal_send_set({tm.task_id}, [t \in {tm.task_id} |-> tm.signal_set])
          \/ UNCHANGED <<blocked_on, PENDING_SIGNALS, preempt_pending>>
    BY DEF timer_enable
  <2>3. CASE timer_enable(k, timers[k])
    BY <2>1, <2>2, <2>3
  <2>4. CASE \E timeout \in TicksRelative : timer_oneshot(k, timeout)
    <3>1. \/ timer_enable(k, [timers[k] EXCEPT !.reload = 0])
          \/ UNCHANGED <<blocked_on, PENDING_SIGNALS, preempt_pending>>
      BY <2>4 DEF timer_oneshot
    <3>2. QED
      BY <2>1, <2>2, <3>1
  <2>5. QED
    BY <2>3, <2>4
<1>2. tm.task_id \in Tasks
  BY DEF TimerRecord
<1>3. QED
  BY <1>1, <1>2, SendEffect DEF KeptOrWoken

\* A step of others that may wake task u but otherwise leaves it alone, and
\* leaves the object u waits for as it is unless it wakes u.
LEMMA Bystander ==
  ASSUME TypeOK, NEW u \in Tasks, WaitOK(u),
         pc'[u] = pc[u], obj'[u] = obj[u],
         requested_signals'[u] = requested_signals[u], blocker'[u] = blocker[u],
         KeptOrWoken(u),
         Asleep(u)' /\ pc[u] \in MutexWaits =>
             mutex_waiters'[u] = mutex_waiters[u] /\ holder'[obj[u]] = holder[obj[u]],
         Asleep(u)' /\ pc[u] \in SemWaits =>
             sem_waiters'[u] = sem_waiters[u] /\ sem_value'[obj[u]] = sem_value[obj[u]],
         pc[u] \in Uninterrupted => UNCHANGED <<phase, current_task, mutexVars, semVars>>,
         pc[u] \in MutexLabels => holder'[obj[u]] # u
  PROVE  WaitOK(u)'
<1>1. Asleep(u)' => Asleep(u)
  BY DEF Asleep, signal_peek, KeptOrWoken
<1>2. blocked_on'[u] # u => Asleep(u)'
  BY DEF Asleep, signal_peek, KeptOrWoken, WaitOK
<1>3. QED
  BY <1>1, <1>2 DEF WaitOK, WaitsFor, Uninterrupted, BlockLabels, mutexVars, semVars, KeptOrWoken

\* A task outside the waits and outside the calls that run with preemption
\* disabled only has to be runnable.
LEMMA Active ==
  ASSUME NEW u \in Tasks, pc'[u] \notin Waits \cup Uninterrupted, blocked_on'[u] = u,
         pc'[u] \in MutexLabels => holder'[obj'[u]] # u
  PROVE  WaitOK(u)'
  BY DEF WaitOK, Waits, TimerWaits, Uninterrupted, BlockLabels, Asleep

\* Taking a mutex does not disturb a task that waits, for it or another one.
LEMMA TakeEffect ==
  ASSUME TypeOK, NEW t \in Tasks, NEW m \in Mutexes, mutex_take(m, t),
         NEW u \in Tasks, u # t, WaitOK(u), Asleep(u)' => Asleep(u)
  PROVE  /\ Asleep(u)' /\ pc[u] \in MutexWaits =>
              mutex_waiters'[u] = mutex_waiters[u] /\ holder'[obj[u]] = holder[obj[u]]
         /\ pc[u] \in MutexLabels => holder'[obj[u]] # u
<1>1. pc[u] \in MutexLabels => obj[u] \in Mutexes
  BY DEF TypeOK, LocalsTypeOK
<1>2. pc[u] \in MutexWaits => pc[u] \in MutexLabels
  BY DEF MutexLabels
<1>3. QED
  BY <1>1, <1>2 DEF mutex_take, MutexFree, WaitOK, TypeOK, MutexTypeOK

\* A step of task t in which the mutexes and semaphores stay as they are, or
\* t takes one or registers with one, leaves every other task alone.
LEMMA OtherTasks ==
  ASSUME TypeOK, WaitInv, NEW t \in Tasks, t = current_task, NEW u \in Tasks, u # t,
         pc'[u] = pc[u], obj'[u] = obj[u],
         requested_signals'[u] = requested_signals[u], blocker'[u] = blocker[u],
         KeptOrWoken(u),
         \/ UNCHANGED mutexVars
         \/ \E m \in Mutexes : mutex_take(m, t) \/ mutex_wait(m, t),
         \/ UNCHANGED <<sem_value, sem_waiters>>
         \/ \E s \in Sems : sem_take(s) \/ sem_register(s, t)
  PROVE  WaitOK(u)'
<1>1. WaitOK(u) /\ pc[u] \notin Uninterrupted
  BY DEF WaitInv, WaitOK
<1>2. Asleep(u)' => Asleep(u)
  BY DEF Asleep, signal_peek, KeptOrWoken
<1>3. /\ Asleep(u)' /\ pc[u] \in MutexWaits =>
            mutex_waiters'[u] = mutex_waiters[u] /\ holder'[obj[u]] = holder[obj[u]]
      /\ pc[u] \in MutexLabels => holder'[obj[u]] # u
  <2>1. CASE \E m \in Mutexes : mutex_take(m, t)
    BY <1>1, <1>2, <2>1, TakeEffect
  <2>2. CASE UNCHANGED mutexVars
    BY <1>1, <2>2 DEF mutexVars, WaitOK
  <2>3. CASE \E m \in Mutexes : mutex_wait(m, t)
    BY <1>1, <2>3 DEF mutex_wait, WaitOK, TypeOK, MutexTypeOK
  <2>4. QED
    BY <2>1, <2>2, <2>3
<1>4. Asleep(u)' /\ pc[u] \in SemWaits =>
            sem_waiters'[u] = sem_waiters[u] /\ sem_value'[obj[u]] = sem_value[obj[u]]
  <2>1. pc[u] \in SemWaits => obj[u] \in Sems
    BY DEF TypeOK, LocalsTypeOK, SemLabels
  <2>2. CASE UNCHANGED <<sem_value, sem_waiters>>
    BY <2>2
  <2>3. CASE \E s \in Sems : sem_take(s) \/ sem_register(s, t)
    BY <1>1, <1>2, <2>1, <2>3 DEF sem_take, sem_register, WaitOK, TypeOK, SemTypeOK
  <2>4. QED
    BY <2>2, <2>3
<1>5. QED
  BY <1>1, <1>3, <1>4, Bystander

\* Waiting, resuming and the loops of the mutex and semaphore calls keep the
\* invariant of the waits.
LEMMA WaitInvTaskStep ==
  ASSUME TypeOK, WaitInv, NEW t \in Tasks, TaskStep(t)
  PROVE  WaitInv'
<1>t. t = current_task /\ phase = "task"
  BY DEF TaskStep, Entry, BlockTimed, WaitAgain, WaitEnd, PreemptDisable, mutex_lock_loop,
     mutex_lock_timeout_loop, sem_wait_loop, sem_wait_timeout_loop, sem_max_init_store,
     RunningEnabled, Running
<1>w. WaitOK(t)
  BY DEF WaitInv
<1>f. /\ pc \in [Tasks -> Labels] /\ obj \in [Tasks -> Mutexes \cup Sems \cup {NoObject}]
      /\ requested_signals \in [Tasks -> SUBSET Signals] /\ blocker \in [Tasks -> TaskIdOption]
      /\ blocked_on \in [Tasks -> TaskIdOption] /\ PENDING_SIGNALS \in [Tasks -> SUBSET Signals]
      /\ arg \in [Tasks -> TicksAbsolute \cup SemValue]
  BY DEF TypeOK, FrameTypeOK, SchedTypeOK, SignalTypeOK
<1>r. pc[t] \notin Waits => blocked_on[t] = t
  BY <1>w DEF WaitOK, Asleep
<1> SUFFICES ASSUME NEW u \in Tasks PROVE WaitOK(u)'
  BY DEF WaitInv
<1>1. CASE Entry(t)
  <2>1. CASE u # t
    BY <1>1, <1>t, <1>f, <2>1, OtherTasks DEF Entry, Return, Frame, waitVars, mutexVars, semVars, KeptOrWoken
  <2>2. CASE u = t
    <3>1. pc'[t] = "app" /\ blocked_on'[t] = t
      BY <1>1, <1>f, <1>r DEF Entry, Running, Return, Frame, Waits, TimerWaits, MutexWaits, SemWaits
    <3>2. QED
      BY <2>2, <3>1, Active DEF Waits, TimerWaits, MutexWaits, SemWaits, Uninterrupted, BlockLabels,
         MutexLabels
  <2>3. QED
    BY <2>1, <2>2
<1>2. CASE BlockTimed(t)
  <2>1. CASE u # t
    BY <1>2, <1>t, <1>f, <2>1, OtherTasks DEF BlockTimed, Frame, signal_wait_set_blocked_on,
       sched_set_blocked_on, mutexVars, semVars, KeptOrWoken
  <2>2. CASE u = t
    <3>1. pc[t] \in BlockLabels /\ blocked_on[t] = t
      BY <1>2, <1>r DEF BlockTimed, BlockLabels, Waits, TimerWaits, MutexWaits, SemWaits
    <3>2. /\ pc'[t] = WaitOf[pc[t]] /\ obj'[t] = obj[t] /\ requested_signals'[t] = {TASK_TIMER}
          /\ UNCHANGED <<PENDING_SIGNALS, mutexVars, semVars>>
      BY <1>2, <1>f DEF BlockTimed, Frame, signal_wait_set_blocked_on
    <3>3. /\ blocker'[t] = (IF pc[t] = "lock_timeout_block" THEN holder[obj[t]] ELSE TASK_ID_NONE)
          /\ blocked_on'[t] = (IF signal_peek(t, {TASK_TIMER}) THEN t ELSE blocker'[t])
      BY <1>2, <1>f, <3>1 DEF BlockTimed, signal_wait_set_blocked_on, sched_set_blocked_on
    <3>4. pc[t] \in {"lock_timeout_block", "sem_timeout_block", "sleep_block"}
      BY <3>1 DEF BlockLabels
    <3>5. pc[t] = "lock_timeout_block" => WaitOK(t)'
      BY <1>w, <3>2, <3>3 DEF WaitOK, WaitOf, Asleep, signal_peek, WaitsFor, MutexWaits, SemWaits,
         TimerWaits, Waits, Uninterrupted, BlockLabels, MutexLabels, mutexVars
    <3>6. pc[t] = "sem_timeout_block" => WaitOK(t)'
      BY <1>w, <3>2, <3>3 DEF WaitOK, WaitOf, Asleep, signal_peek, WaitsFor, MutexWaits, SemWaits,
         TimerWaits, Waits, Uninterrupted, BlockLabels, MutexLabels, semVars
    <3>7. pc[t] = "sleep_block" => WaitOK(t)'
      BY <1>w, <3>2, <3>3 DEF WaitOK, WaitOf, Asleep, signal_peek, WaitsFor, MutexWaits, SemWaits,
         TimerWaits, Waits, Uninterrupted, BlockLabels, MutexLabels
    <3>8. QED
      BY <2>2, <3>4, <3>5, <3>6, <3>7
  <2>3. QED
    BY <2>1, <2>2
<1>3. CASE WaitAgain(t)
  <2>1. CASE u # t
    BY <1>3, <1>t, <1>f, <2>1, OtherTasks DEF WaitAgain, frameVars, waitVars, sched_set_blocked_on,
       mutexVars, semVars, KeptOrWoken
  <2>2. CASE u = t
    <3>1. /\ blocked_on'[t] = blocker[t] /\ Asleep(t) /\ pc[t] \in Waits
          /\ UNCHANGED <<PENDING_SIGNALS, mutexVars, semVars, frameVars, waitVars>>
      BY <1>3, <1>f DEF WaitAgain, sched_set_blocked_on, Asleep
    <3>2. blocker[t] = WaitsFor(t)
      BY <1>w, <3>1 DEF WaitOK, WaitsFor
    <3>3. Asleep(t)' /\ WaitsFor(t)' = WaitsFor(t)
      BY <3>1 DEF Asleep, signal_peek, WaitsFor, frameVars, waitVars, mutexVars
    <3>4. pc[t] \notin Uninterrupted
      BY <3>1 DEF Uninterrupted, Waits, TimerWaits, MutexWaits, SemWaits, BlockLabels
    <3>5. QED
      BY <1>w, <2>2, <3>1, <3>2, <3>3, <3>4 DEF WaitOK, frameVars, waitVars, mutexVars, semVars,
         Uninterrupted, BlockLabels
  <2>3. QED
    BY <2>1, <2>2
<1>4. CASE WaitEnd(t)
  <2>1. CASE u # t
    <3>1. pc'[u] = pc[u] /\ obj'[u] = obj[u]
      BY <1>4, <1>f, <2>1 DEF WaitEnd, Return, Frame
    <3>2. QED
      BY <1>4, <1>t, <1>f, <2>1, <3>1, OtherTasks DEF WaitEnd, signal_recv, mutexVars, semVars, KeptOrWoken
  <2>2. CASE u = t
    <3>1. /\ pc'[t] = AfterWait[pc[t]] /\ pc[t] \in Waits
          /\ pc'[t] # "app" => obj'[t] = obj[t]
      BY <1>4, <1>f DEF WaitEnd, Return, Frame
    <3>2. blocked_on'[t] = t /\ UNCHANGED <<mutexVars, cpuVars>>
      BY <1>4, <1>w DEF WaitEnd, WaitOK, Asleep
    <3>3. /\ pc'[t] \in {"lock", "lock_timeout", "sem", "sem_timeout", "app"}
          /\ pc'[t] \in MutexLabels => pc[t] \in MutexLabels
      BY <3>1 DEF AfterWait, Waits, TimerWaits, MutexWaits, SemWaits, MutexLabels
    <3>4. pc'[t] \in MutexLabels => holder'[obj'[t]] # t
      BY <1>w, <3>1, <3>2, <3>3 DEF WaitOK, mutexVars, MutexLabels, MutexWaits
    <3>5. phase' = "task" /\ t = current_task'
      BY <1>t, <3>2 DEF cpuVars
    <3>6. QED
      BY <2>2, <3>2, <3>3, <3>4, <3>5 DEF WaitOK, Asleep, Waits, TimerWaits, MutexWaits, SemWaits
  <2>3. QED
    BY <2>1, <2>2
<1>5. CASE PreemptDisable(t)
  <2>1. CASE u # t
    BY <1>5, <1>t, <1>f, <2>1, OtherTasks DEF PreemptDisable, waitVars, mutexVars, semVars, KeptOrWoken
  <2>2. CASE u = t
    <3>1. /\ pc'[t] \in {"lock_timeout", "sem_timeout"} /\ pc[t] \notin Waits
          /\ pc'[t] = "lock_timeout" => pc[t] \in MutexLabels
          /\ UNCHANGED <<obj, blocked_on, mutexVars, cpuVars>>
      BY <1>5, <1>f DEF PreemptDisable, RunningEnabled, Running, Waits, TimerWaits, MutexWaits, SemWaits, MutexLabels
    <3>2. QED
      BY <1>w, <1>t, <1>r, <2>2, <3>1 DEF WaitOK, Asleep, Waits, TimerWaits, MutexWaits, SemWaits,
         MutexLabels, mutexVars, cpuVars
  <2>3. QED
    BY <2>1, <2>2
\* A call that has got its object, or gives up, returns to the application.
<1>a. ASSUME u = t, Return(t), pc[t] \notin Waits, blocked_on'[t] = t
      PROVE  WaitOK(u)'
  <2>1. pc'[t] = "app"
    BY <1>a, <1>f DEF Return, Frame
  <2>2. QED
    BY <1>a, <2>1, Active DEF Waits, TimerWaits, MutexWaits, SemWaits, Uninterrupted, BlockLabels,
       MutexLabels
<1>6. CASE mutex_lock_loop(t)
  <2>0. /\ obj[t] \in Mutexes /\ pc[t] = "lock" /\ pc[t] \notin Waits /\ pc[t] \in MutexLabels
    BY <1>6 DEF mutex_lock_loop, Running, TypeOK, LocalsTypeOK, MutexLabels, Waits, TimerWaits, MutexWaits, SemWaits
  <2>1. CASE u # t
    <3>1. pc'[u] = pc[u] /\ obj'[u] = obj[u]
      BY <1>6, <1>f, <2>1 DEF mutex_lock_loop, Return, Frame
    <3>2. requested_signals'[u] = requested_signals[u] /\ blocker'[u] = blocker[u] /\ KeptOrWoken(u)
      BY <1>6, <1>f, <2>1 DEF mutex_lock_loop, signal_wait_set_blocked_on, sched_set_blocked_on,
         waitVars, KeptOrWoken
    <3>3. (\E m \in Mutexes : mutex_take(m, t) \/ mutex_wait(m, t)) /\ UNCHANGED <<sem_value, sem_waiters>>
      BY <1>6, <2>0 DEF mutex_lock_loop, semVars
    <3>4. QED
      BY <1>t, <2>1, <3>1, <3>2, <3>3, OtherTasks
  <2>2. CASE u = t /\ mutex_take(obj[t], t) /\ Return(t) /\ UNCHANGED blocked_on
    BY <1>a, <1>r, <2>0, <2>2
  <2>3. CASE /\ u = t /\ mutex_wait(obj[t], t) /\ Frame(t, "lock_wait", obj[t], 0)
             /\ signal_wait_set_blocked_on(t, {TASK_TIMER}, holder[obj[t]])
    <3>1. /\ pc'[t] = "lock_wait" /\ obj'[t] = obj[t] /\ requested_signals'[t] = {TASK_TIMER}
          /\ UNCHANGED <<PENDING_SIGNALS, holder>> /\ mutex_waiters'[t] = obj[t]
          /\ holder[obj[t]] # TASK_ID_NONE
      BY <1>6, <1>f, <2>3 DEF mutex_lock_loop, Frame, signal_wait_set_blocked_on, mutex_wait, MutexFree,
         TypeOK, MutexTypeOK
    <3>2. /\ blocker'[t] = holder[obj[t]]
          /\ blocked_on'[t] = (IF signal_peek(t, {TASK_TIMER}) THEN t ELSE holder[obj[t]])
      BY <1>f, <1>r, <2>0, <2>3 DEF signal_wait_set_blocked_on, sched_set_blocked_on
    <3>3. QED
      BY <1>w, <2>0, <2>3, <3>1, <3>2 DEF WaitOK, Asleep, signal_peek, WaitsFor, MutexWaits, SemWaits,
         TimerWaits, Waits, Uninterrupted, BlockLabels
  <2>4. QED
    BY <1>6, <2>1, <2>2, <2>3 DEF mutex_lock_loop
<1>o. task_timers(t) \in TimerIds /\ (pc[t] # "max_init_call" => Remaining(t) \in TicksRelative)
  <2>1. task_timers(t) \in TimerIds
    BY TimerAssumption, NAssumption DEF task_timers, TimerIds, Tasks
  <2>2. TicksTimeoutMod \in Nat \ {0} /\ timer_current_ticks \in Int /\ \A a \in TicksAbsolute : a \in Int
    BY TimerAssumption DEF TypeOK, TimerTypeOK, TicksAbsolute
  <2>3. pc[t] # "max_init_call" => Remaining(t) \in TicksRelative
    <3>1. pc[t] # "max_init_call" => arg[t] \in Int
      BY <2>2 DEF TypeOK, LocalsTypeOK
    <3>2. pc[t] # "max_init_call" => arg[t] - timer_current_ticks \in Int
      BY <2>2, <3>1
    <3>3. QED
      BY <2>2, <3>2, ModRange DEF Remaining, TicksRelative
  <2>4. QED
    BY <2>1, <2>3
<1>7. CASE mutex_lock_timeout_loop(t)
  <2>0. obj[t] \in Mutexes /\ pc[t] = "lock_timeout" /\ pc[t] \notin Waits /\ pc[t] \in MutexLabels
    BY <1>7 DEF mutex_lock_timeout_loop, Running, TypeOK, LocalsTypeOK, MutexLabels, Waits, TimerWaits, MutexWaits, SemWaits
  <2>k. \A v \in Tasks : KeptOrWoken(v)
    <3>1. CASE timer_oneshot(task_timers(t), Remaining(t))
      BY <3>1, <2>0, <1>o, TimerEffect
    <3>2. CASE UNCHANGED <<blocked_on, PENDING_SIGNALS>>
      BY <3>2 DEF KeptOrWoken
    <3>3. QED
      BY <1>7, <3>1, <3>2 DEF mutex_lock_timeout_loop
  <2>r. blocked_on'[t] = t
    BY <1>r, <2>0, <2>k DEF KeptOrWoken
  <2>1. CASE u # t
    <3>1. pc'[u] = pc[u] /\ obj'[u] = obj[u] /\ requested_signals'[u] = requested_signals[u]
          /\ blocker'[u] = blocker[u]
      BY <1>7, <1>f, <2>1 DEF mutex_lock_timeout_loop, Return, Frame, waitVars
    <3>2. (\E m \in Mutexes : mutex_take(m, t) \/ mutex_wait(m, t)) \/ UNCHANGED mutexVars
      BY <1>7, <2>0 DEF mutex_lock_timeout_loop
    <3>3. QED
      BY <1>7, <1>t, <2>1, <2>k, <3>1, <3>2, OtherTasks DEF mutex_lock_timeout_loop, semVars
  <2>2. CASE u = t /\ Return(t)
    BY <1>a, <2>0, <2>r, <2>2
  <2>3. CASE u = t /\ mutex_wait(obj[t], t) /\ Frame(t, "lock_timeout_block", obj[t], arg[t])
    <3>1. /\ pc'[t] = "lock_timeout_block" /\ obj'[t] = obj[t] /\ UNCHANGED holder
          /\ mutex_waiters'[t] = obj[t] /\ holder[obj[t]] # TASK_ID_NONE /\ UNCHANGED cpuVars
      BY <1>7, <1>f, <2>3 DEF mutex_lock_timeout_loop, Frame, mutex_wait, MutexFree, TypeOK, MutexTypeOK
    <3>2. QED
      BY <1>w, <1>t, <2>0, <2>3, <2>r, <3>1 DEF WaitOK, Asleep, MutexWaits, SemWaits, TimerWaits, Waits, cpuVars
  <2>4. QED
    BY <1>7, <2>1, <2>2, <2>3 DEF mutex_lock_timeout_loop
<1>8. CASE sem_wait_loop(t)
  <2>0. obj[t] \in Sems /\ pc[t] = "sem" /\ pc[t] \notin Waits
    BY <1>8 DEF sem_wait_loop, Running, TypeOK, LocalsTypeOK, SemLabels, Waits, TimerWaits, MutexWaits, SemWaits
  <2>1. CASE u # t
    <3>1. pc'[u] = pc[u] /\ obj'[u] = obj[u]
      BY <1>8, <1>f, <2>1 DEF sem_wait_loop, Return, Frame
    <3>2. requested_signals'[u] = requested_signals[u] /\ blocker'[u] = blocker[u] /\ KeptOrWoken(u)
      BY <1>8, <1>f, <2>1 DEF sem_wait_loop, signal_wait_set_blocked_on, sched_set_blocked_on,
         waitVars, KeptOrWoken
    <3>3. (\E s \in Sems : sem_take(s) \/ sem_register(s, t)) /\ UNCHANGED mutexVars
      BY <1>8, <2>0 DEF sem_wait_loop
    <3>4. QED
      BY <1>t, <2>1, <3>1, <3>2, <3>3, OtherTasks
  <2>2. CASE u = t /\ sem_take(obj[t]) /\ Return(t) /\ UNCHANGED blocked_on
    BY <1>a, <1>r, <2>0, <2>2
  <2>3. CASE /\ u = t /\ sem_register(obj[t], t) /\ Frame(t, "sem_wait", obj[t], 0)
             /\ signal_wait_set_blocked_on(t, {TASK_TIMER}, TASK_ID_NONE)
    <3>1. /\ pc'[t] = "sem_wait" /\ obj'[t] = obj[t] /\ requested_signals'[t] = {TASK_TIMER}
          /\ UNCHANGED PENDING_SIGNALS /\ sem_waiters'[t] = obj[t] /\ sem_value'[obj[t]] = 0
      BY <1>8, <1>f, <2>3 DEF sem_wait_loop, Frame, signal_wait_set_blocked_on, sem_register, TypeOK, SemTypeOK
    <3>2. /\ blocker'[t] = TASK_ID_NONE
          /\ blocked_on'[t] = (IF signal_peek(t, {TASK_TIMER}) THEN t ELSE TASK_ID_NONE)
      BY <1>f, <1>r, <2>0, <2>3 DEF signal_wait_set_blocked_on, sched_set_blocked_on
    <3>3. QED
      BY <2>3, <3>1, <3>2 DEF WaitOK, Asleep, signal_peek, WaitsFor, MutexWaits, SemWaits,
         TimerWaits, Waits, Uninterrupted, BlockLabels, MutexLabels
  <2>4. QED
    BY <1>8, <2>1, <2>2, <2>3 DEF sem_wait_loop
<1>9. CASE sem_wait_timeout_loop(t)
  <2>0. obj[t] \in Sems /\ pc[t] = "sem_timeout" /\ pc[t] \notin Waits
    BY <1>9 DEF sem_wait_timeout_loop, Running, TypeOK, LocalsTypeOK, SemLabels, Waits, TimerWaits, MutexWaits, SemWaits
  <2>k. \A v \in Tasks : KeptOrWoken(v)
    <3>1. CASE timer_oneshot(task_timers(t), Remaining(t))
      BY <3>1, <2>0, <1>o, TimerEffect
    <3>2. CASE UNCHANGED <<blocked_on, PENDING_SIGNALS>>
      BY <3>2 DEF KeptOrWoken
    <3>3. QED
      BY <1>9, <3>1, <3>2 DEF sem_wait_timeout_loop
  <2>r. blocked_on'[t] = t
    BY <1>r, <2>0, <2>k DEF KeptOrWoken
  <2>1. CASE u # t
    <3>1. pc'[u] = pc[u] /\ obj'[u] = obj[u] /\ requested_signals'[u] = requested_signals[u]
          /\ blocker'[u] = blocker[u]
      BY <1>9, <1>f, <2>1 DEF sem_wait_timeout_loop, Return, Frame, waitVars
    <3>2. (\E s \in Sems : sem_take(s) \/ sem_register(s, t)) \/ UNCHANGED <<sem_value, sem_waiters>>
      BY <1>9, <2>0 DEF sem_wait_timeout_loop, semVars
    <3>3. QED
      BY <1>9, <1>t, <2>1, <2>k, <3>1, <3>2, OtherTasks DEF sem_wait_timeout_loop
  <2>2. CASE u = t /\ Return(t)
    BY <1>a, <2>0, <2>r, <2>2
  <2>3. CASE u = t /\ sem_register(obj[t], t) /\ Frame(t, "sem_timeout_block", obj[t], arg[t])
    <3>1. /\ pc'[t] = "sem_timeout_block" /\ obj'[t] = obj[t] /\ UNCHANGED cpuVars
          /\ sem_waiters'[t] = obj[t] /\ sem_value'[obj[t]] = 0
      BY <1>9, <1>f, <2>3 DEF sem_wait_timeout_loop, Frame, sem_register, TypeOK, SemTypeOK
    <3>2. QED
      BY <1>t, <2>3, <2>r, <3>1 DEF WaitOK, Asleep, MutexWaits, SemWaits, TimerWaits, Waits, cpuVars, MutexLabels
  <2>4. QED
    BY <1>9, <2>1, <2>2, <2>3 DEF sem_wait_timeout_loop
<1>10. CASE sem_max_init_store(t)
  <2>1. CASE u # t
    BY <1>10, <1>t, <1>f, <2>1, OtherTasks DEF sem_max_init_store, Return, Frame, waitVars, mutexVars, KeptOrWoken
  <2>2. CASE u = t
    BY <1>10, <1>a, <1>r, <2>2 DEF sem_max_init_store, RunningEnabled, Running, Waits, TimerWaits, MutexWaits, SemWaits
  <2>3. QED
    BY <2>1, <2>2
<1>11. QED
  BY <1>1, <1>2, <1>3, <1>4, <1>5, <1>6, <1>7, <1>8, <1>9, <1>10 DEF TaskStep

\* The calls that the application makes keep the invariant of the waits.
LEMMA WaitInvAppStep ==
  ASSUME TypeOK, WaitInv, NEW t \in Tasks, AppStep(t)
  PROVE  WaitInv'
<1>t. t = current_task /\ phase = "task" /\ pc[t] = "app"
  BY DEF AppStep, mutex_lock, mutex_lock_timeout, mutex_unlock, mutex_try_lock, sem_wait, sem_wait_timeout,
     sem_post, sem_try_wait, sem_max_init, signal_wait_set, signal_poll_set, signal_send, sleep,
     timer_enable_call, timer_oneshot_call, timer_disable, timer_check_overflow, timer_reload_set,
     timer_signal_set, timer_error_set, Calling, RunningEnabled, Running
<1>f. /\ pc \in [Tasks -> Labels] /\ obj \in [Tasks -> Mutexes \cup Sems \cup {NoObject}]
      /\ requested_signals \in [Tasks -> SUBSET Signals] /\ blocker \in [Tasks -> TaskIdOption]
      /\ blocked_on \in [Tasks -> TaskIdOption] /\ PENDING_SIGNALS \in [Tasks -> SUBSET Signals]
      /\ arg \in [Tasks -> TicksAbsolute \cup SemValue]
  BY DEF TypeOK, FrameTypeOK, SchedTypeOK, SignalTypeOK
<1>l. "app" \notin Waits /\ "app" \notin Uninterrupted /\ "app" \notin MutexLabels
  BY DEF Waits, TimerWaits, MutexWaits, SemWaits, Uninterrupted, BlockLabels, MutexLabels
<1>r. blocked_on[t] = t
  BY <1>t, <1>l DEF WaitInv, WaitOK, Asleep
<1>v. \A v \in Tasks : WaitOK(v) /\ pc[v] \notin Uninterrupted
  BY <1>t, <1>l DEF WaitInv, WaitOK
<1> SUFFICES ASSUME NEW u \in Tasks PROVE WaitOK(u)'
  BY DEF WaitInv
<1>x. ASSUME Fatal PROVE WaitOK(u)'
  BY <1>x, <1>v, Bystander DEF Fatal, frameVars, waitVars, mutexVars, semVars, KeptOrWoken, WaitOK
\* A call that only sets up its frame.
<1>c. ASSUME NEW label \in {"lock", "lock_timeout_call", "sem", "sem_timeout_call", "max_init_call"},
             NEW o, NEW a, label \in MutexLabels => holder[o] # t,
             Frame(t, label, o, a),
             UNCHANGED <<blocked_on, PENDING_SIGNALS, mutexVars, semVars, waitVars, cpuVars>>
      PROVE  WaitOK(u)'
  <2>1. CASE u # t
    BY <1>c, <1>t, <1>f, <2>1, OtherTasks DEF Frame, waitVars, mutexVars, semVars, KeptOrWoken
  <2>2. CASE u = t
    <3>1. pc'[t] = label /\ obj'[t] = o
      BY <1>c, <1>f DEF Frame
    <3>2. QED
      BY <1>c, <1>t, <1>r, <2>2, <3>1 DEF WaitOK, Asleep, Waits, TimerWaits, MutexWaits, SemWaits,
         mutexVars, cpuVars
  <2>3. QED
    BY <2>1, <2>2
<1>m. "sem" \notin MutexLabels /\ "sem_timeout_call" \notin MutexLabels /\ "max_init_call" \notin MutexLabels
  BY DEF MutexLabels, MutexWaits
<1>1. CASE mutex_lock(t)
  BY <1>1, <1>x, <1>c DEF mutex_lock
<1>2. CASE mutex_lock_timeout(t)
  BY <1>2, <1>x, <1>c DEF mutex_lock_timeout
<1>3. CASE sem_wait(t)
  BY <1>3, <1>c, <1>m DEF sem_wait
<1>4. CASE sem_wait_timeout(t)
  BY <1>4, <1>c, <1>m DEF sem_wait_timeout
<1>5. CASE sem_max_init(t)
  BY <1>5, <1>x, <1>c, <1>m DEF sem_max_init
\* The caller itself, in a call that runs to its end in one step.
<1>d. ASSUME u = t, UNCHANGED frameVars, KeptOrWoken(t) \/ UNCHANGED blocked_on
      PROVE  WaitOK(u)'
  BY <1>d, <1>t, <1>r, <1>l, Active DEF frameVars, KeptOrWoken
\* The other tasks, in such a call that leaves mutexes and semaphores alone.
<1>e. ASSUME u # t, UNCHANGED <<frameVars, waitVars, mutexVars, semVars>>, KeptOrWoken(u)
      PROVE  WaitOK(u)'
  BY <1>e, <1>t, OtherTasks DEF frameVars, waitVars, mutexVars, semVars
<1>6. CASE mutex_unlock(t)
  <2>1. PICK m \in Mutexes :
          \/ Fatal
          \/ /\ signal_send_set(MutexWaiters(m), [v \in MutexWaiters(m) |-> {TASK_TIMER}])
             /\ mutex_release(m)
             /\ UNCHANGED <<semVars, frameVars, waitVars, cpuVars>>
    BY <1>6 DEF mutex_unlock
  <2>2. CASE ~Fatal
    <3>1. MutexWaiters(m) \in SUBSET Tasks
      BY DEF MutexWaiters
    <3>2. /\ KeptOrWoken(u)
          /\ u \in MutexWaiters(m) => TASK_TIMER \in PENDING_SIGNALS'[u]
      <4> DEFINE sigs == [v \in MutexWaiters(m) |-> {TASK_TIMER}]
      <4>1. signal_send_set(MutexWaiters(m), sigs)
        BY <2>1, <2>2
      <4>2. u \in MutexWaiters(m) => TASK_TIMER \in sigs[u]
        OBVIOUS
      <4> HIDE DEF sigs
      <4>3. KeptOrWoken(u) /\ (u \in MutexWaiters(m) => sigs[u] \subseteq PENDING_SIGNALS'[u])
        BY <3>1, <4>1, SendEffect
      <4>4. QED
        BY <4>2, <4>3
    <3>3. Asleep(u)' => Asleep(u)
      BY <2>1, <2>2, <3>2 DEF Asleep, signal_peek, KeptOrWoken, frameVars, waitVars
    <3>4. Asleep(u)' /\ pc[u] \in MutexWaits =>
              mutex_waiters'[u] = mutex_waiters[u] /\ holder'[obj[u]] = holder[obj[u]]
      <4>1. SUFFICES ASSUME Asleep(u)', pc[u] \in MutexWaits
                     PROVE  mutex_waiters'[u] = mutex_waiters[u] /\ holder'[obj[u]] = holder[obj[u]]
        OBVIOUS
      <4>2. mutex_waiters[u] = obj[u] /\ requested_signals[u] = {TASK_TIMER}
        BY <4>1, <3>3, <1>v DEF WaitOK, TimerWaits
      <4>3. u \notin MutexWaiters(m)
        BY <2>1, <2>2, <3>2, <4>1, <4>2 DEF Asleep, signal_peek, waitVars
      <4>4. obj[u] # m /\ obj[u] \in Mutexes
        BY <4>1, <4>2, <4>3 DEF MutexWaiters, TypeOK, LocalsTypeOK, MutexLabels
      <4>5. QED
        BY <2>1, <2>2, <4>3, <4>4 DEF mutex_release, TypeOK, MutexTypeOK
    <3>5. pc[u] \in MutexLabels => holder'[obj[u]] # u
      <4>1. pc[u] \in MutexLabels => obj[u] \in Mutexes /\ holder[obj[u]] # u
        BY <1>v DEF TypeOK, LocalsTypeOK, WaitOK
      <4>2. u # TASK_ID_NONE
        BY NoneIsNoTask
      <4>3. QED
        BY <2>1, <2>2, <4>1, <4>2 DEF mutex_release, TypeOK, MutexTypeOK
    <3>6. /\ pc'[u] = pc[u] /\ obj'[u] = obj[u]
          /\ requested_signals'[u] = requested_signals[u] /\ blocker'[u] = blocker[u]
          /\ sem_waiters'[u] = sem_waiters[u] /\ sem_value'[obj[u]] = sem_value[obj[u]]
      BY <2>1, <2>2 DEF frameVars, waitVars, semVars
    <3>7. QED
      BY <3>2, <3>4, <3>5, <3>6, <1>v, Bystander
  <2>3. QED
    BY <2>1, <2>2, <1>x
<1>7. CASE mutex_try_lock(t)
  <2>1. CASE u # t
    BY <1>7, <1>t, <2>1, OtherTasks DEF mutex_try_lock, frameVars, waitVars, semVars, KeptOrWoken
  <2>2. CASE u = t
    BY <1>7, <1>d, <2>2 DEF mutex_try_lock
  <2>3. QED
    BY <2>1, <2>2
<1>8. CASE sem_post(t)
  <2>1. PICK s \in Sems :
          \/ Fatal
          \/ /\ signal_send_set(SemWoken(s), [v \in SemWoken(s) |-> {TASK_TIMER}])
             /\ sem_add(s)
             /\ UNCHANGED <<mutexVars, frameVars, waitVars, cpuVars>>
    BY <1>8 DEF sem_post
  <2>2. CASE ~Fatal
    <3>1. SemWoken(s) \in SUBSET Tasks
      BY DEF SemWoken
    <3>2. /\ KeptOrWoken(u)
          /\ u \in SemWoken(s) => TASK_TIMER \in PENDING_SIGNALS'[u]
      <4> DEFINE sigs == [v \in SemWoken(s) |-> {TASK_TIMER}]
      <4>1. signal_send_set(SemWoken(s), sigs)
        BY <2>1, <2>2
      <4>2. u \in SemWoken(s) => TASK_TIMER \in sigs[u]
        OBVIOUS
      <4> HIDE DEF sigs
      <4>3. KeptOrWoken(u) /\ (u \in SemWoken(s) => sigs[u] \subseteq PENDING_SIGNALS'[u])
        BY <3>1, <4>1, SendEffect
      <4>4. QED
        BY <4>2, <4>3
    <3>3. Asleep(u)' => Asleep(u)
      BY <2>1, <2>2, <3>2 DEF Asleep, signal_peek, KeptOrWoken, frameVars, waitVars
    <3>4. Asleep(u)' /\ pc[u] \in SemWaits =>
              sem_waiters'[u] = sem_waiters[u] /\ sem_value'[obj[u]] = sem_value[obj[u]]
      <4>1. SUFFICES ASSUME Asleep(u)', pc[u] \in SemWaits
                     PROVE  sem_waiters'[u] = sem_waiters[u] /\ sem_value'[obj[u]] = sem_value[obj[u]]
        OBVIOUS
      <4>2. sem_waiters[u] = obj[u] /\ sem_value[obj[u]] = 0 /\ requested_signals[u] = {TASK_TIMER}
        BY <4>1, <3>3, <1>v DEF WaitOK, TimerWaits
      <4>3. u \notin SemWoken(s)
        BY <2>1, <2>2, <3>2, <4>1, <4>2 DEF Asleep, signal_peek, waitVars
      <4>4. obj[u] # s /\ obj[u] \in Sems
        BY <4>1, <4>2, <4>3 DEF SemWoken, TypeOK, LocalsTypeOK, SemLabels
      <4>5. QED
        BY <2>1, <2>2, <4>3, <4>4 DEF sem_add, TypeOK, SemTypeOK
    <3>5. pc[u] \in MutexLabels => holder'[obj[u]] # u
      BY <2>1, <2>2, <1>v DEF mutexVars, WaitOK
    <3>6. /\ pc'[u] = pc[u] /\ obj'[u] = obj[u]
          /\ requested_signals'[u] = requested_signals[u] /\ blocker'[u] = blocker[u]
          /\ mutex_waiters'[u] = mutex_waiters[u] /\ holder'[obj[u]] = holder[obj[u]]
      BY <2>1, <2>2 DEF frameVars, waitVars, mutexVars
    <3>7. QED
      BY <3>2, <3>4, <3>5, <3>6, <1>v, Bystander
  <2>3. QED
    BY <2>1, <2>2, <1>x
<1>9. CASE sem_try_wait(t)
  <2>1. CASE u # t
    BY <1>9, <1>t, <2>1, OtherTasks DEF sem_try_wait, frameVars, waitVars, mutexVars, KeptOrWoken
  <2>2. CASE u = t
    BY <1>9, <1>d, <2>2 DEF sem_try_wait
  <2>3. QED
    BY <2>1, <2>2
<1>10. CASE signal_wait_set(t)
  <2>1. PICK requested \in SUBSET AppSignals :
            /\ Frame(t, "signal_wait", NoObject, 0)
            /\ signal_wait_set_blocked_on(t, requested, TASK_ID_NONE)
            /\ UNCHANGED <<PENDING_SIGNALS, mutexVars, semVars>>
    BY <1>10 DEF signal_wait_set
  <2>2. CASE u # t
    BY <1>t, <1>f, <2>1, <2>2, OtherTasks DEF Frame, signal_wait_set_blocked_on, sched_set_blocked_on,
       semVars, KeptOrWoken
  <2>3. CASE u = t
    <3>1. pc'[t] = "signal_wait" /\ requested_signals'[t] = requested /\ blocker'[t] = TASK_ID_NONE
      BY <1>f, <2>1 DEF Frame, signal_wait_set_blocked_on
    <3>2. blocked_on'[t] = (IF signal_peek(t, requested) THEN t ELSE TASK_ID_NONE)
      BY <1>f, <1>r, <2>1 DEF signal_wait_set_blocked_on, sched_set_blocked_on
    <3>3. QED
      BY <2>1, <2>3, <3>1, <3>2 DEF WaitOK, Asleep, signal_peek, WaitsFor, MutexWaits, SemWaits,
         TimerWaits, Waits, Uninterrupted, BlockLabels, MutexLabels
  <2>4. QED
    BY <2>2, <2>3
<1>11. CASE signal_poll_set(t)
  <2>1. CASE u # t
    BY <1>11, <1>e, <1>f, <2>1 DEF signal_poll_set, signal_recv, KeptOrWoken
  <2>2. CASE u = t
    BY <1>11, <1>d, <2>2 DEF signal_poll_set
  <2>3. QED
    BY <2>1, <2>2
<1>12. CASE signal_send(t)
  <2>1. \A v \in Tasks : KeptOrWoken(v)
    BY <1>12, SendEffect DEF signal_send
  <2>2. QED
    BY <1>12, <1>d, <1>e, <2>1 DEF signal_send
<1>z. /\ task_timers(t) \in TimerIds /\ UserTimers \subseteq TimerIds
      /\ \A timeout \in Timeouts : timeout \in TicksRelative
  BY TimerAssumption, NAssumption, KochabAssumption DEF task_timers, TimerIds, UserTimers, Tasks
<1>13. CASE sleep(t)
  <2>1. \A v \in Tasks : KeptOrWoken(v)
    BY <1>13, <1>z, TimerEffect DEF sleep
  <2>2. CASE u # t
    BY <1>13, <1>t, <1>f, <2>1, <2>2, OtherTasks DEF sleep, Frame, waitVars, semVars
  <2>3. CASE u = t
    <3>1. pc'[t] = "sleep_block" /\ UNCHANGED cpuVars /\ blocked_on'[t] = t
      BY <1>13, <1>f, <1>r, <2>1 DEF sleep, Frame, KeptOrWoken
    <3>2. QED
      BY <1>t, <2>3, <3>1 DEF WaitOK, Asleep, MutexWaits, SemWaits, TimerWaits, Waits, MutexLabels, cpuVars
  <2>4. QED
    BY <2>2, <2>3
<1>y. ASSUME TimerApiFrame, \A v \in Tasks : KeptOrWoken(v)
      PROVE  WaitOK(u)'
  BY <1>y, <1>d, <1>e DEF TimerApiFrame
<1>14. CASE timer_enable_call(t)
  <2>1. PICK k \in UserTimers : Fatal \/ (timer_enable(k, timers[k]) /\ TimerApiFrame)
    BY <1>14 DEF timer_enable_call
  <2>2. QED
    BY <2>1, <1>x, <1>y, <1>z, TimerEffect
<1>15. CASE timer_oneshot_call(t)
  <2>1. PICK k \in UserTimers, timeout \in Timeouts : Fatal \/ (timer_oneshot(k, timeout) /\ TimerApiFrame)
    BY <1>15 DEF timer_oneshot_call
  <2>2. QED
    BY <2>1, <1>x, <1>y, <1>z, TimerEffect
<1>16. CASE \/ timer_disable(t) \/ timer_check_overflow(t) \/ timer_reload_set(t)
            \/ timer_signal_set(t) \/ timer_error_set(t)
  <2>1. TimerApiFrame /\ UNCHANGED <<blocked_on, PENDING_SIGNALS>>
    BY <1>16 DEF timer_disable, timer_check_overflow, timer_reload_set, timer_signal_set,
       timer_error_set, SetTimer
  <2>2. QED
    BY <2>1, <1>y DEF KeptOrWoken
<1>20. QED
  BY <1>1, <1>2, <1>3, <1>4, <1>5, <1>6, <1>7, <1>8, <1>9, <1>10, <1>11, <1>12, <1>13, <1>14,
     <1>15, <1>16 DEF AppStep

\* The scheduler's steps and the interrupt handlers keep the invariant of the waits.
LEMMA WaitInvCpuStep ==
  ASSUME TypeOK, WaitInv, SchedStep \/ Interrupt
  PROVE  WaitInv'
<1> SUFFICES ASSUME NEW u \in Tasks PROVE WaitOK(u)'
  BY DEF WaitInv
<1>w. WaitOK(u)
  BY DEF WaitInv
<1>1. UNCHANGED <<frameVars, waitVars, mutexVars, semVars>>
  BY DEF SchedStep, Interrupt, Preempt, interrupt_event_process, timer_tick_process, sched_pick,
     interrupt_event_wait, interrupt_event_raise, timer_tick, HandlerReturns
<1>2. KeptOrWoken(u)
  <2>1. CASE UNCHANGED <<blocked_on, PENDING_SIGNALS>>
    BY <2>1 DEF KeptOrWoken
  <2>2. CASE interrupt_event_process
    <3>1. EventTasks(EventTask, interrupt_event) \in SUBSET Tasks
      BY EventsTyped DEF TypeOK, EventTypeOK
    <3>2. QED
      BY <2>2, <3>1, SendEffect DEF interrupt_event_process
  <2>3. CASE timer_tick_process
    <3> DEFINE K == Expired((timer_current_ticks + 1) % TicksAbsoluteMod)
    <3>1. K \in SUBSET TimerIds
      BY DEF Expired
    <3>2. \/ UNCHANGED <<blocked_on, PENDING_SIGNALS>>
          \/ signal_send_set(TimerTasks(K), TimerSignals(K))
      BY <2>3 DEF timer_tick_process
    <3> HIDE DEF K
    <3>3. TimerTasks(K) \in SUBSET Tasks
      BY <3>1, ExpiredTyped DEF TypeOK
    <3>4. QED
      BY <2>1, <3>2, <3>3, SendEffect
  <2>4. QED
    BY <2>1, <2>2, <2>3 DEF SchedStep, Interrupt, Preempt, sched_pick, interrupt_event_wait,
       interrupt_event_raise, timer_tick, HandlerReturns
<1>3. pc[u] \in Uninterrupted => UNCHANGED <<phase, current_task>>
  <2>1. SUFFICES ASSUME pc[u] \in Uninterrupted PROVE UNCHANGED <<phase, current_task>>
    OBVIOUS
  <2>2. phase = "task" /\ pc[current_task] \notin Preemptible
    BY <1>w, <2>1 DEF WaitOK, Uninterrupted, BlockLabels, Preemptible
  <2>3. QED
    BY <2>2 DEF SchedStep, Interrupt, Preempt, interrupt_event_process, timer_tick_process, sched_pick,
       interrupt_event_wait, interrupt_event_raise, timer_tick, HandlerReturns
<1>4. pc[u] \in MutexLabels => holder'[obj[u]] # u
  BY <1>1, <1>w DEF WaitOK, mutexVars
<1>5. QED
  BY <1>1, <1>2, <1>3, <1>4, <1>w, Bystander DEF frameVars, waitVars, mutexVars, semVars

\* Every step of Kochab keeps the invariant of the waits.
LEMMA WaitInvNext == TypeOK /\ WaitInv /\ [Next]_vars => WaitInv'
<1> SUFFICES ASSUME TypeOK, WaitInv, [Next]_vars PROVE WaitInv'
  OBVIOUS
<1>1. CASE UNCHANGED vars
  BY <1>1 DEF vars, WaitInv, WaitOK, Asleep, signal_peek, WaitsFor, mutexVars, semVars,
     frameVars, waitVars, cpuVars
<1>2. CASE Next
  BY <1>1, <1>2, WaitInvTaskStep, WaitInvAppStep, WaitInvCpuStep DEF Next, Stopped
<1>3. QED
  BY <1>1, <1>2

\* At start no task waits.
LEMMA WaitInvInit == Init => WaitInv
<1> SUFFICES ASSUME Init, NEW u \in Tasks PROVE WaitOK(u)
  BY DEF WaitInv
<1>1. pc[u] = "entry" /\ blocked_on[u] = u
  BY DEF Init
<1>2. QED
  BY <1>1 DEF WaitOK, Asleep, Waits, TimerWaits, MutexWaits, SemWaits, Uninterrupted, BlockLabels, MutexLabels

\* The invariant of the waits holds in every reachable state of Kochab.
THEOREM WaitsCorrect == Spec => [](TypeOK /\ WaitInv)
<1>1. Init => TypeOK /\ WaitInv
  BY TypeInit, WaitInvInit
<1>2. TypeOK /\ WaitInv /\ [Next]_vars => (TypeOK /\ WaitInv)'
  BY TypeNext, WaitInvNext
<1>3. QED
  BY <1>1, <1>2, PTL DEF Spec

\* blocked_on, which sched_set_blocked_on caches, names the holder of the
\* mutex that the task waits for, whatever mutexes have changed hands since.
THEOREM BlockedOnCorrect == Spec => []BlockedOnIsExact
<1>1. WaitInv => BlockedOnIsExact
  BY DEF WaitInv, WaitOK, BlockedOnIsExact
<1>2. QED
  BY <1>1, WaitsCorrect, PTL

\* mutex_unlock loses no wakeup.
THEOREM MutexWakeups == Spec => []MutexWaitersRegistered
<1>1. WaitInv => MutexWaitersRegistered
  BY DEF WaitInv, WaitOK, MutexWaitersRegistered
<1>2. QED
  BY <1>1, WaitsCorrect, PTL

\* sem_post loses no wakeup.
THEOREM SemWakeups == Spec => []SemWaitersRegistered
<1>1. WaitInv => SemWaitersRegistered
  BY DEF WaitInv, WaitOK, SemWaitersRegistered
<1>2. QED
  BY <1>1, WaitsCorrect, PTL

-----------------------------------------------------------------------------
(* Which task runs. *)

\* unblock, in signal_send_set, changes the scheduler's state only together
\* with a pending preemption.
LEMMA SendPends ==
  ASSUME TypeOK, NEW T \in SUBSET Tasks, NEW sigs, signal_send_set(T, sigs)
  PROVE  preempt_pending' \/ (UNCHANGED <<blocked_on, preempt_pending>>)
<1>1. T # {} => preempt_pending'
  BY DEF signal_send_set, unblock
<1>2. T = {} => UNCHANGED blocked_on
  BY DEF signal_send_set, unblock, sched_set_runnable, TypeOK, SchedTypeOK
<1>3. T = {} => preempt_pending' = preempt_pending
  BY DEF signal_send_set, unblock, TypeOK, CpuTypeOK
<1>4. QED
  BY <1>1, <1>2, <1>3

\* So do timer_enable and timer_oneshot.
LEMMA TimerPends ==
  ASSUME TypeOK, NEW k \in TimerIds,
         \/ timer_enable(k, timers[k])
         \/ \E timeout \in TicksRelative : timer_oneshot(k, timeout)
  PROVE  preempt_pending' \/ (UNCHANGED <<blocked_on, preempt_pending>>)
<1>1. \A tm : timer_enable(k, tm) => preempt_pending' \/ (UNCHANGED <<blocked_on, preempt_pending>>)
  BY DEF timer_enable, signal_send_set, unblock
<1>2. QED
  BY <1>1 DEF timer_oneshot

\* What a step of a task does to the CPU: the task goes on, with its claim to
\* the CPU untouched or a preemption pending, or it enters the scheduler.
TaskSide ==
    /\ phase = "task"
    /\ UNCHANGED <<current_task, interruptVars>>
    /\ preempt_pending => preempt_pending'
    /\ \/ phase' \in {"events", "fatal"}
       \/ /\ phase' = "task"
          /\ preempt_pending' \/ (UNCHANGED <<blocked_on, preempt_pending>>)

\* Every step of a task is of that form.
LEMMA TaskSideHolds ==
  ASSUME TypeOK, NEW t \in Tasks, TaskStep(t) \/ AppStep(t)
  PROVE  TaskSide
<1>z. /\ task_timers(t) \in TimerIds /\ UserTimers \subseteq TimerIds
      /\ \A timeout \in Timeouts : timeout \in TicksRelative
  BY TimerAssumption, NAssumption, KochabAssumption DEF task_timers, TimerIds, UserTimers, Tasks
<1>t. phase = "task"
  BY DEF TaskStep, Entry, BlockTimed, WaitAgain, WaitEnd, PreemptDisable, mutex_lock_loop,
     mutex_lock_timeout_loop, sem_wait_loop, sem_wait_timeout_loop, sem_max_init_store,
     AppStep, mutex_lock, mutex_lock_timeout, mutex_unlock, mutex_try_lock, sem_wait, sem_wait_timeout,
     sem_post, sem_try_wait, sem_max_init, signal_wait_set, signal_poll_set, signal_send, sleep,
     timer_enable_call, timer_oneshot_call, timer_disable, timer_check_overflow, timer_reload_set,
     timer_signal_set, timer_error_set, Calling, RunningEnabled, Running
<1>q. ASSUME UNCHANGED <<blocked_on, preempt_pending, interruptVars, cpuVars>> PROVE TaskSide
  BY <1>q, <1>t DEF TaskSide, cpuVars
<1>p. ASSUME preempt_pending' \/ (UNCHANGED <<blocked_on, preempt_pending>>), UNCHANGED <<interruptVars, cpuVars>>
      PROVE  TaskSide
  BY <1>p, <1>t DEF TaskSide, cpuVars
<1>y. ASSUME yield, UNCHANGED interruptVars PROVE TaskSide
  BY <1>y, <1>t DEF TaskSide, yield
<1>x. ASSUME Fatal PROVE TaskSide
  BY <1>x, <1>t DEF TaskSide, Fatal, fatal_error
<1>1. CASE Entry(t) \/ WaitEnd(t) \/ PreemptDisable(t) \/ sem_max_init_store(t)
  BY <1>1, <1>q DEF Entry, WaitEnd, PreemptDisable, sem_max_init_store
<1>2. CASE BlockTimed(t) \/ WaitAgain(t)
  BY <1>2, <1>y DEF BlockTimed, WaitAgain, signal_wait_set_blocked_on
<1>3. CASE mutex_lock_loop(t) \/ sem_wait_loop(t) \/ signal_wait_set(t)
  BY <1>3, <1>q, <1>y DEF mutex_lock_loop, sem_wait_loop, signal_wait_set, signal_wait_set_blocked_on
<1>4. CASE mutex_lock_timeout_loop(t) \/ sem_wait_timeout_loop(t)
  <2>1. pc[t] # "max_init_call"
    BY <1>4 DEF mutex_lock_timeout_loop, sem_wait_timeout_loop, Running
  <2>2. TicksTimeoutMod \in Nat \ {0} /\ arg[t] - timer_current_ticks \in Int
    BY <2>1, TimerAssumption DEF TypeOK, TimerTypeOK, LocalsTypeOK, TicksAbsolute
  <2>3. Remaining(t) \in TicksRelative
    BY <2>2, ModRange DEF Remaining, TicksRelative
  <2>4. /\ timer_oneshot(task_timers(t), Remaining(t)) \/ (UNCHANGED <<blocked_on, preempt_pending>>)
        /\ UNCHANGED <<interruptVars, cpuVars>>
    BY <1>4 DEF mutex_lock_timeout_loop, sem_wait_timeout_loop
  <2>5. QED
    BY <2>3, <2>4, <1>z, <1>p, TimerPends
<1>5. CASE \/ mutex_lock(t) \/ mutex_lock_timeout(t) \/ mutex_try_lock(t) \/ sem_wait(t)
           \/ sem_wait_timeout(t) \/ sem_try_wait(t) \/ sem_max_init(t) \/ signal_poll_set(t)
  BY <1>5, <1>q, <1>x DEF mutex_lock, mutex_lock_timeout, mutex_try_lock, sem_wait, sem_wait_timeout,
     sem_try_wait, sem_max_init, signal_poll_set
<1>6. CASE mutex_unlock(t)
  <2>1. PICK m \in Mutexes :
          \/ Fatal
          \/ /\ signal_send_set(MutexWaiters(m), [v \in MutexWaiters(m) |-> {TASK_TIMER}])
             /\ UNCHANGED <<interruptVars, cpuVars>>
    BY <1>6 DEF mutex_unlock
  <2>2. MutexWaiters(m) \in SUBSET Tasks
    BY DEF MutexWaiters
  <2>3. QED
    BY <2>1, <2>2, <1>p, <1>x, SendPends
<1>7. CASE sem_post(t)
  <2>1. PICK s \in Sems :
          \/ Fatal
          \/ /\ signal_send_set(SemWoken(s), [v \in SemWoken(s) |-> {TASK_TIMER}])
             /\ UNCHANGED <<interruptVars, cpuVars>>
    BY <1>7 DEF sem_post
  <2>2. SemWoken(s) \in SUBSET Tasks
    BY DEF SemWoken
  <2>3. QED
    BY <2>1, <2>2, <1>p, <1>x, SendPends
<1>8. CASE signal_send(t)
  BY <1>8, <1>p, SendPends DEF signal_send
<1>9. CASE sleep(t)
  BY <1>9, <1>p, <1>z, TimerPends DEF sleep
<1>10. CASE timer_enable_call(t)
  <2>1. PICK k \in UserTimers : Fatal \/ (timer_enable(k, timers[k]) /\ TimerApiFrame)
    BY <1>10 DEF timer_enable_call
  <2>2. QED
    BY <2>1, <1>x, <1>p, <1>z, TimerPends DEF TimerApiFrame
<1>11. CASE timer_oneshot_call(t)
  <2>1. PICK k \in UserTimers, timeout \in Timeouts : Fatal \/ (timer_oneshot(k, timeout) /\ TimerApiFrame)
    BY <1>11 DEF timer_oneshot_call
  <2>2. QED
    BY <2>1, <1>x, <1>p, <1>z, TimerPends DEF TimerApiFrame
<1>12. CASE \/ timer_disable(t) \/ timer_check_overflow(t) \/ timer_reload_set(t)
            \/ timer_signal_set(t) \/ timer_error_set(t)
  BY <1>12, <1>q DEF timer_disable, timer_check_overflow, timer_reload_set, timer_signal_set,
     timer_error_set, SetTimer, TimerApiFrame
<1>13. QED
  BY <1>1, <1>2, <1>3, <1>4, <1>5, <1>6, <1>7, <1>8, <1>9, <1>10, <1>11, <1>12 DEF TaskStep, AppStep

\* What the scheduler does to the CPU between two tasks.
IdleInv ==
    /\ phase \in {"wait", "idle"} => \A t \in Tasks : blocked_on[t] # t
    /\ phase = "idle" => (interrupt_event = {} /\ timer_pending_ticks = 0)

CpuInv == RunningIsScheduled /\ NoLostPreemption /\ IdleInv

\* TICK is not one of the interrupt events.
LEMMA TickIsNoEvent == TICK \notin Events
  BY EventAssumption DEF TICK, Events

\* The steps of tasks keep the invariant of the CPU.
LEMMA CpuInvTask ==
  ASSUME TypeOK, CpuInv, TaskSide
  PROVE  CpuInv'
<1>1. RunningIsScheduled'
  BY DEF CpuInv, RunningIsScheduled, TaskSide
<1>2. NoLostPreemption'
  BY DEF CpuInv, NoLostPreemption, TaskSide, interruptVars
<1>3. IdleInv'
  BY DEF IdleInv, TaskSide
<1>4. QED
  BY <1>1, <1>2, <1>3 DEF CpuInv

\* The steps of the scheduler and of the handlers keep the invariant of the CPU.
LEMMA CpuInvCpu ==
  ASSUME TypeOK, CpuInv, SchedStep \/ Interrupt
  PROVE  CpuInv'
<1> USE DEF CpuInv
<1>1. CASE Preempt
  BY <1>1 DEF Preempt, RunningIsScheduled, NoLostPreemption, IdleInv
<1>2. CASE interrupt_event_process
  <2>1. preempt_pending => preempt_pending'
    BY <1>2 DEF interrupt_event_process, signal_send_set, unblock
  <2>2. QED
    BY <1>2, <2>1, TickIsNoEvent DEF interrupt_event_process, RunningIsScheduled, NoLostPreemption, IdleInv
<1>3. CASE timer_tick_process
  <2>1. preempt_pending => preempt_pending'
    BY <1>3 DEF timer_tick_process, signal_send_set, unblock
  <2>2. phase = "ticks" /\ phase' \in {"pick", "fatal"} /\ urgent' = urgent \ {TICK}
    BY <1>3 DEF timer_tick_process
  <2>3. QED
    BY <2>1, <2>2 DEF RunningIsScheduled, NoLostPreemption, IdleInv
<1>4. CASE sched_pick
  <2>1. RunningIsScheduled'
    BY <1>4 DEF sched_pick, RunningIsScheduled
  <2>2. NoLostPreemption'
    BY <1>4 DEF sched_pick, NoLostPreemption, interruptVars
  <2>3. IdleInv'
    BY <1>4, NoneRunnable DEF sched_pick, IdleInv, TypeOK, SchedTypeOK
  <2>4. QED
    BY <2>1, <2>2, <2>3
<1>5. CASE interrupt_event_wait
  BY <1>5 DEF interrupt_event_wait, RunningIsScheduled, NoLostPreemption, IdleInv, interruptVars
<1>6. CASE Interrupt
  <2>1. PICK preempt \in BOOLEAN : HandlerReturns(preempt)
    BY <1>6 DEF Interrupt, timer_tick, interrupt_event_raise
  <2>2. RunningIsScheduled' /\ IdleInv'
    BY <2>1 DEF HandlerReturns, RunningIsScheduled, IdleInv
  <2>3. NoLostPreemption'
    <3>1. PICK p \in BOOLEAN, x \in Events \cup {TICK} :
              HandlerReturns(p) /\ urgent' = IF p THEN urgent \cup {x} ELSE urgent
      BY <1>6 DEF Interrupt, timer_tick, interrupt_event_raise
    <3>2. QED
      BY <3>1 DEF HandlerReturns, NoLostPreemption
  <2>4. QED
    BY <2>2, <2>3
<1>7. QED
  BY <1>1, <1>2, <1>3, <1>4, <1>5, <1>6 DEF SchedStep

\* Every step of Kochab keeps the invariant of the CPU.
LEMMA CpuInvNext == TypeOK /\ CpuInv /\ [Next]_vars => CpuInv'
<1> SUFFICES ASSUME TypeOK, CpuInv, [Next]_vars PROVE CpuInv'
  OBVIOUS
<1>1. CASE UNCHANGED vars
  BY <1>1 DEF vars, CpuInv, RunningIsScheduled, NoLostPreemption, IdleInv, cpuVars, interruptVars
<1>2. CASE Next
  BY <1>1, <1>2, TaskSideHolds, CpuInvTask, CpuInvCpu DEF Next, Stopped
<1>3. QED
  BY <1>1, <1>2

\* start switches to task 0, which is the one to run.
LEMMA CpuInvInit == Init => CpuInv
<1> SUFFICES ASSUME Init PROVE CpuInv
  OBVIOUS
<1>1. 0 \in Tasks /\ blocked_on \in [Tasks -> TaskIdOption] /\ blocked_on[0] = 0
  BY NAssumption DEF Init, Tasks, TaskIdOption
<1>2. 0 \in Chain(blocked_on, 0) /\ ~Passed(blocked_on, 0)
  BY <1>1, ChainLeast, FoundIsNotPassed
<1>3. IsFirst(blocked_on, 0)
  BY <1>1, <1>2, NAssumption DEF IsFirst, Tasks
<1>4. sched_get_next(blocked_on) = 0
  BY <1>1, <1>2, <1>3, FirstDecides
<1>5. QED
  BY <1>4 DEF Init, CpuInv, RunningIsScheduled, NoLostPreemption, IdleInv

\* The invariant of the CPU holds in every reachable state of Kochab.
THEOREM CpuCorrect == Spec => [](TypeOK /\ WaitInv /\ CpuInv)
<1>1. Init => TypeOK /\ CpuInv
  BY TypeInit, CpuInvInit
<1>2. TypeOK /\ CpuInv /\ [Next]_vars => (TypeOK /\ CpuInv)'
  BY TypeNext, CpuInvNext
<1>3. Spec => [](TypeOK /\ CpuInv)
  BY <1>1, <1>2, PTL DEF Spec
<1>4. QED
  BY <1>3, WaitsCorrect, PTL

\* unblock pends a preemption after every change of the scheduler's state, so
\* a task runs unpreempted only while sched_get_next would pick it.
THEOREM RunningCorrect == Spec => []RunningIsScheduled
<1>1. CpuInv => RunningIsScheduled
  BY DEF CpuInv
<1>2. QED
  BY <1>1, CpuCorrect, PTL

\* A request for preemption of an interrupt handler is never dropped.
THEOREM PreemptionNotLost == Spec => []NoLostPreemption
<1>1. CpuInv => NoLostPreemption
  BY DEF CpuInv
<1>2. QED
  BY <1>1, CpuCorrect, PTL

\* interrupt_event_wait reaches wfi only with nothing left to do.
THEOREM IdleCorrect == Spec => []IdleHasNoWork
<1>1. WaitInv /\ CpuInv => IdleHasNoWork
  BY DEF WaitInv, WaitOK, CpuInv, IdleInv, IdleHasNoWork
<1>2. QED
  BY <1>1, CpuCorrect, PTL

\* Priority inheritance: while application code runs undisturbed, it runs in
\* the task that the most urgent task able to progress waits for, computed
\* from the mutexes' holders; the scheduler's own cache blocked_on may lag
\* behind for tasks that are awake only to find that they must wait again.
THEOREM InheritanceCorrect == Spec => []PriorityInheritance
<1>1. TypeOK /\ WaitInv /\ CpuInv => PriorityInheritance
  <2>1. SUFFICES ASSUME TypeOK, WaitInv, CpuInv, phase = "task", ~preempt_pending, pc[current_task] = "app"
                 PROVE  current_task =
                          sched_get_next([t \in Tasks |-> IF Asleep(t) THEN WaitsFor(t) ELSE t])
    BY DEF PriorityInheritance
  <2> DEFINE waits == [t \in Tasks |-> IF Asleep(t) THEN WaitsFor(t) ELSE t]
  <2>2. current_task \in Tasks /\ blocked_on \in [Tasks -> TaskIdOption]
        /\ sched_get_next(blocked_on) = current_task
    BY <2>1 DEF TypeOK, CpuTypeOK, SchedTypeOK, CpuInv, RunningIsScheduled
  <2>3. waits \in [Tasks -> TaskIdOption]
    <3>1. ASSUME NEW t \in Tasks PROVE WaitsFor(t) \in TaskIdOption
      BY <2>1 DEF TypeOK, LocalsTypeOK, MutexTypeOK, MutexLabels, WaitsFor, TaskIdOption
    <3>2. QED
      BY <3>1 DEF TaskIdOption
  <2>4. waits[current_task] = current_task
    BY <2>1, <2>2 DEF Asleep, Waits, TimerWaits, MutexWaits, SemWaits
  <2>5. \A t \in Tasks : blocked_on[t] # t => waits[t] = blocked_on[t]
    BY <2>1 DEF WaitInv, WaitOK
  <2> HIDE DEF waits
  <2>6. sched_get_next(waits) = current_task
    BY <2>2, <2>3, <2>4, <2>5, NextIgnoresOthers
  <2>7. QED
    BY <2>6 DEF waits
<1>2. QED
  BY <1>1, CpuCorrect, PTL

-----------------------------------------------------------------------------
(* When sched_get_next does not return. *)

\* The scheduler's state is the one in which sched_get_next was called.
DivergedInv == phase = "diverged" => sched_get_next(blocked_on) = SCHED_DIVERGES

\* No step of a task is taken from, or leads to, a scheduler that has diverged.
LEMMA DivergedTask ==
  ASSUME TaskSide
  PROVE  DivergedInv'
  BY DEF TaskSide, DivergedInv

\* Only sched_pick calls sched_get_next; interrupt handlers go on after it has
\* diverged and do not touch the scheduler's state.
LEMMA DivergedCpu ==
  ASSUME DivergedInv, SchedStep \/ Interrupt
  PROVE  DivergedInv'
<1>1. CASE Preempt \/ interrupt_event_process \/ timer_tick_process \/ interrupt_event_wait
  BY <1>1 DEF Preempt, interrupt_event_process, timer_tick_process, interrupt_event_wait, DivergedInv
<1>2. CASE sched_pick
  BY <1>2 DEF sched_pick, DivergedInv
<1>3. CASE Interrupt
  BY <1>3 DEF Interrupt, timer_tick, interrupt_event_raise, HandlerReturns, DivergedInv
<1>4. QED
  BY <1>1, <1>2, <1>3 DEF SchedStep

\* Every step of Kochab keeps the scheduler's state once it has diverged.
LEMMA DivergedNext == TypeOK /\ DivergedInv /\ [Next]_vars => DivergedInv'
<1> SUFFICES ASSUME TypeOK, DivergedInv, [Next]_vars PROVE DivergedInv'
  OBVIOUS
<1>1. CASE UNCHANGED vars
  BY <1>1 DEF vars, cpuVars, DivergedInv
<1>2. CASE Next
  BY <1>1, <1>2, TaskSideHolds, DivergedTask, DivergedCpu DEF Next, Stopped
<1>3. QED
  BY <1>1, <1>2

\* Some priority is the first that sched_get_next does not pass over, unless
\* it returns TASK_ID_NONE.
LEMMA FirstExists ==
  ASSUME NEW bo, \E t \in Tasks : ~Passed(bo, t)
  PROVE  \E f : IsFirst(bo, f)
<1> DEFINE D == {t \in Tasks : ~Passed(bo, t)}
<1>1. D \in SUBSET Nat /\ D # {}
  BY NAssumption DEF Tasks
<1> HIDE DEF D
<1>2. PICK f \in D : \A e \in D : f <= e
  BY <1>1, LeastOf
<1>3. ASSUME NEW u \in Tasks, u < f PROVE Passed(bo, u)
  <2>1. f \in Int /\ u \in Int
    BY <1>1, NAssumption DEF Tasks
  <2>2. u \notin D
    BY <1>2, <1>3, <2>1
  <2>3. QED
    BY <2>2 DEF D
<1>4. QED
  BY <1>2, <1>3 DEF IsFirst, D

\* The walk on which sched_get_next never ends is a deadlock of tasks that
\* lock mutexes: blocked_on holds nothing that their waits do not confirm.
LEMMA CycleIsDeadlock ==
  ASSUME TypeOK, WaitInv, sched_get_next(blocked_on) = SCHED_DIVERGES
  PROVE  \E S \in SUBSET Tasks : Deadlocked(S)
<1>1. blocked_on \in [Tasks -> TaskIdOption]
  BY DEF TypeOK, SchedTypeOK
<1>2. \E t \in Tasks : ~Passed(blocked_on, t)
  BY DEF sched_get_next, TASK_ID_NONE, SCHED_DIVERGES
<1>3. PICK f : IsFirst(blocked_on, f)
  BY <1>2, FirstExists
<1> DEFINE S == Chain(blocked_on, f)
<1>4. /\ S # {}
      /\ S \subseteq Tasks
      /\ \A r \in S : blocked_on[r] \in S /\ blocked_on[r] # r
  BY <1>1, <1>3, DivergesInCycle
<1> HIDE DEF S
<1>5. ASSUME NEW r \in S
      PROVE  pc[r] \in MutexWaits /\ Asleep(r) /\ holder[obj[r]] \in S
  <2>1. blocked_on[r] \in S /\ r \in Tasks /\ blocked_on[r] # TASK_ID_NONE
    BY <1>4, NoneIsNoTask
  <2>2. Asleep(r) /\ blocked_on[r] = WaitsFor(r)
    BY <1>4, <2>1 DEF WaitInv, WaitOK
  <2>3. QED
    BY <2>1, <2>2 DEF WaitsFor
<1>6. Deadlocked(S)
  BY <1>4, <1>5 DEF Deadlocked
<1>7. QED
  BY <1>4, <1>6

\* The scheduler hangs in sched_get_next only when tasks have deadlocked on
\* their mutexes: no unlock, timeout or signal in between closes a cycle.
THEOREM DivergenceIsDeadlock == Spec => []DivergesOnlyInDeadlock
<1>1. Init => TypeOK /\ DivergedInv
  BY TypeInit DEF Init, DivergedInv
<1>2. TypeOK /\ DivergedInv /\ [Next]_vars => (TypeOK /\ DivergedInv)'
  BY TypeNext, DivergedNext
<1>3. TypeOK /\ WaitInv /\ DivergedInv => DivergesOnlyInDeadlock
  BY CycleIsDeadlock DEF DivergedInv, DivergesOnlyInDeadlock
<1>4. Spec => [](TypeOK /\ DivergedInv)
  BY <1>1, <1>2, PTL DEF Spec
<1>5. QED
  BY <1>3, <1>4, WaitsCorrect, PTL

\* Every task that waits for a mutex holds only mutexes of a higher rank.
LockOrder(rank) ==
    \A t \in Tasks : pc[t] \in MutexWaits =>
        \A m \in Mutexes : holder[m] = t => rank[obj[t]] < rank[m]

\* Hence sched_get_next returns in an application that locks its mutexes in
\* any fixed order, whatever the timeouts, signals and interrupts.
THEOREM LockOrderSuffices ==
  ASSUME NEW CONSTANT rank \in [Mutexes -> Nat]
  PROVE  Spec => [](LockOrder(rank) => phase # "diverged")
<1>1. TypeOK /\ DivergesOnlyInDeadlock /\ LockOrder(rank) => phase # "diverged"
  <2>1. SUFFICES ASSUME TypeOK, LockOrder(rank), NEW S \in SUBSET Tasks, Deadlocked(S) PROVE FALSE
    BY DEF DivergesOnlyInDeadlock
  <2>2. \A t \in S : pc[t] \in MutexWaits /\ obj[t] \in Mutexes /\ holder[obj[t]] \in S
    BY <2>1 DEF Deadlocked, TypeOK, LocalsTypeOK, MutexLabels
  <2> DEFINE D == {rank[obj[t]] : t \in S}
  <2>3. D \in SUBSET Nat /\ D # {}
    BY <2>1, <2>2 DEF Deadlocked
  <2>4. PICK d \in D : \A e \in D : d <= e
    BY <2>3, LeastOf
  <2>5. PICK t \in S : d = rank[obj[t]]
    BY <2>4
  <2> DEFINE u == holder[obj[t]]
  <2>6. u \in S /\ obj[t] \in Mutexes /\ u \in Tasks
    BY <2>1, <2>2, <2>5
  <2>7. rank[obj[u]] < d
    BY <2>1, <2>2, <2>5, <2>6 DEF LockOrder
  <2>8. d <= rank[obj[u]]
    BY <2>4, <2>6
  <2>9. d \in Nat /\ rank[obj[u]] \in Nat
    BY <2>2, <2>3, <2>4, <2>6
  <2>10. QED
    BY <2>7, <2>8, <2>9
<1>2. QED
  BY <1>1, TypeCorrect, DivergenceIsDeadlock, PTL

-----------------------------------------------------------------------------
(* Timers. *)

\* Timer record tm is off or expires within the range of its counter.
InRange(tm) == tm.enabled => tm.expiry # current_timeout(timer_current_ticks)

SameOwner(a, b) == a.task_id = b.task_id /\ a.signal_set = b.signal_set /\ a.error = b.error

\* What a step of t does to a timer, its own or a configured one: it starts it,
\* or leaves its expiry as it is.
TimerSet(t, k, tm) ==
    /\ timers' = [timers EXCEPT ![k] = tm]
    /\ k \in UserTimers \/ (k = task_timers(t) /\ SameOwner(tm, timers[k]))
    /\ InRange(tm) \/ (tm.enabled => (timers[k].enabled /\ tm.expiry = timers[k].expiry))

LEMMA TimersDiffer ==
  /\ \A t \in Tasks : task_timers(t) \in TimerIds /\ task_timers(t) \notin UserTimers
  /\ \A t, u \in Tasks : task_timers(t) = task_timers(u) => t = u
  /\ \A k \in UserTimers : k \in TimerIds
  BY NAssumption, TimerAssumption DEF Tasks, TimerIds, UserTimers, task_timers

\* A timer that is started expires in less than a full turn of the counter.
LEMMA StartInRange ==
  ASSUME TimerTypeOK, NEW tm \in TimerRecord, NEW timeout \in TicksRelative \ {0}
  PROVE  /\ tm.reload # 0 => InRange(timer_start(tm))
         /\ InRange(timer_start_oneshot(tm, timeout))
<1> DEFINE now == current_timeout(timer_current_ticks)
<1>1. now \in 0 .. (TicksTimeoutMod - 1) /\ TicksTimeoutMod \in Nat \ {0}
  <2>1. timer_current_ticks \in Int /\ TicksTimeoutMod \in Nat \ {0}
    BY TimerAssumption DEF TimerTypeOK, TicksAbsolute
  <2>2. QED
    BY <2>1, ModRange DEF current_timeout
<1>2. \A r \in TicksRelative \ {0} : r \in 1 .. (TicksTimeoutMod - 1)
  BY <1>1 DEF TicksRelative
<1> HIDE DEF now
<1>3. \A r \in TicksRelative \ {0} : (now + r) % TicksTimeoutMod # now
  BY <1>1, <1>2, ModDiffers
<1>4. tm.reload # 0 => timer_start(tm).expiry # now
  BY <1>3 DEF timer_start, TimerRecord, now
<1>5. timer_start_oneshot(tm, timeout).expiry = (now + timeout) % TicksTimeoutMod
  BY DEF timer_start_oneshot, timer_start, TimerRecord, now
<1>6. QED
  BY <1>3, <1>4, <1>5 DEF InRange, now

\* timer_enable and timer_oneshot start a timer, or fire and disable it.
LEMMA EnableSets ==
  ASSUME TypeOK, NEW t \in Tasks, NEW k \in UserTimers \cup {task_timers(t)},
         NEW tm \in TimerRecord, SameOwner(tm, timers[k]), timer_enable(k, tm)
  PROVE  \E new \in TimerRecord : TimerSet(t, k, new)
<1>0. TimerTypeOK /\ 0 \in TicksRelative
  BY TimerAssumption DEF TypeOK, TicksRelative
<1>1. CASE tm.reload = 0
  <2> DEFINE new == timer_process_one(tm, PENDING_SIGNALS[tm.task_id])
  <2>1. new \in TimerRecord
    BY <1>0, TimerOpsTyped
  <2>2. ~new.enabled
    <3>1. ~(tm.reload > 0)
      BY <1>1
    <3>2. DOMAIN tm = {"enabled", "overflow", "expiry", "reload", "error", "task_id", "signal_set"}
      BY DEF TimerRecord
    <3>3. new.enabled <=> (tm.enabled /\ tm.reload > 0)
      BY <3>2, Zenon DEF timer_process_one
    <3>4. QED
      BY <3>1, <3>3
  <2>r. new.task_id = tm.task_id /\ new.signal_set = tm.signal_set /\ new.error = tm.error
    BY DEF timer_process_one, TimerRecord
  <2>o. SameOwner(new, timers[k])
    BY <2>r DEF SameOwner
  <2>3. timers' = [timers EXCEPT ![k] = new]
    BY <1>1 DEF timer_enable
  <2> HIDE DEF new
  <2>4. QED
    BY <2>1, <2>2, <2>3, <2>o DEF TimerSet, InRange
<1>2. CASE tm.reload # 0
  <2> DEFINE new == timer_start(tm)
  <2>1. new \in TimerRecord
    BY <1>0, TimerOpsTyped
  <2>2. InRange(new)
    <3>1. CASE TicksRelative \ {0} = {}
      BY <1>2, <3>1 DEF TimerRecord
    <3>2. CASE TicksRelative \ {0} # {}
      BY <1>0, <1>2, <3>2, StartInRange
    <3>3. QED
      BY <3>1, <3>2
  <2>3. SameOwner(new, timers[k])
    BY DEF timer_start, TimerRecord, SameOwner
  <2>4. timers' = [timers EXCEPT ![k] = new]
    BY <1>2 DEF timer_enable
  <2> HIDE DEF new
  <2>5. QED
    BY <2>1, <2>2, <2>3, <2>4 DEF TimerSet
<1>3. QED
  BY <1>1, <1>2

LEMMA OneshotSets ==
  ASSUME TypeOK, NEW t \in Tasks, NEW k \in UserTimers \cup {task_timers(t)},
         NEW timeout \in TicksRelative, timer_oneshot(k, timeout)
  PROVE  \E new \in TimerRecord : TimerSet(t, k, new)
<1>0. TimerTypeOK /\ 0 \in TicksRelative /\ timers[k] \in TimerRecord
  BY TimerAssumption, TimersDiffer DEF TypeOK, TicksRelative, TimerTypeOK
<1>1. CASE timeout = 0
  <2> DEFINE tm == [timers[k] EXCEPT !.reload = 0]
  <2>1. tm \in TimerRecord /\ SameOwner(tm, timers[k])
    BY <1>0 DEF TimerRecord, SameOwner
  <2>2. timer_enable(k, tm)
    BY <1>1 DEF timer_oneshot
  <2> HIDE DEF tm
  <2>3. QED
    BY <2>1, <2>2, EnableSets
<1>2. CASE timeout # 0
  <2> DEFINE new == timer_start_oneshot(timers[k], timeout)
  <2>1. new \in TimerRecord
    BY <1>0, TimerOpsTyped
  <2>2. InRange(new)
    BY <1>0, <1>2, StartInRange
  <2>3. SameOwner(new, timers[k])
    BY <1>0 DEF timer_start_oneshot, timer_start, TimerRecord, SameOwner
  <2>4. timers' = [timers EXCEPT ![k] = new]
    BY <1>2 DEF timer_oneshot
  <2> HIDE DEF new
  <2>5. QED
    BY <2>1, <2>2, <2>3, <2>4 DEF TimerSet
<1>3. QED
  BY <1>1, <1>2

\* The time left fits its type.
LEMMA RemainingTyped ==
  ASSUME TypeOK, NEW t \in Tasks
  PROVE  Remaining(t) \in TicksRelative
<1>1. timer_current_ticks \in Int /\ TicksTimeoutMod \in Nat \ {0}
  BY TimerAssumption DEF TypeOK, TimerTypeOK, TicksAbsolute
<1>2. arg[t] \in Int
  BY SemAssumption, TimerAssumption DEF TypeOK, FrameTypeOK, TicksAbsolute, SemValue
<1>3. arg[t] - timer_current_ticks \in Int
  BY <1>1, <1>2
<1> DEFINE d == arg[t] - timer_current_ticks
<1> HIDE DEF d
<1>4. d % TicksTimeoutMod \in 0 .. (TicksTimeoutMod - 1)
  BY <1>1, <1>3, ModRange DEF d
<1>5. QED
  BY <1>4 DEF d, Remaining, TicksRelative

\* What the steps of a task do to the timers.
LEMMA TimerSteps ==
  ASSUME TypeOK, NEW t \in Tasks, TaskStep(t) \/ AppStep(t)
  PROVE  /\ phase = "task" /\ UNCHANGED timer_current_ticks
         /\ \/ UNCHANGED timers
            \/ \E k \in TimerIds, tm \in TimerRecord : TimerSet(t, k, tm)
<1>1. phase = "task"
  BY DEF TaskStep, Entry, BlockTimed, WaitAgain, WaitEnd, PreemptDisable, mutex_lock_loop, mutex_lock_timeout_loop,
     sem_wait_loop, sem_wait_timeout_loop, sem_max_init_store, AppStep, mutex_lock, mutex_lock_timeout,
     mutex_unlock, mutex_try_lock, sem_wait, sem_wait_timeout, sem_post, sem_try_wait, sem_max_init,
     signal_wait_set, signal_poll_set, signal_send, sleep, timer_enable_call, timer_oneshot_call, timer_disable,
     timer_check_overflow, timer_reload_set, timer_signal_set, timer_error_set, Calling, RunningEnabled, Running
<1> DEFINE Sets == \E k \in TimerIds, tm \in TimerRecord : TimerSet(t, k, tm)
<1>2. TimerTypeOK
  BY DEF TypeOK
<1>o. ASSUME NEW timeout \in TicksRelative, timer_oneshot(task_timers(t), timeout)
      PROVE  Sets
  BY <1>o, OneshotSets, TimersDiffer
<1>r. Remaining(t) \in TicksRelative
  BY RemainingTyped
<1>3. CASE TaskStep(t) /\ ~WaitEnd(t)
  <2>1. CASE mutex_lock_timeout_loop(t) \/ sem_wait_timeout_loop(t)
    <3>1. UNCHANGED timers \/ timer_oneshot(task_timers(t), Remaining(t))
      BY <2>1 DEF mutex_lock_timeout_loop, sem_wait_timeout_loop
    <3>2. UNCHANGED timer_current_ticks
      BY <2>1 DEF mutex_lock_timeout_loop, sem_wait_timeout_loop
    <3>3. QED
      BY <1>1, <1>o, <1>r, <3>1, <3>2
  <2>2. QED
    BY <1>1, <1>3, <2>1 DEF TaskStep, Entry, BlockTimed, WaitAgain, PreemptDisable, mutex_lock_loop, sem_wait_loop,
       sem_max_init_store, timerVars
<1>4. CASE WaitEnd(t)
  <2> DEFINE k == task_timers(t)
             new == [timers[k] EXCEPT !.enabled = FALSE]
  <2>1. k \in TimerIds /\ timers[k] \in TimerRecord
    BY <1>2, TimersDiffer DEF TimerTypeOK
  <2>2. new \in TimerRecord /\ SameOwner(new, timers[k]) /\ ~new.enabled
    BY <2>1 DEF TimerRecord, SameOwner
  <2>3. UNCHANGED timers \/ timers' = [timers EXCEPT ![k] = new]
    <3>1. UNCHANGED timers \/ timers' = [timers EXCEPT ![k].enabled = FALSE]
      BY <1>4 DEF WaitEnd
    <3>2. [timers EXCEPT ![k].enabled = FALSE] = [timers EXCEPT ![k] = new]
      OBVIOUS
    <3>3. QED
      BY <3>1, <3>2
  <2>4. UNCHANGED timer_current_ticks
    BY <1>4 DEF WaitEnd
  <2> HIDE DEF new
  <2>5. QED
    BY <1>1, <2>1, <2>2, <2>3, <2>4 DEF TimerSet
<1>5. CASE AppStep(t)
  <2>1. ASSUME NEW k \in UserTimers,
               \/ timer_enable(k, timers[k])
               \/ \E timeout \in Timeouts : timer_oneshot(k, timeout)
        PROVE  Sets
    <3>1. k \in TimerIds /\ timers[k] \in TimerRecord /\ SameOwner(timers[k], timers[k])
      BY <1>2, TimersDiffer DEF TimerTypeOK, SameOwner
    <3>2. CASE timer_enable(k, timers[k])
      BY <3>1, <3>2, EnableSets
    <3>3. CASE \E timeout \in Timeouts : timer_oneshot(k, timeout)
      BY <3>1, <3>3, OneshotSets, KochabAssumption
    <3>4. QED
      BY <2>1, <3>2, <3>3
  <2>2. ASSUME NEW k \in UserTimers, NEW tm, SetTimer(k, tm), tm \in TimerRecord,
               tm.enabled => (timers[k].enabled /\ tm.expiry = timers[k].expiry)
        PROVE  Sets
    BY <2>2, TimersDiffer DEF SetTimer, TimerSet
  <2>3. CASE mutex_lock(t) \/ mutex_lock_timeout(t) \/ mutex_unlock(t) \/ mutex_try_lock(t)
             \/ sem_wait(t) \/ sem_wait_timeout(t) \/ sem_post(t) \/ sem_try_wait(t) \/ sem_max_init(t)
             \/ signal_wait_set(t) \/ signal_poll_set(t) \/ signal_send(t) \/ Fatal
    BY <1>1, <2>3 DEF mutex_lock, mutex_lock_timeout, mutex_unlock, mutex_try_lock, sem_wait, sem_wait_timeout,
       sem_post, sem_try_wait, sem_max_init, signal_wait_set, signal_poll_set, signal_send, Fatal, timerVars
  <2>4. CASE sleep(t)
    BY <1>1, <1>o, <2>4, KochabAssumption DEF sleep
  <2>5. CASE timer_enable_call(t) /\ ~Fatal
    BY <1>1, <2>1, <2>5 DEF timer_enable_call, TimerApiFrame
  <2>6. CASE timer_oneshot_call(t) /\ ~Fatal
    BY <1>1, <2>1, <2>6 DEF timer_oneshot_call, TimerApiFrame
  <2>k. \A k \in UserTimers : timers[k] \in TimerRecord
    BY <1>2, TimersDiffer DEF TimerTypeOK
  <2>7. CASE timer_disable(t)
    <3>1. PICK k \in UserTimers : SetTimer(k, [timers[k] EXCEPT !.enabled = FALSE])
      BY <2>7 DEF timer_disable
    <3>2. QED
      BY <1>1, <2>2, <2>7, <2>k, <3>1 DEF timer_disable, TimerApiFrame, TimerRecord
  <2>8. CASE timer_check_overflow(t)
    <3>1. PICK k \in UserTimers : SetTimer(k, [timers[k] EXCEPT !.overflow = FALSE])
      BY <2>8 DEF timer_check_overflow
    <3>2. QED
      BY <1>1, <2>2, <2>8, <2>k, <3>1 DEF timer_check_overflow, TimerApiFrame, TimerRecord
  <2>9. CASE timer_reload_set(t)
    <3>1. PICK k \in UserTimers, reload \in Timeouts : SetTimer(k, [timers[k] EXCEPT !.reload = reload])
      BY <2>9 DEF timer_reload_set
    <3>2. reload \in TicksRelative
      BY KochabAssumption
    <3>3. QED
      BY <1>1, <2>2, <2>9, <2>k, <3>1, <3>2 DEF timer_reload_set, TimerApiFrame, TimerRecord
  <2>10. CASE timer_signal_set(t)
    <3>1. PICK k \in UserTimers, task_id \in Tasks, sigs \in (SUBSET AppSignals) \ {{}} :
            SetTimer(k, [timers[k] EXCEPT !.error = FALSE, !.task_id = task_id, !.signal_set = sigs])
      BY <2>10 DEF timer_signal_set
    <3>2. sigs \in SUBSET Signals
      BY DEF Signals
    <3>3. QED
      BY <1>1, <2>2, <2>10, <2>k, <3>1, <3>2 DEF timer_signal_set, TimerApiFrame, TimerRecord
  <2>11. CASE timer_error_set(t)
    <3>1. PICK k \in UserTimers, error \in BOOLEAN : SetTimer(k, [timers[k] EXCEPT !.error = error])
      BY <2>11 DEF timer_error_set
    <3>2. QED
      BY <1>1, <2>2, <2>11, <2>k, <3>1 DEF timer_error_set, TimerApiFrame, TimerRecord
  <2>12. QED
    BY <1>5, <2>3, <2>4, <2>5, <2>6, <2>7, <2>8, <2>9, <2>10, <2>11 DEF AppStep
<1>6. QED
  BY <1>3, <1>4, <1>5

\* The expired timers are started again in range or disabled, and the others
\* do not expire at this tick.
LEMMA TickInRange ==
  ASSUME TypeOK, NEW ticks \in TicksAbsolute, NEW k \in TimerIds,
         TimersAfter(Expired(ticks))[k].enabled
  PROVE  TimersAfter(Expired(ticks))[k].expiry # current_timeout(ticks)
<1> DEFINE K == Expired(ticks)
           now == current_timeout(ticks)
           pending == PendingAt(k, K)
           tm == timers[k]
<1>1. now \in 0 .. (TicksTimeoutMod - 1) /\ TicksTimeoutMod \in Nat \ {0}
  <2>1. ticks \in Int /\ TicksTimeoutMod \in Nat \ {0}
    BY TimerAssumption DEF TicksAbsolute
  <2>2. QED
    BY <2>1, ModRange DEF current_timeout
<1>2. TimersAfter(K)[k] = IF k \in K THEN timer_process_one(tm, pending) ELSE tm
  BY DEF TimersAfter
<1>3. k \in K <=> tm.enabled /\ tm.expiry = now
  BY DEF Expired
<1>4. tm \in TimerRecord
  BY DEF TypeOK, TimerTypeOK
<1> HIDE DEF K, now, pending, tm
<1>5. CASE k \notin K
  BY <1>2, <1>3, <1>5 DEF K, now
<1>6. CASE k \in K
  <2>1. DOMAIN tm = {"enabled", "overflow", "expiry", "reload", "error", "task_id", "signal_set"}
    BY <1>4 DEF TimerRecord
  <2>2. timer_process_one(tm, pending).enabled <=> (tm.enabled /\ tm.reload > 0)
    BY <2>1, Zenon DEF timer_process_one
  <2>3. tm.reload > 0
    BY <1>2, <1>6, <2>2 DEF K
  <2>4. tm.reload \in 1 .. (TicksTimeoutMod - 1)
    BY <1>1, <1>4, <2>3 DEF TimerRecord, TicksRelative
  <2>5. timer_process_one(tm, pending).expiry = (now + tm.reload) % TicksTimeoutMod
    <3>1. timer_process_one(tm, pending).expiry = (tm.expiry + tm.reload) % TicksTimeoutMod
      BY <1>4, <2>1, <2>3 DEF timer_process_one
    <3>2. QED
      BY <1>3, <1>6, <3>1
  <2>6. QED
    BY <1>1, <1>2, <1>6, <2>4, <2>5, ModDiffers DEF K, now
<1>7. QED
  BY <1>5, <1>6

LEMMA FireTaskSide ==
  ASSUME TypeOK, TimersFireInRange, NEW t \in Tasks, TaskStep(t) \/ AppStep(t)
  PROVE  TimersFireInRange'
<1>1. phase # "fatal" /\ UNCHANGED timer_current_ticks
  BY TimerSteps
<1>2. CASE UNCHANGED timers
  BY <1>1, <1>2 DEF TimersFireInRange
<1>3. CASE \E k \in TimerIds, tm \in TimerRecord : TimerSet(t, k, tm)
  BY <1>1, <1>3 DEF TimersFireInRange, TimerSet, InRange, TypeOK, TimerTypeOK
<1>4. QED
  BY <1>2, <1>3, TimerSteps

LEMMA FireCpuSide ==
  ASSUME TypeOK, TimersFireInRange, SchedStep \/ Interrupt
  PROVE  TimersFireInRange'
<1>1. phase # "fatal"
  BY DEF SchedStep, Interrupt, Preempt, interrupt_event_process, timer_tick_process, sched_pick,
     interrupt_event_wait, timer_tick, interrupt_event_raise, HandlerReturns
<1>2. CASE timer_tick_process
  <2> DEFINE ticks == (timer_current_ticks + 1) % TicksAbsoluteMod
             K == Expired(ticks)
  <2>1. CASE UNCHANGED timerVars
    BY <1>1, <2>1 DEF timerVars, TimersFireInRange
  <2>2. CASE phase' = "fatal"
    BY <2>2 DEF TimersFireInRange
  <2>3. CASE timer_current_ticks' = ticks /\ timers' = TimersAfter(K)
    <3>1. ticks \in TicksAbsolute
      <4>1. timer_current_ticks + 1 \in Int /\ TicksAbsoluteMod \in Nat \ {0}
        BY TimerAssumption DEF TypeOK, TimerTypeOK, TicksAbsolute
      <4>2. QED
        BY <4>1, ModRange DEF TicksAbsolute
    <3> HIDE DEF ticks
    <3>2. \A k \in TimerIds : timers'[k].enabled => timers'[k].expiry # current_timeout(ticks)
      BY <2>3, <3>1, TickInRange DEF K
    <3>3. QED
      BY <2>3, <3>2 DEF TimersFireInRange
  <2>4. QED
    BY <1>2, <2>1, <2>2, <2>3 DEF timer_tick_process
<1>3. CASE ~timer_tick_process
  <2>1. UNCHANGED timerVars
    BY <1>3 DEF SchedStep, Interrupt, Preempt, interrupt_event_process, sched_pick, interrupt_event_wait,
       timer_tick, interrupt_event_raise, HandlerReturns
  <2>2. QED
    BY <1>1, <2>1 DEF timerVars, TimersFireInRange
<1>4. QED
  BY <1>2, <1>3

LEMMA FireNext == TypeOK /\ TimersFireInRange /\ [Next]_vars => TimersFireInRange'
<1> SUFFICES ASSUME TypeOK, TimersFireInRange, [Next]_vars PROVE TimersFireInRange'
  OBVIOUS
<1>1. CASE UNCHANGED vars
  BY <1>1 DEF vars, timerVars, cpuVars, TimersFireInRange
<1>2. CASE Next
  BY <1>1, <1>2, FireTaskSide, FireCpuSide DEF Next, Stopped
<1>3. QED
  BY <1>1, <1>2

\* No configured timer is enabled at start without a reload value.
ConfiguredInRange == \A k \in UserTimers : UserTimerInit[k].enabled => UserTimerInit[k].expiry # 0

LEMMA FireInit == ConfiguredInRange /\ Init => TimersFireInRange
<1> SUFFICES ASSUME ConfiguredInRange, Init PROVE TimersFireInRange
  OBVIOUS
<1>1. current_timeout(timer_current_ticks) = 0
  BY TimerAssumption DEF Init, current_timeout
<1>2. \A k \in TimerIds : timers[k] = IF k \in UserTimers THEN UserTimerInit[k] ELSE TaskTimer(k - NumUserTimers)
  BY DEF Init
<1>3. \A t : ~TaskTimer(t).enabled
  BY DEF TaskTimer
<1>4. QED
  BY <1>1, <1>2, <1>3 DEF TimersFireInRange, ConfiguredInRange

\* A timer never waits for a tick that has just passed, whatever the timer API
\* does to it, and however often the counters wrap.
THEOREM TimersCorrect == ConfiguredInRange => (Spec => []TimersFireInRange)
<1>1. ConfiguredInRange /\ Init => TimersFireInRange
  BY FireInit
<1>2. QED
  BY <1>1, TypeCorrect, FireNext, PTL DEF Spec

-----------------------------------------------------------------------------
(* Semaphores. *)

\* One task initialises the maxima: sem_max_init checks and stores with
\* preemption enabled, so two callers could both pass the check.
OneInitializer == \A t, u \in Tasks : "sem_max_init" \in Calls[t] \cap Calls[u] => t = u

\* No value passes its maximum, which is 0 until it is set, and a caller of
\* sem_max_init that has passed the check finds the maximum still unset.
MaxInv ==
    /\ \A s \in Sems : SemEnableMax => sem_value[s] <= sem_max[s]
    /\ \A t \in Tasks : pc[t] = "max_init_call" => "sem_max_init" \in Calls[t] /\ sem_max[obj[t]] = 0

SemTakeStep(t) == sem_wait_loop(t) \/ sem_wait_timeout_loop(t) \/ sem_try_wait(t)

\* What a step does to the values and the maxima.
SemMove(t) ==
    \/ UNCHANGED <<sem_value, sem_max>>
    \/ SemTakeStep(t) /\ \E s \in Sems : sem_take(s)
    \/ \E s \in Sems : ~SemPostFatal(s) /\ sem_add(s)
    \/ sem_max_init_store(t)

LEMMA SemSteps ==
  ASSUME TypeOK, NEW t \in Tasks, TaskStep(t) \/ AppStep(t)
  PROVE  SemMove(t)
<1>1. CASE TaskStep(t)
  <2>1. CASE sem_wait_loop(t) \/ sem_wait_timeout_loop(t)
    <3>1. obj[t] \in Sems
      BY <2>1 DEF TypeOK, LocalsTypeOK, SemLabels, sem_wait_loop, sem_wait_timeout_loop, Running
    <3>2. sem_take(obj[t]) \/ UNCHANGED <<sem_value, sem_max>>
      BY <2>1 DEF sem_wait_loop, sem_wait_timeout_loop, sem_register, semVars
    <3>3. QED
      BY <2>1, <3>1, <3>2 DEF SemMove, SemTakeStep
  <2>2. CASE sem_max_init_store(t)
    BY <2>2 DEF SemMove
  <2>3. QED
    BY <1>1, <2>1, <2>2 DEF TaskStep, Entry, BlockTimed, WaitAgain, WaitEnd, PreemptDisable, mutex_lock_loop,
       mutex_lock_timeout_loop, semVars, SemMove
<1>2. CASE AppStep(t)
  <2>1. CASE sem_try_wait(t)
    BY <2>1 DEF sem_try_wait, SemMove, SemTakeStep
  <2>2. CASE sem_post(t)
    BY <2>2 DEF sem_post, SemMove, Fatal, semVars
  <2>3. QED
    BY <1>2, <2>1, <2>2 DEF AppStep, mutex_lock, mutex_lock_timeout, mutex_unlock, mutex_try_lock, sem_wait,
       sem_wait_timeout, sem_max_init, signal_wait_set, signal_poll_set, signal_send, sleep, timer_enable_call,
       timer_oneshot_call, timer_disable, timer_check_overflow, timer_reload_set, timer_signal_set,
       timer_error_set, TimerApiFrame, Fatal, semVars, SemMove
<1>3. QED
  BY <1>1, <1>2

\* The scheduler and the interrupt handlers leave the semaphores and the
\* stack frames alone.
LEMMA SemCpuSteps ==
  ASSUME SchedStep \/ Interrupt \/ Stopped
  PROVE  UNCHANGED <<sem_value, sem_max, pc, obj>>
  BY DEF SchedStep, Preempt, interrupt_event_process, timer_tick_process, sched_pick, interrupt_event_wait,
     Interrupt, timer_tick, interrupt_event_raise, HandlerReturns, Stopped, vars, semVars, frameVars

\* A task gets to the store of sem_max_init only through its checks.
LEMMA InitSteps ==
  ASSUME TypeOK, NEW t \in Tasks, TaskStep(t) \/ AppStep(t), NEW u \in Tasks, pc'[u] = "max_init_call"
  PROVE  \/ pc[u] = "max_init_call" /\ obj'[u] = obj[u]
         \/ sem_max_init(t) /\ u = t /\ sem_max[obj'[t]] = 0
<1> USE DEF TypeOK, FrameTypeOK
<1>1. CASE u # t
  BY <1>1 DEF TaskStep, Entry, BlockTimed, WaitAgain, WaitEnd, PreemptDisable, mutex_lock_loop,
     mutex_lock_timeout_loop, sem_wait_loop, sem_wait_timeout_loop, sem_max_init_store, AppStep, mutex_lock,
     mutex_lock_timeout, mutex_unlock, mutex_try_lock, sem_wait, sem_wait_timeout, sem_post, sem_try_wait,
     sem_max_init, signal_wait_set, signal_poll_set, signal_send, sleep, timer_enable_call, timer_oneshot_call,
     timer_disable, timer_check_overflow, timer_reload_set, timer_signal_set, timer_error_set, TimerApiFrame,
     Fatal, frameVars, Frame, Return
<1>2. CASE u = t /\ TaskStep(t)
  <2>1. WaitOf["lock_timeout_block"] # "max_init_call" /\ WaitOf["sem_timeout_block"] # "max_init_call"
        /\ WaitOf["sleep_block"] # "max_init_call"
    BY DEF WaitOf
  <2>2. CASE BlockTimed(t)
    BY <1>2, <2>1, <2>2 DEF BlockTimed, Frame, BlockLabels
  <2>3. CASE WaitEnd(t)
    BY <1>2, <2>3 DEF WaitEnd, Frame, Return, AfterWait, Waits, TimerWaits, MutexWaits, SemWaits
  <2>4. QED
    BY <1>2, <2>2, <2>3 DEF TaskStep, Entry, WaitAgain, PreemptDisable, mutex_lock_loop,
       mutex_lock_timeout_loop, sem_wait_loop, sem_wait_timeout_loop, sem_max_init_store, frameVars, Frame, Return
<1>3. CASE u = t /\ AppStep(t)
  <2>1. CASE sem_max_init(t)
    BY <1>3, <2>1 DEF sem_max_init, Fatal, frameVars, Frame
  <2>2. QED
    BY <1>3, <2>1 DEF AppStep, mutex_lock, mutex_lock_timeout, mutex_unlock, mutex_try_lock, sem_wait,
       sem_wait_timeout, sem_post, sem_try_wait, signal_wait_set, signal_poll_set, signal_send, sleep,
       timer_enable_call, timer_oneshot_call, timer_disable, timer_check_overflow, timer_reload_set,
       timer_signal_set, timer_error_set, TimerApiFrame, Fatal, frameVars, Frame, Return
<1>4. QED
  BY <1>1, <1>2, <1>3

\* Neither a post nor the store of a maximum takes a value past its maximum,
\* and a value goes down only when a task takes from its semaphore.
LEMMA ValueSteps ==
  ASSUME TypeOK, MaxInv, NEW t \in Tasks, SemMove(t), NEW s \in Sems, SemEnableMax
  PROVE  /\ sem_value'[s] <= sem_max'[s]
         /\ sem_value'[s] < sem_value[s] => SemTakeStep(t)
<1>t. sem_value \in [Sems -> SemValue] /\ sem_max \in [Sems -> SemValue]
  BY DEF TypeOK, SemTypeOK
<1>s. sem_value[s] \in Nat /\ sem_max[s] \in Nat /\ sem_max[s] < SemValueMod /\ sem_value[s] <= sem_max[s]
      /\ SemValueMod \in Nat
  BY <1>t, SemAssumption DEF SemValue, MaxInv
<1>1. CASE UNCHANGED <<sem_value, sem_max>>
  BY <1>1, <1>s
<1>2. CASE SemTakeStep(t) /\ \E r \in Sems : sem_take(r)
  BY <1>2, <1>s, <1>t DEF sem_take
<1>3. ASSUME NEW r \in Sems, ~SemPostFatal(r), sem_add(r)
      PROVE  /\ sem_value'[s] <= sem_max'[s]
             /\ sem_value'[s] < sem_value[s] => SemTakeStep(t)
  <2>1. CASE s # r
    BY <1>3, <1>s, <1>t, <2>1 DEF sem_add
  <2>2. CASE s = r
    <3>1. sem_value[s] + 1 <= sem_max[s]
      BY <1>3, <1>s, <2>2 DEF SemPostFatal
    <3>2. (sem_value[s] + 1) % SemValueMod = sem_value[s] + 1
      BY <1>s, <3>1
    <3>3. QED
      BY <1>3, <1>s, <1>t, <2>2, <3>1, <3>2 DEF sem_add
  <2>3. QED
    BY <2>1, <2>2
<1>4. CASE sem_max_init_store(t)
  <2>1. pc[t] = "max_init_call" /\ obj[t] \in Sems /\ arg[t] \in SemValue
    BY <1>4 DEF sem_max_init_store, RunningEnabled, Running, TypeOK, LocalsTypeOK, SemLabels
  <2>2. sem_max[obj[t]] = 0 /\ sem_value[obj[t]] = 0 /\ arg[t] >= 0
    BY <1>t, <2>1, SemAssumption DEF MaxInv, SemValue
  <2>3. QED
    BY <1>4, <1>s, <1>t, <2>1, <2>2 DEF sem_max_init_store
<1>5. QED
  BY <1>1, <1>2, <1>3, <1>4 DEF SemMove

\* While a task is in sem_max_init nobody else stores the maximum.
LEMMA MaxUnset ==
  ASSUME TypeOK, MaxInv, OneInitializer, NEW t \in Tasks, TaskStep(t) \/ AppStep(t),
         NEW u \in Tasks, pc'[u] = "max_init_call"
  PROVE  "sem_max_init" \in Calls[u] /\ sem_max'[obj'[u]] = 0
<1>1. CASE sem_max_init(t) /\ u = t /\ sem_max[obj'[t]] = 0
  <2>1. sem_max' = sem_max
    BY <1>1 DEF sem_max_init, Fatal, semVars
  <2>2. "sem_max_init" \in Calls[t]
    BY <1>1 DEF sem_max_init, Calling
  <2>3. QED
    BY <1>1, <2>1, <2>2
<1>2. CASE pc[u] = "max_init_call" /\ obj'[u] = obj[u]
  <2>1. "sem_max_init" \in Calls[u] /\ sem_max[obj[u]] = 0
    BY <1>2 DEF MaxInv
  <2>2. ~sem_max_init_store(t)
    <3>1. SUFFICES ASSUME sem_max_init_store(t) PROVE FALSE
      OBVIOUS
    <3>2. pc[t] = "max_init_call" /\ pc'[t] = "app"
      BY <3>1 DEF sem_max_init_store, RunningEnabled, Running, Return, Frame, TypeOK, FrameTypeOK
    <3>3. u = t
      BY <2>1, <3>2 DEF MaxInv, OneInitializer
    <3>4. QED
      BY <3>2, <3>3
  <2>3. sem_max' = sem_max
    BY <2>2, SemSteps DEF SemMove, sem_take, sem_add
  <2>4. QED
    BY <1>2, <2>1, <2>3
<1>3. QED
  BY <1>1, <1>2, InitSteps

LEMMA MaxNext == OneInitializer /\ TypeOK /\ MaxInv /\ [Next]_vars => MaxInv'
<1> SUFFICES ASSUME OneInitializer, TypeOK, MaxInv, [Next]_vars PROVE MaxInv'
  OBVIOUS
<1>1. CASE UNCHANGED <<sem_value, sem_max, pc, obj>>
  BY <1>1 DEF MaxInv
<1>2. ASSUME NEW t \in Tasks, TaskStep(t) \/ AppStep(t)
      PROVE  MaxInv'
  <2>1. \A s \in Sems : SemEnableMax => sem_value'[s] <= sem_max'[s]
    BY <1>2, SemSteps, ValueSteps
  <2>2. \A u \in Tasks : pc'[u] = "max_init_call" => "sem_max_init" \in Calls[u] /\ sem_max'[obj'[u]] = 0
    BY <1>2, MaxUnset
  <2>3. QED
    BY <2>1, <2>2 DEF MaxInv
<1>3. CASE UNCHANGED vars
  BY <1>1, <1>3 DEF vars, semVars, frameVars
<1>4. QED
  BY <1>1, <1>2, <1>3, SemCpuSteps DEF Next

LEMMA MaxInit == Init => MaxInv
  BY DEF Init, SemInit, MaxInv

LEMMA MaxHolds == OneInitializer => (Spec => [](TypeOK /\ MaxInv))
<1> SUFFICES ASSUME OneInitializer PROVE Spec => [](TypeOK /\ MaxInv)
  OBVIOUS
<1>1. Init => TypeOK /\ MaxInv
  BY TypeInit, MaxInit
<1>2. TypeOK /\ MaxInv /\ [Next]_vars => (TypeOK /\ MaxInv)'
  BY TypeNext, MaxNext
<1>3. QED
  BY <1>1, <1>2, PTL DEF Spec

\* No sem_post takes a semaphore past its maximum, in any interleaving with
\* the task that sets the maximum.
THEOREM SemMaxCorrect == OneInitializer => (Spec => []SemValueWithinMax)
<1>1. MaxInv => SemValueWithinMax
  BY DEF MaxInv, SemValueWithinMax
<1>2. QED
  BY <1>1, MaxHolds, PTL

\* With a maximum no sem_post wraps the value: it goes down only when a task
\* takes from the semaphore.
THEOREM SemValueCorrect == OneInitializer /\ SemEnableMax => (Spec => SemValueIsKept)
<1> SUFFICES ASSUME OneInitializer, SemEnableMax PROVE Spec => SemValueIsKept
  OBVIOUS
<1> DEFINE Kept == \A s \in Sems : sem_value'[s] < sem_value[s] =>
                      \E t \in Tasks : sem_wait_loop(t) \/ sem_wait_timeout_loop(t) \/ sem_try_wait(t)
<1>1. ASSUME TypeOK, MaxInv, [Next]_vars
      PROVE  [Kept]_vars
  <2>1. ASSUME NEW t \in Tasks, TaskStep(t) \/ AppStep(t) PROVE Kept
    BY <1>1, <2>1, SemSteps, ValueSteps DEF SemTakeStep
  <2>2. CASE UNCHANGED <<sem_value, sem_max, pc, obj>>
    <3>1. \A s \in Sems : ~(sem_value[s] < sem_value[s])
      BY <1>1, SemAssumption DEF TypeOK, SemTypeOK, SemValue
    <3>2. QED
      BY <2>2, <3>1
  <2>3. QED
    BY <1>1, <2>1, <2>2, SemCpuSteps DEF Next
<1> HIDE DEF Kept
<1>2. TypeOK /\ MaxInv /\ [Next]_vars => [Kept]_vars
  BY <1>1
<1>3. Spec => [][Kept]_vars
  BY <1>2, MaxHolds, PTL DEF Spec
<1>4. QED
  BY <1>3 DEF SemValueIsKept, Kept

-----------------------------------------------------------------------------
(* The task timers of the calls with a timeout. *)

\* Where a task sleeps, or is about to, until its timer signals it.
Sleeps == {"lock_timeout_block", "sem_timeout_block", "sleep_block"} \cup TimedWaits \cup {"sleep_wait"}

\* The absolute timeout that a call keeps is the true one, and the counter has
\* either not reached it, or passed it, or left it behind by a wrap.
ClockOK(u) == pc[u] \in TimedLabels => OnClock(u, arg[u])

\* The timer of task u signals u and nobody else, and is never fatal.
OwnTimer(u) ==
    /\ timers[task_timers(u)].task_id = u
    /\ timers[task_timers(u)].signal_set = {TASK_TIMER}

\* From the start of its timer to the end of its wait, the task of a call with
\* a timeout has been signalled or has its timer running until its time is up.
ArmOK(u) ==
    /\ OwnTimer(u)
    /\ (phase # "fatal" /\ pc[u] \in Sleeps) => (TASK_TIMER \in PENDING_SIGNALS[u] \/ ExpiresInTime(u))

ArmInv == \A u \in Tasks : ClockOK(u) /\ ArmOK(u)

\* A step of task t leaves the frame and the timer of another task alone, and
\* takes no signal from it.
LEMMA OthersKept ==
  ASSUME TypeOK, NEW t \in Tasks, TaskStep(t) \/ AppStep(t), NEW u \in Tasks, u # t
  PROVE  /\ pc'[u] = pc[u] /\ arg'[u] = arg[u]
         /\ PENDING_SIGNALS[u] \subseteq PENDING_SIGNALS'[u]
         /\ timers'[task_timers(u)] = timers[task_timers(u)]
         /\ time_left'[u] = time_left[u]
<1>1. pc'[u] = pc[u] /\ arg'[u] = arg[u]
  BY DEF TypeOK, FrameTypeOK, TaskStep, Entry, BlockTimed, WaitAgain, WaitEnd, PreemptDisable, mutex_lock_loop,
     mutex_lock_timeout_loop, sem_wait_loop, sem_wait_timeout_loop, sem_max_init_store, AppStep, mutex_lock,
     mutex_lock_timeout, mutex_unlock, mutex_try_lock, sem_wait, sem_wait_timeout, sem_post, sem_try_wait,
     sem_max_init, signal_wait_set, signal_poll_set, signal_send, sleep, timer_enable_call, timer_oneshot_call,
     timer_disable, timer_check_overflow, timer_reload_set, timer_signal_set, timer_error_set, TimerApiFrame,
     Fatal, frameVars, Frame, Return
<1>2. timers'[task_timers(u)] = timers[task_timers(u)]
  BY TimerSteps, TimersDiffer DEF TimerSet, TypeOK, TimerTypeOK
<1>s. ASSUME NEW T \in SUBSET Tasks, NEW sigs, signal_send_set(T, sigs)
      PROVE  PENDING_SIGNALS[u] \subseteq PENDING_SIGNALS'[u]
  BY <1>s, SendEffect DEF KeptOrWoken
<1>o. ASSUME NEW k \in TimerIds,
             timer_enable(k, timers[k]) \/ \E timeout \in TicksRelative : timer_oneshot(k, timeout)
      PROVE  PENDING_SIGNALS[u] \subseteq PENDING_SIGNALS'[u]
  BY <1>o, TimerEffect DEF KeptOrWoken
<1>r. Remaining(t) \in TicksRelative
  BY RemainingTyped
<1>3. PENDING_SIGNALS[u] \subseteq PENDING_SIGNALS'[u]
  <2>1. CASE TaskStep(t)
    <3>1. CASE WaitEnd(t)
      BY <3>1 DEF WaitEnd, signal_recv, TypeOK, SignalTypeOK
    <3>2. CASE mutex_lock_timeout_loop(t) \/ sem_wait_timeout_loop(t)
      <4>1. UNCHANGED PENDING_SIGNALS \/ timer_oneshot(task_timers(t), Remaining(t))
        BY <3>2 DEF mutex_lock_timeout_loop, sem_wait_timeout_loop
      <4>2. QED
        BY <1>o, <1>r, <4>1, TimersDiffer
    <3>3. QED
      BY <2>1, <3>1, <3>2 DEF TaskStep, Entry, BlockTimed, WaitAgain, PreemptDisable, mutex_lock_loop,
         sem_wait_loop, sem_max_init_store
  <2>2. CASE AppStep(t)
    <3>0. /\ \A m : MutexWaiters(m) \in SUBSET Tasks
          /\ \A s : SemWoken(s) \in SUBSET Tasks
      BY DEF MutexWaiters, SemWoken
    <3>1. CASE mutex_unlock(t) \/ sem_post(t) \/ signal_send(t)
      <4>1. UNCHANGED PENDING_SIGNALS \/ \E T \in SUBSET Tasks : \E sigs : signal_send_set(T, sigs)
        BY <3>0, <3>1 DEF mutex_unlock, sem_post, signal_send, Fatal
      <4>2. QED
        BY <1>s, <4>1
    <3>2. CASE signal_poll_set(t)
      BY <3>2 DEF signal_poll_set, signal_recv, TypeOK, SignalTypeOK
    <3>3. CASE sleep(t) \/ timer_enable_call(t) \/ timer_oneshot_call(t)
      <4>1. \/ UNCHANGED PENDING_SIGNALS
            \/ \E k \in TimerIds : timer_enable(k, timers[k]) \/ \E timeout \in TicksRelative : timer_oneshot(k, timeout)
        BY <3>3, TimersDiffer, KochabAssumption DEF sleep, timer_enable_call, timer_oneshot_call, Fatal
      <4>2. QED
        BY <1>o, <4>1
    <3>4. QED
      BY <2>2, <3>1, <3>2, <3>3 DEF AppStep, mutex_lock, mutex_lock_timeout, mutex_try_lock, sem_wait,
         sem_wait_timeout, sem_try_wait, sem_max_init, signal_wait_set, timer_disable, timer_check_overflow,
         timer_reload_set, timer_signal_set, timer_error_set, SetTimer, Fatal
  <2>3. QED
    BY <2>1, <2>2
<1>4. time_left'[u] = time_left[u]
  BY TimeLeftSteps DEF StartTimeout, EndTimeout, TypeOK, TimeLeftTypeOK
<1>5. QED
  BY <1>1, <1>2, <1>3, <1>4

\* A step of t leaves its own timer t's.
LEMMA OwnerKept ==
  ASSUME TypeOK, NEW t \in Tasks, TaskStep(t) \/ AppStep(t), OwnTimer(t)
  PROVE  OwnTimer(t)'
<1>1. CASE UNCHANGED timers
  BY <1>1 DEF OwnTimer
<1>2. ASSUME NEW k \in TimerIds, NEW tm \in TimerRecord, TimerSet(t, k, tm)
      PROVE  OwnTimer(t)'
  BY <1>2, TimersDiffer DEF TimerSet, SameOwner, OwnTimer, TypeOK, TimerTypeOK
<1>3. QED
  BY <1>1, <1>2, TimerSteps

\* A call computes its absolute timeout once and keeps it until it returns.
LEMMA ClockOwn ==
  ASSUME TypeOK, NEW t \in Tasks, ClockOK(t), TaskStep(t) \/ AppStep(t)
  PROVE  ClockOK(t)'
<1> SUFFICES ASSUME pc'[t] \in TimedLabels PROVE OnClock(t, arg[t])'
  BY DEF ClockOK
<1>p. UNCHANGED timer_current_ticks
  BY TimerSteps
<1>k. ASSUME pc[t] \in TimedLabels, arg'[t] = arg[t], UNCHANGED time_left
      PROVE  OnClock(t, arg[t])'
  BY <1>k, <1>p DEF ClockOK, OnClock
<1>t. /\ TimedLabels = {"lock_timeout_call", "lock_timeout", "lock_timeout_block", "lock_timeout_wait",
                        "sem_timeout_call", "sem_timeout", "sem_timeout_block", "sem_timeout_wait"}
      /\ pc \in [Tasks -> Labels] /\ DOMAIN arg = Tasks
  BY DEF TimedLabels, TimedWaits, TypeOK, FrameTypeOK
<1>1. CASE TaskStep(t)
  <2>r. ~Return(t)
    BY <1>t DEF Return, Frame
  <2>1. CASE BlockTimed(t)
    <3>1. pc[t] \in BlockLabels /\ pc'[t] = WaitOf[pc[t]] /\ arg'[t] = arg[t] /\ UNCHANGED time_left
      BY <2>1, <1>t DEF BlockTimed, Frame, timerVars
    <3>2. pc[t] \in TimedLabels
      BY <1>t, <3>1 DEF BlockLabels, WaitOf
    <3>3. QED
      BY <3>1, <3>2, <1>k
  <2>2. CASE WaitAgain(t)
    BY <2>2, <1>k DEF WaitAgain, frameVars, timerVars
  <2>3. CASE WaitEnd(t)
    <3>1. /\ pc[t] \in Waits /\ pc'[t] = AfterWait[pc[t]] /\ arg'[t] = arg[t] /\ UNCHANGED time_left
      BY <2>3, <2>r, <1>t DEF WaitEnd, Frame
    <3>2. pc[t] \in TimedLabels
      BY <1>t, <3>1 DEF Waits, TimerWaits, MutexWaits, SemWaits, AfterWait
    <3>3. QED
      BY <3>1, <3>2, <1>k
  <2>4. CASE PreemptDisable(t)
    BY <2>4, <1>k, <1>t DEF PreemptDisable, RunningEnabled, Running, timerVars
  <2>5. CASE mutex_lock_timeout_loop(t) \/ sem_wait_timeout_loop(t)
    BY <2>5, <2>r, <1>k, <1>t DEF mutex_lock_timeout_loop, sem_wait_timeout_loop, Running, Frame
  <2>6. QED
    BY <1>1, <1>t, <2>r, <2>1, <2>2, <2>3, <2>4, <2>5 DEF TaskStep, Entry, mutex_lock_loop,
       sem_wait_loop, sem_max_init_store, Frame
<1>2. CASE AppStep(t)
  <2>1. pc[t] = "app"
    BY <1>2 DEF AppStep, mutex_lock, mutex_lock_timeout, mutex_unlock, mutex_try_lock, sem_wait, sem_wait_timeout,
       sem_post, sem_try_wait, sem_max_init, signal_wait_set, signal_poll_set, signal_send, sleep,
       timer_enable_call, timer_oneshot_call, timer_disable, timer_check_overflow, timer_reload_set,
       timer_signal_set, timer_error_set, Calling, RunningEnabled, Running
  <2>2. CASE mutex_lock_timeout(t) \/ sem_wait_timeout(t)
    <3>1. PICK timeout \in Timeouts : /\ arg'[t] = (timer_current_ticks + timeout) % TicksAbsoluteMod
                                      /\ StartTimeout(t, timeout)
      BY <1>t, <2>1, <2>2 DEF mutex_lock_timeout, sem_wait_timeout, Fatal, frameVars, Frame
    <3>2. timeout \in TicksRelative
      BY KochabAssumption
    <3>3. QED
      BY <3>1, <3>2, <1>p, ClockStarts DEF OnClock, TypeOK
  <2>3. QED
    BY <1>2, <1>t, <2>1, <2>2 DEF AppStep, mutex_lock, mutex_unlock, mutex_try_lock, sem_wait,
       sem_post, sem_try_wait, sem_max_init, signal_wait_set, signal_poll_set, signal_send,
       sleep, timer_enable_call, timer_oneshot_call, timer_disable, timer_check_overflow, timer_reload_set,
       timer_signal_set, timer_error_set, TimerApiFrame, Fatal, frameVars, Frame
<1>3. QED
  BY <1>1, <1>2

\* timer_oneshot signals the task at once, or starts its timer.
LEMMA OneshotArms ==
  ASSUME TypeOK, NEW t \in Tasks, OwnTimer(t), UNCHANGED timer_current_ticks,
         NEW left \in TicksRelative, timer_oneshot(task_timers(t), left),
         left # 0 => LET tm == timer_start_oneshot(timers[task_timers(t)], left)
                     IN  /\ tm.enabled
                         /\ time_left'[t] # WRAPPED =>
                               /\ time_left'[t] > 0
                               /\ tm.expiry = (timer_current_ticks + time_left'[t]) % TicksTimeoutMod
  PROVE  TASK_TIMER \in PENDING_SIGNALS'[t] \/ ExpiresInTime(t)'
<1> DEFINE k == task_timers(t)
<1>0. k \in TimerIds /\ timers[k] \in TimerRecord
  BY TimersDiffer DEF TypeOK, TimerTypeOK
<1>1. CASE left = 0
  <2> DEFINE tm == [timers[k] EXCEPT !.reload = 0]
  <2>1. tm.task_id = t /\ tm.signal_set = {TASK_TIMER} /\ tm.reload = 0
    BY <1>0 DEF TimerRecord, OwnTimer
  <2>2. timer_enable(k, tm)
    BY <1>1 DEF timer_oneshot
  <2> HIDE DEF tm, k
  <2>3. signal_send_set({t}, [v \in {t} |-> {TASK_TIMER}])
    BY <2>1, <2>2 DEF timer_enable
  <2>4. QED
    BY <2>3, SendEffect
<1>2. CASE left # 0
  <2>1. timers' = [timers EXCEPT ![k] = timer_start_oneshot(timers[k], left)]
    BY <1>2 DEF timer_oneshot
  <2>2. timers'[k] = timer_start_oneshot(timers[k], left)
    BY <1>0, <2>1 DEF TypeOK, TimerTypeOK
  <2>3. QED
    BY <1>2, <2>2 DEF ExpiresInTime
<1>3. QED
  BY <1>1, <1>2

\* The timed loops start the timer for the time that is left.
LEMMA LoopArms ==
  ASSUME TypeOK, NEW t \in Tasks, OwnTimer(t), OnClock(t, arg[t]), arg[t] \in TicksAbsolute,
         arg[t] > timer_current_ticks, timer_oneshot(task_timers(t), Remaining(t)),
         UNCHANGED <<timer_current_ticks, time_left>>
  PROVE  TASK_TIMER \in PENDING_SIGNALS'[t] \/ ExpiresInTime(t)'
<1>1. Remaining(t) \in TicksRelative
  BY RemainingTyped
<1>2. timers[task_timers(t)] \in TimerRecord
  BY TimersDiffer DEF TypeOK, TimerTypeOK
<1>3. TimerTypeOK /\ TimeLeftTypeOK
  BY DEF TypeOK
<1> DEFINE tm == timer_start_oneshot(timers[task_timers(t)], Remaining(t))
<1>4. /\ tm.enabled
      /\ time_left[t] # WRAPPED => /\ time_left[t] > 0
                                   /\ tm.expiry = (timer_current_ticks + time_left[t]) % TicksTimeoutMod
  BY <1>2, <1>3, TimerInTime DEF Remaining
<1>5. QED
  BY <1>1, <1>4, OneshotArms

\* sleep starts the timer for its argument.
LEMMA SleepArms ==
  ASSUME TypeOK, NEW t \in Tasks, OwnTimer(t), sleep(t)
  PROVE  TASK_TIMER \in PENDING_SIGNALS'[t] \/ ExpiresInTime(t)'
<1>1. PICK ticks \in Timeouts : timer_oneshot(task_timers(t), ticks) /\ StartTimeout(t, ticks)
                                  /\ UNCHANGED timer_current_ticks
  BY DEF sleep
<1>2. ticks \in TicksRelative /\ timers[task_timers(t)] \in TimerRecord
  BY KochabAssumption, TimersDiffer DEF TypeOK, TimerTypeOK
<1>3. TicksTimeoutMod \in Nat \ {0} /\ timer_current_ticks \in Int /\ ticks \in Int /\ ticks >= 0
      /\ ticks < TicksTimeoutMod
  BY <1>2, TimerAssumption DEF TypeOK, TimerTypeOK, TicksAbsolute, TicksRelative
<1>4. time_left'[t] = ticks
  BY <1>1 DEF StartTimeout, TypeOK, TimeLeftTypeOK
<1> DEFINE a == timer_current_ticks + ticks
           tm == timer_start_oneshot(timers[task_timers(t)], ticks)
<1>5. a \in Int /\ ticks = (a - timer_current_ticks) % TicksTimeoutMod
  BY <1>3
<1>6. tm.enabled /\ tm.expiry = a % TicksTimeoutMod
  BY <1>2, <1>5, OneshotExpiry DEF TypeOK
<1>7. ticks # 0 => ticks > 0
  BY <1>3
<1>8. QED
  BY <1>1, <1>2, <1>4, <1>6, <1>7, OneshotArms

\* The steps of a task, seen by the task itself.
LEMMA ArmOwn ==
  ASSUME TypeOK, NEW t \in Tasks, ClockOK(t), ArmOK(t), TaskStep(t) \/ AppStep(t)
  PROVE  ArmOK(t)'
<1>1. OwnTimer(t)'
  BY OwnerKept DEF ArmOK
<1>p. phase # "fatal" /\ UNCHANGED timer_current_ticks
  BY TimerSteps
<1>l. /\ Sleeps = {"lock_timeout_block", "sem_timeout_block", "sleep_block",
                   "lock_timeout_wait", "sem_timeout_wait", "sleep_wait"}
      /\ pc \in [Tasks -> Labels] /\ DOMAIN arg = Tasks
  BY DEF Sleeps, TimedWaits, TypeOK, FrameTypeOK
<1>2. ASSUME pc'[t] \in Sleeps
      PROVE  TASK_TIMER \in PENDING_SIGNALS'[t] \/ ExpiresInTime(t)'
  <2>1. CASE TaskStep(t)
    <3>r. ~Return(t)
      BY <1>2, <1>l DEF Return, Frame
    <3>1. CASE BlockTimed(t)
      <4>1. pc[t] \in BlockLabels /\ UNCHANGED <<PENDING_SIGNALS, timers, time_left>>
        BY <3>1 DEF BlockTimed, timerVars
      <4>2. pc[t] \in Sleeps
        BY <1>l, <4>1 DEF BlockLabels
      <4>3. QED
        BY <1>p, <4>1, <4>2 DEF ArmOK, ExpiresInTime
    <3>2. CASE WaitAgain(t)
      BY <1>2, <1>p, <3>2 DEF WaitAgain, frameVars, timerVars, ArmOK, ExpiresInTime
    <3>3. CASE mutex_lock_timeout_loop(t) \/ sem_wait_timeout_loop(t)
      <4>1. /\ arg[t] > timer_current_ticks /\ timer_oneshot(task_timers(t), Remaining(t))
            /\ UNCHANGED time_left /\ pc[t] \in {"lock_timeout", "sem_timeout"}
        BY <3>3, <3>r DEF mutex_lock_timeout_loop, sem_wait_timeout_loop, Running
      <4>2. pc[t] \in TimedLabels /\ arg[t] \in TicksAbsolute
        BY <4>1 DEF TimedLabels, TypeOK, LocalsTypeOK
      <4>3. QED
        BY <1>p, <4>1, <4>2, LoopArms DEF ArmOK, ClockOK
    <3>4. CASE WaitEnd(t)
      BY <1>2, <1>l, <3>r, <3>4 DEF WaitEnd, Frame, AfterWait, Waits, TimerWaits, MutexWaits, SemWaits
    <3>5. QED
      BY <1>2, <1>l, <2>1, <3>r, <3>1, <3>2, <3>3, <3>4 DEF TaskStep, Entry, PreemptDisable, mutex_lock_loop,
         sem_wait_loop, sem_max_init_store, Frame
  <2>2. CASE AppStep(t)
    <3>1. pc[t] = "app"
      BY <2>2 DEF AppStep, mutex_lock, mutex_lock_timeout, mutex_unlock, mutex_try_lock, sem_wait, sem_wait_timeout,
         sem_post, sem_try_wait, sem_max_init, signal_wait_set, signal_poll_set, signal_send, sleep,
         timer_enable_call, timer_oneshot_call, timer_disable, timer_check_overflow, timer_reload_set,
         timer_signal_set, timer_error_set, Calling, RunningEnabled, Running
    <3>2. CASE sleep(t)
      BY <3>2, SleepArms DEF ArmOK
    <3>3. QED
      BY <1>2, <1>l, <2>2, <3>1, <3>2 DEF AppStep, mutex_lock, mutex_lock_timeout, mutex_unlock, mutex_try_lock,
         sem_wait, sem_wait_timeout, sem_post, sem_try_wait, sem_max_init, signal_wait_set, signal_poll_set,
         signal_send, timer_enable_call, timer_oneshot_call, timer_disable, timer_check_overflow, timer_reload_set,
         timer_signal_set, timer_error_set, TimerApiFrame, Fatal, frameVars, Frame
  <2>3. QED
    BY <2>1, <2>2
<1>3. QED
  BY <1>1, <1>2 DEF ArmOK

\* A step of a task keeps the invariant of the task timers.
LEMMA ArmTaskSide ==
  ASSUME TypeOK, ArmInv, NEW t \in Tasks, TaskStep(t) \/ AppStep(t)
  PROVE  ArmInv'
<1> SUFFICES ASSUME NEW u \in Tasks PROVE ClockOK(u)' /\ ArmOK(u)'
  BY DEF ArmInv
<1>1. CASE u = t
  BY <1>1, ClockOwn, ArmOwn DEF ArmInv
<1>2. CASE u # t
  <2>1. ClockOK(u) /\ ArmOK(u) /\ phase # "fatal" /\ UNCHANGED timer_current_ticks
    BY TimerSteps DEF ArmInv
  <2>2. /\ pc'[u] = pc[u] /\ arg'[u] = arg[u] /\ time_left'[u] = time_left[u]
        /\ PENDING_SIGNALS[u] \subseteq PENDING_SIGNALS'[u]
        /\ timers'[task_timers(u)] = timers[task_timers(u)]
    BY <1>2, OthersKept
  <2>3. ClockOK(u)'
    BY <2>1, <2>2 DEF ClockOK, OnClock
  <2>4. ArmOK(u)'
    BY <2>1, <2>2 DEF ArmOK, OwnTimer, ExpiresInTime
  <2>5. QED
    BY <2>3, <2>4
<1>3. QED
  BY <1>1, <1>2

\* A tick signals the tasks whose timers expire, and the timeouts of the
\* other ones are still to come.
LEMMA ArmTick ==
  ASSUME TypeOK, NEW u \in Tasks, OwnTimer(u),
         NEW ticks, ticks = (timer_current_ticks + 1) % TicksAbsoluteMod,
         NEW K, K = Expired(ticks), NEW T, CountTick(ticks, T), timer_current_ticks' = ticks,
         timers' = TimersAfter(K), signal_send_set(TimerTasks(K), TimerSignals(K))
  PROVE  /\ OwnTimer(u)'
         /\ (TASK_TIMER \in PENDING_SIGNALS[u] \/ ExpiresInTime(u))
              => (TASK_TIMER \in PENDING_SIGNALS'[u] \/ ExpiresInTime(u)')
<1> DEFINE k == task_timers(u)
<1>0. k \in TimerIds /\ timers[k] \in TimerRecord /\ K \in SUBSET TimerIds
  BY TimersDiffer DEF TypeOK, TimerTypeOK, Expired
<1>1. timers'[k] = IF k \in K THEN timer_process_one(timers[k], PendingAt(k, K)) ELSE timers[k]
  BY <1>0 DEF TimersAfter
<1>2. OwnTimer(u)'
  BY <1>0, <1>1 DEF OwnTimer, timer_process_one, TimerRecord
<1>t. TimerTasks(K) \in SUBSET Tasks
  BY <1>0, ExpiredTyped DEF TypeOK
<1>3. TASK_TIMER \in PENDING_SIGNALS[u] => TASK_TIMER \in PENDING_SIGNALS'[u]
  BY <1>t, SendEffect DEF KeptOrWoken
<1>4. CASE k \in K
  <2>1. u \in TimerTasks(K)
    BY <1>4 DEF TimerTasks, OwnTimer
  <2>2. k \in {j \in K : timers[j].task_id = u}
    BY <1>4 DEF OwnTimer
  <2>3. TASK_TIMER \in TimerSignals(K)[u]
    BY <2>2 DEF TimerSignals, OwnTimer
  <2>4. TASK_TIMER \in PENDING_SIGNALS'[u]
    BY <1>t, <2>1, <2>3, SendEffect
  <2>5. QED
    BY <1>2, <2>4
<1>5. CASE k \notin K
  <2>1. SUFFICES ASSUME ExpiresInTime(u) PROVE ExpiresInTime(u)'
    BY <1>2, <1>3
  <2>2. timers[k].expiry # current_timeout(ticks)
    BY <1>0, <1>5, <2>1 DEF Expired, ExpiresInTime
  <2>3. TimerTypeOK /\ TimeLeftTypeOK /\ timers'[k] = timers[k]
    BY <1>1, <1>5 DEF TypeOK
  <2>4. QED
    BY <2>1, <2>2, <2>3, TickInTime
<1>6. QED
  BY <1>4, <1>5

\* The tick counter and the true time advance together.
LEMMA ClockCpuSide ==
  ASSUME TypeOK, NEW u \in Tasks, ClockOK(u), SchedStep \/ Interrupt
  PROVE  ClockOK(u)'
<1>1. UNCHANGED <<pc, arg>>
  BY DEF SchedStep, Interrupt, Preempt, interrupt_event_process, timer_tick_process, sched_pick,
     interrupt_event_wait, timer_tick, interrupt_event_raise, HandlerReturns, frameVars
<1>2. CASE UNCHANGED <<timer_current_ticks, time_left>>
  BY <1>1, <1>2 DEF ClockOK, OnClock
<1>3. CASE timer_tick_process
  <2> DEFINE ticks == (timer_current_ticks + 1) % TicksAbsoluteMod
             T == {t \in Tasks : pc[t] \in TimedLabels}
  <2>1. CASE timer_current_ticks' = ticks /\ CountTick(ticks, T)
    <3>1. SUFFICES ASSUME pc[u] \in TimedLabels PROVE OnClock(u, arg[u])'
      BY <1>1 DEF ClockOK
    <3>2. u \in Tasks \cap T /\ OnClock(u, arg[u])
      BY <3>1 DEF ClockOK
    <3>3. arg[u] \in TicksAbsolute
      BY <3>1 DEF TypeOK, LocalsTypeOK, TimedLabels, TimedWaits
    <3> HIDE DEF T
    <3>4. QED
      BY <1>1, <2>1, <3>2, <3>3, ClockTicks DEF TypeOK, OnClock
  <2>2. QED
    BY <1>2, <1>3, <2>1 DEF timer_tick_process, timerVars
<1>4. CASE ~timer_tick_process
  <2>1. UNCHANGED timerVars
    BY <1>4 DEF SchedStep, Interrupt, Preempt, interrupt_event_process, sched_pick, interrupt_event_wait,
       timer_tick, interrupt_event_raise, HandlerReturns
  <2>2. QED
    BY <1>2, <2>1 DEF timerVars
<1>5. QED
  BY <1>3, <1>4

LEMMA ArmCpuSide ==
  ASSUME TypeOK, ArmInv, SchedStep \/ Interrupt
  PROVE  ArmInv'
<1> SUFFICES ASSUME NEW u \in Tasks PROVE ArmOK(u)'
  BY ClockCpuSide DEF ArmInv
<1>1. phase # "fatal" /\ UNCHANGED pc /\ ArmOK(u)
  BY DEF ArmInv, SchedStep, Interrupt, Preempt, interrupt_event_process, timer_tick_process, sched_pick,
     interrupt_event_wait, timer_tick, interrupt_event_raise, HandlerReturns, frameVars
<1>2. CASE timer_tick_process
  <2> DEFINE ticks == (timer_current_ticks + 1) % TicksAbsoluteMod
             K == Expired(ticks)
             T == {t \in Tasks : pc[t] \in TimedLabels}
  <2>1. CASE UNCHANGED <<timers, PENDING_SIGNALS>> /\ phase' = "fatal"
    BY <1>1, <2>1 DEF ArmOK, OwnTimer
  <2>2. CASE UNCHANGED timerVars /\ UNCHANGED PENDING_SIGNALS
    BY <1>1, <2>2 DEF timerVars, ArmOK, OwnTimer, ExpiresInTime
  <2>3. CASE timer_current_ticks' = ticks /\ timers' = TimersAfter(K) /\ CountTick(ticks, T)
             /\ signal_send_set(TimerTasks(K), TimerSignals(K))
    BY <1>1, <2>3, ArmTick DEF ArmOK
  <2>4. QED
    BY <1>2, <2>1, <2>2, <2>3 DEF timer_tick_process, timerVars
<1>3. CASE ~timer_tick_process
  <2>1. UNCHANGED timerVars
    BY <1>3 DEF SchedStep, Interrupt, Preempt, interrupt_event_process, sched_pick, interrupt_event_wait,
       timer_tick, interrupt_event_raise, HandlerReturns
  <2>2. PENDING_SIGNALS[u] \subseteq PENDING_SIGNALS'[u]
    <3>1. EventTasks(EventTask, interrupt_event) \in SUBSET Tasks
      BY EventsTyped DEF TypeOK, EventTypeOK
    <3>2. CASE interrupt_event_process
      BY <3>1, <3>2, SendEffect DEF interrupt_event_process, KeptOrWoken
    <3>3. QED
      BY <1>3, <3>2 DEF SchedStep, Interrupt, Preempt, sched_pick, interrupt_event_wait, timer_tick,
         interrupt_event_raise, HandlerReturns
  <2>3. QED
    BY <1>1, <2>1, <2>2 DEF timerVars, ArmOK, OwnTimer, ExpiresInTime
<1>4. QED
  BY <1>2, <1>3

LEMMA ArmNext == TypeOK /\ ArmInv /\ [Next]_vars => ArmInv'
<1> SUFFICES ASSUME TypeOK, ArmInv, [Next]_vars PROVE ArmInv'
  OBVIOUS
<1>1. CASE UNCHANGED vars
  BY <1>1 DEF vars, timerVars, frameVars, cpuVars, ArmInv, ClockOK, OnClock, ArmOK, OwnTimer, ExpiresInTime
<1>2. CASE Next
  BY <1>1, <1>2, ArmTaskSide, ArmCpuSide DEF Next, Stopped
<1>3. QED
  BY <1>1, <1>2

LEMMA ArmInit == Init => ArmInv
<1> SUFFICES ASSUME Init, NEW u \in Tasks PROVE ClockOK(u) /\ ArmOK(u)
  BY DEF ArmInv
<1>1. pc[u] = "entry" /\ timers[task_timers(u)] = TaskTimer(task_timers(u) - NumUserTimers)
  BY TimersDiffer DEF Init
<1>2. task_timers(u) - NumUserTimers = u
  BY NAssumption, TimerAssumption DEF task_timers, Tasks
<1>3. QED
  BY <1>1, <1>2 DEF ClockOK, TimedLabels, ArmOK, OwnTimer, TaskTimer, Sleeps, TimedWaits

\* No task in a call with a timeout sleeps without its timer, which expires
\* exactly when the time of the call is up, counted tick by tick: not before,
\* and not later, however often the task was woken, however long it was
\* preempted before it slept, and for any widths of the counters.  The one
\* exception is a call still under way when the tick counter wraps after its
\* timeout, which TLC shows to sleep on.
THEOREM TimeoutsCorrect == Spec => []TimedWaitsArmed
<1>1. Init => ArmInv
  BY ArmInit
<1>2. TypeOK /\ ArmInv /\ [Next]_vars => ArmInv'
  BY ArmNext
<1>3. WaitInv /\ ArmInv => TimedWaitsArmed
  <2>1. TimedWaits \cup {"sleep_wait"} \subseteq TimerWaits \cap Sleeps
    BY DEF TimedWaits, TimerWaits, MutexWaits, SemWaits, Sleeps
  <2>2. QED
    BY <2>1 DEF WaitInv, WaitOK, ArmInv, ArmOK, TimedWaitsArmed, Asleep, signal_peek
<1>4. QED
  BY <1>1, <1>2, <1>3, WaitsCorrect, PTL DEF Spec
=============================================================================

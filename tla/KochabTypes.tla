----------------------------- MODULE KochabTypes ----------------------------
(***************************************************************************)
(* Type correctness of Kochab, for any configuration: any number of tasks, *)
(* timers, mutexes, semaphores and events, and any width of the tick       *)
(* counters and of the semaphore values.                                   *)
(***************************************************************************)
EXTENDS Kochab, SchedPrioInheritLemmas, TimerLemmas

-----------------------------------------------------------------------------
(* The operators of the components. *)

\* signal_send_set writes well-formed signals and scheduler entries.
LEMMA SendTyped ==
  ASSUME SchedTypeOK, SignalTypeOK, preempt_pending \in BOOLEAN,
         NEW T \in SUBSET Tasks, NEW sigs, \A t \in T : sigs[t] \subseteq Signals,
         signal_send_set(T, sigs)
  PROVE  SchedTypeOK' /\ SignalTypeOK' /\ preempt_pending' \in BOOLEAN
  BY DEF signal_send_set, signal_set_pending, unblock, sched_set_runnable, SchedTypeOK,
         SignalTypeOK, TaskIdOption

\* timer_enable, at once or later, writes well-formed state.
LEMMA EnableTyped ==
  ASSUME SchedTypeOK, SignalTypeOK, TimerTypeOK, preempt_pending \in BOOLEAN,
         NEW k \in TimerIds, NEW tm \in TimerRecord, timer_enable(k, tm)
  PROVE  /\ SchedTypeOK' /\ SignalTypeOK' /\ preempt_pending' \in BOOLEAN
         /\ timers' \in [TimerIds -> TimerRecord]
<1>0. 0 \in TicksRelative
  BY TimerAssumption DEF TicksRelative
<1>1. CASE tm.reload = 0
  <2>1. tm.task_id \in Tasks /\ tm.signal_set \subseteq Signals
    BY DEF TimerRecord
  <2>2. timer_process_one(tm, PENDING_SIGNALS[tm.task_id]) \in TimerRecord
    BY <1>0, TimerOpsTyped
  <2>3. signal_send_set({tm.task_id}, [t \in {tm.task_id} |-> tm.signal_set])
    BY <1>1 DEF timer_enable
  <2>4. SchedTypeOK' /\ SignalTypeOK' /\ preempt_pending' \in BOOLEAN
    BY <2>1, <2>3, SendTyped
  <2>5. timers' \in [TimerIds -> TimerRecord]
    BY <1>1, <2>2 DEF timer_enable, TimerTypeOK
  <2>6. QED
    BY <2>4, <2>5
<1>2. CASE tm.reload # 0
  <2>1. timer_start(tm) \in TimerRecord
    BY <1>0, TimerOpsTyped
  <2>2. QED
    BY <1>2, <2>1 DEF timer_enable, TimerTypeOK, SchedTypeOK, SignalTypeOK
<1>3. QED
  BY <1>1, <1>2

\* timer_oneshot, at once or later, writes well-formed state.
LEMMA OneshotTyped ==
  ASSUME SchedTypeOK, SignalTypeOK, TimerTypeOK, preempt_pending \in BOOLEAN,
         NEW k \in TimerIds, NEW timeout \in TicksRelative, timer_oneshot(k, timeout)
  PROVE  /\ SchedTypeOK' /\ SignalTypeOK' /\ preempt_pending' \in BOOLEAN
         /\ timers' \in [TimerIds -> TimerRecord]
<1>0. 0 \in TicksRelative /\ timers[k] \in TimerRecord
  BY TimerAssumption DEF TicksRelative, TimerTypeOK
<1>1. CASE timeout = 0
  <2>1. [timers[k] EXCEPT !.reload = 0] \in TimerRecord
    BY <1>0, TimerOpsTyped
  <2>2. timer_enable(k, [timers[k] EXCEPT !.reload = 0])
    BY <1>1 DEF timer_oneshot
  <2>3. QED
    BY <2>1, <2>2, EnableTyped
<1>2. CASE timeout # 0
  <2>1. timer_start_oneshot(timers[k], timeout) \in TimerRecord
    BY <1>0, TimerOpsTyped
  <2>2. QED
    BY <1>2, <2>1 DEF timer_oneshot, TimerTypeOK, SchedTypeOK, SignalTypeOK
<1>3. QED
  BY <1>1, <1>2

\* The recipients and the signals of interrupt events.
LEMMA EventsTyped ==
  ASSUME NEW E \in SUBSET Events
  PROVE  /\ EventTasks(EventTask, E) \in SUBSET Tasks
         /\ \A t \in EventTasks(EventTask, E) : EventSends(EventTask, E)[t] \subseteq Signals
<1>1. EventTasks(EventTask, E) \in SUBSET Tasks
  BY EventAssumption DEF EventTasks
<1>2. \A t \in Tasks : EventSends(EventTask, E)[t] \subseteq Signals
  BY EventAssumption DEF EventSends, Signals
<1>3. QED
  BY <1>1, <1>2

\* A new stack frame whose locals have the types of its call.
LEMMA FrameTyped ==
  ASSUME FrameTypeOK, LocalsTypeOK, NEW t \in Tasks, NEW label \in Labels,
         NEW o \in Mutexes \cup Sems \cup {NoObject}, NEW a,
         label \in MutexLabels => o \in Mutexes,
         label \in SemLabels => o \in Sems,
         a \in IF label = "max_init_call" THEN SemValue ELSE TicksAbsolute,
         Frame(t, label, o, a)
  PROVE  /\ pc' \in [Tasks -> Labels]
         /\ obj' \in [Tasks -> Mutexes \cup Sems \cup {NoObject}]
         /\ arg' \in [Tasks -> TicksAbsolute \cup SemValue]
         /\ LocalsTypeOK'
<1>1. a \in TicksAbsolute \cup SemValue
  OBVIOUS
<1>2. /\ pc' = [pc EXCEPT ![t] = label] /\ obj' = [obj EXCEPT ![t] = o] /\ arg' = [arg EXCEPT ![t] = a]
      /\ pc \in [Tasks -> Labels] /\ obj \in [Tasks -> Mutexes \cup Sems \cup {NoObject}]
      /\ arg \in [Tasks -> TicksAbsolute \cup SemValue]
  BY DEF FrameTypeOK, Frame
<1>3. ASSUME NEW u \in Tasks
      PROVE  /\ pc'[u] \in MutexLabels => obj'[u] \in Mutexes
             /\ pc'[u] \in SemLabels => obj'[u] \in Sems
             /\ arg'[u] \in IF pc'[u] = "max_init_call" THEN SemValue ELSE TicksAbsolute
  <2>1. CASE u = t
    BY <1>2, <2>1
  <2>2. CASE u # t
    BY <1>2, <2>2 DEF LocalsTypeOK
  <2>3. QED
    BY <2>1, <2>2
<1>4. QED
  BY <1>1, <1>2, <1>3 DEF LocalsTypeOK

\* A return to the application leaves no locals behind.
LEMMA ReturnTyped ==
  ASSUME FrameTypeOK, LocalsTypeOK, NEW t \in Tasks, Return(t)
  PROVE  /\ pc' \in [Tasks -> Labels]
         /\ obj' \in [Tasks -> Mutexes \cup Sems \cup {NoObject}]
         /\ arg' \in [Tasks -> TicksAbsolute \cup SemValue]
         /\ LocalsTypeOK'
<1>1. "app" \in Labels /\ "app" \notin MutexLabels /\ "app" \notin SemLabels
  BY DEF Labels, Preemptible, MutexLabels, SemLabels, MutexWaits, SemWaits
<1>2. 0 \in TicksAbsolute
  BY TimerAssumption DEF TicksAbsolute
<1>3. QED
  BY <1>1, <1>2, FrameTyped DEF Return

-----------------------------------------------------------------------------
(* The steps. *)

\* The initial configuration is well-formed.
LEMMA TypeInit == Init => TypeOK
<1> SUFFICES ASSUME Init PROVE TypeOK
  OBVIOUS
<1>1. 0 \in Tasks /\ 0 \in TicksAbsolute /\ 0 \in TicksRelative /\ 0 \in SemValue
  BY NAssumption, TimerAssumption, SemAssumption DEF Tasks, TicksAbsolute, TicksRelative, SemValue
<1>2. SchedTypeOK /\ SignalTypeOK
  BY DEF Init, SchedTypeOK, SignalTypeOK, TaskIdOption
<1>3. TimerTypeOK
  <2>1. ASSUME NEW k \in TimerIds, k \notin UserTimers
        PROVE  TaskTimer(k - NumUserTimers) \in TimerRecord
    <3>1. k - NumUserTimers \in Tasks
      BY <2>1, TimerAssumption, NAssumption DEF TimerIds, UserTimers, Tasks
    <3>2. QED
      BY <3>1, <1>1 DEF TaskTimer, TimerRecord, Signals
  <2>2. \A k \in UserTimers : UserTimerInit[k] \in TimerRecord
    BY KochabAssumption
  <2>3. timers \in [TimerIds -> TimerRecord]
    BY <2>1, <2>2 DEF Init
  <2>4. QED
    BY <2>3, <1>1 DEF Init, TimerTypeOK
<1>4. TimeLeftTypeOK /\ MutexTypeOK /\ SemTypeOK /\ EventTypeOK
  BY <1>1 DEF Init, TimeLeftTypeOK, MutexInit, MutexTypeOK, SemInit, SemTypeOK, EventTypeOK, TaskIdOption
<1>5. CpuTypeOK
  BY <1>1 DEF Init, CpuTypeOK, Phases
<1>6. FrameTypeOK /\ LocalsTypeOK
  BY <1>1 DEF Init, FrameTypeOK, LocalsTypeOK, Labels, MutexLabels, SemLabels, MutexWaits, SemWaits,
              TaskIdOption
<1>7. QED
  BY <1>2, <1>3, <1>4, <1>5, <1>6 DEF TypeOK

\* A fatal_error leaves everything but the phase alone.
LEMMA FatalTyped == TypeOK /\ Fatal => TypeOK'
  BY DEF TypeOK, Fatal, fatal_error, interruptVars, timerVars, mutexVars, semVars, frameVars, waitVars,
         SchedTypeOK, SignalTypeOK, TimerTypeOK, TimeLeftTypeOK, MutexTypeOK, SemTypeOK, EventTypeOK,
         CpuTypeOK, FrameTypeOK, LocalsTypeOK, Phases

\* The type invariant, given by the part that a step of a task changes.
TaskPart ==
    /\ SchedTypeOK /\ SignalTypeOK /\ MutexTypeOK /\ SemTypeOK /\ LocalsTypeOK /\ FrameTypeOK
    /\ timers \in [TimerIds -> TimerRecord]
    /\ phase \in Phases
    /\ preempt_pending \in BOOLEAN

\* Task steps do not touch the tick counters and the events of the handlers.
LEMMA TaskPartTyped ==
  ASSUME TypeOK, TaskPart', TimeLeftTypeOK',
         UNCHANGED <<current_task, system_is_idle, timer_current_ticks, interruptVars>>
  PROVE  TypeOK'
  BY DEF TypeOK, TaskPart, interruptVars, TimerTypeOK, EventTypeOK, CpuTypeOK

\* signal_wait_set_blocked_on writes well-formed locals and scheduler entries.
LEMMA WaitTyped ==
  ASSUME TypeOK, NEW t \in Tasks, NEW requested \in SUBSET Signals, NEW b \in TaskIdOption,
         signal_wait_set_blocked_on(t, requested, b)
  PROVE  /\ SchedTypeOK'
         /\ requested_signals' \in [Tasks -> SUBSET Signals]
         /\ blocker' \in [Tasks -> TaskIdOption]
         /\ phase' \in Phases
         /\ UNCHANGED <<current_task, system_is_idle, preempt_pending>>
  BY DEF TypeOK, signal_wait_set_blocked_on, yield, sched_set_blocked_on, SchedTypeOK, FrameTypeOK, Phases

\* internal_sem_try_wait does not underflow, and value++ of sem_post wraps.
LEMMA SemTakeTyped ==
  ASSUME SemTypeOK, NEW s \in Sems
  PROVE  /\ sem_take(s) => SemTypeOK'
         /\ sem_add(s) => SemTypeOK'
<1>1. SemValueMod \in Nat \ {0} /\ sem_value[s] \in SemValue /\ sem_value[s] \in Nat
  BY SemAssumption DEF SemTypeOK, SemValue
<1>2. sem_value[s] # 0 => sem_value[s] - 1 \in SemValue
  BY <1>1 DEF SemValue
<1>3. (sem_value[s] + 1) % SemValueMod \in SemValue
  <2>1. sem_value[s] + 1 \in Int /\ SemValueMod \in Nat \ {0}
    BY <1>1
  <2>2. QED
    BY <2>1, ModRange DEF SemValue
<1>4. sem_take(s) => SemTypeOK'
  BY <1>2 DEF sem_take, SemTypeOK
<1>5. sem_add(s) => SemTypeOK'
  BY <1>3 DEF sem_add, SemTypeOK
<1>6. QED
  BY <1>4, <1>5

\* What is left of a timeout is changed only where a call starts or ends.
LEMMA TimeLeftSteps ==
  ASSUME NEW t \in Tasks, TaskStep(t) \/ AppStep(t)
  PROVE  UNCHANGED time_left \/ EndTimeout(t) \/ \E timeout \in Timeouts : StartTimeout(t, timeout)
<1>1. CASE TaskStep(t)
  BY <1>1 DEF TaskStep, Entry, BlockTimed, WaitAgain, WaitEnd, PreemptDisable, mutex_lock_loop,
     mutex_lock_timeout_loop, sem_wait_loop, sem_wait_timeout_loop, sem_max_init_store, timerVars
<1>2. CASE AppStep(t)
  BY <1>2 DEF AppStep, Fatal, mutex_lock, mutex_lock_timeout, mutex_unlock, mutex_try_lock, sem_wait,
     sem_wait_timeout, sem_post, sem_try_wait, sem_max_init, signal_wait_set, signal_poll_set,
     signal_send, sleep, timer_enable_call, timer_oneshot_call, timer_disable, timer_check_overflow,
     timer_reload_set, timer_signal_set, timer_error_set, TimerApiFrame, timerVars
<1>3. QED
  BY <1>1, <1>2

LEMMA TimeLeftTask ==
  ASSUME TypeOK, NEW t \in Tasks, TaskStep(t) \/ AppStep(t)
  PROVE  TimeLeftTypeOK'
<1>1. Timeouts \subseteq TicksRelative
  BY KochabAssumption
<1>2. QED
  BY <1>1, TimeLeftSteps, TimeLeftTyped DEF TypeOK

\* Waiting, resuming and the loops of the mutex and semaphore calls keep the types.
LEMMA TaskStepTyped ==
  ASSUME TypeOK, NEW t \in Tasks, TaskStep(t)
  PROVE  TypeOK'
<1>l. TimeLeftTypeOK'
  BY TimeLeftTask
<1> USE <1>l DEF TypeOK
<1>z. 0 \in TicksAbsolute /\ {TASK_TIMER} \subseteq Signals /\ task_timers(t) \in TimerIds
  BY TimerAssumption, NAssumption DEF TicksAbsolute, Signals, task_timers, TimerIds, Tasks
<1>o. /\ obj[t] \in Mutexes \cup Sems \cup {NoObject}
      /\ pc[t] \in MutexLabels => obj[t] \in Mutexes /\ holder[obj[t]] \in TaskIdOption
      /\ pc[t] \in SemLabels => obj[t] \in Sems
      /\ pc[t] # "max_init_call" => arg[t] \in TicksAbsolute
      /\ pc[t] = "max_init_call" => arg[t] \in SemValue
  BY DEF FrameTypeOK, LocalsTypeOK, MutexTypeOK
<1>n. TASK_ID_NONE \in TaskIdOption
  BY DEF TaskIdOption
<1>1. CASE Entry(t)
  <2>1. pc' \in [Tasks -> Labels] /\ obj' \in [Tasks -> Mutexes \cup Sems \cup {NoObject}]
        /\ arg' \in [Tasks -> TicksAbsolute \cup SemValue] /\ LocalsTypeOK'
    BY <1>1, ReturnTyped DEF Entry
  <2>2. TaskPart'
    BY <1>1, <2>1 DEF Entry, TaskPart, SchedTypeOK, SignalTypeOK, MutexTypeOK, SemTypeOK, FrameTypeOK,
       TimerTypeOK, CpuTypeOK, timerVars, mutexVars, semVars, waitVars, cpuVars
  <2>3. QED
    BY <1>1, <2>2, TaskPartTyped DEF Entry, cpuVars, timerVars
<1>2. CASE BlockTimed(t)
  <2> DEFINE b == IF pc[t] = "lock_timeout_block" THEN holder[obj[t]] ELSE TASK_ID_NONE
  <2>1. b \in TaskIdOption
    BY <1>o, <1>n DEF MutexLabels
  <2>2. signal_wait_set_blocked_on(t, {TASK_TIMER}, b) /\ Frame(t, WaitOf[pc[t]], obj[t], arg[t])
    BY <1>2 DEF BlockTimed
  <2> HIDE DEF b
  <2>3. /\ SchedTypeOK'
        /\ requested_signals' \in [Tasks -> SUBSET Signals]
        /\ blocker' \in [Tasks -> TaskIdOption]
        /\ phase' \in Phases
        /\ UNCHANGED <<current_task, system_is_idle, preempt_pending>>
    BY <2>1, <2>2, <1>z, WaitTyped
  <2>4. pc[t] \in BlockLabels /\ WaitOf[pc[t]] \in Labels /\ WaitOf[pc[t]] # "max_init_call"
        /\ (WaitOf[pc[t]] \in MutexLabels => pc[t] \in MutexLabels)
        /\ (WaitOf[pc[t]] \in SemLabels => pc[t] \in SemLabels)
    BY <1>2 DEF BlockTimed, BlockLabels, WaitOf, Labels, Waits, TimerWaits, MutexWaits, SemWaits,
       MutexLabels, SemLabels
  <2>5. arg[t] \in TicksAbsolute
    BY <2>4, <1>o DEF BlockLabels
  <2>6. pc' \in [Tasks -> Labels] /\ obj' \in [Tasks -> Mutexes \cup Sems \cup {NoObject}]
        /\ arg' \in [Tasks -> TicksAbsolute \cup SemValue] /\ LocalsTypeOK'
    BY <2>2, <2>4, <2>5, <1>o, FrameTyped
  <2>7. TaskPart'
    BY <1>2, <2>3, <2>6 DEF BlockTimed, TaskPart, SignalTypeOK, MutexTypeOK, SemTypeOK, FrameTypeOK,
       TimerTypeOK, CpuTypeOK, timerVars, mutexVars, semVars
  <2>8. QED
    BY <1>2, <2>3, <2>7, TaskPartTyped DEF BlockTimed, timerVars
<1>3. CASE WaitAgain(t)
  <2>1. SchedTypeOK'
    BY <1>3 DEF WaitAgain, sched_set_blocked_on, SchedTypeOK, FrameTypeOK
  <2>2. TaskPart'
    BY <1>3, <2>1 DEF WaitAgain, yield, TaskPart, SignalTypeOK, MutexTypeOK, SemTypeOK, FrameTypeOK,
       LocalsTypeOK, TimerTypeOK, CpuTypeOK, timerVars, mutexVars, semVars, frameVars, waitVars, Phases
  <2>3. QED
    BY <1>3, <2>2, TaskPartTyped DEF WaitAgain, yield, timerVars
<1>4. CASE WaitEnd(t)
  <2>1. pc[t] \in Waits /\ AfterWait[pc[t]] \in Labels /\ AfterWait[pc[t]] # "max_init_call"
        /\ (AfterWait[pc[t]] \in MutexLabels => pc[t] \in MutexLabels)
        /\ (AfterWait[pc[t]] \in SemLabels => pc[t] \in SemLabels)
    BY <1>4 DEF WaitEnd, AfterWait, Labels, Waits, TimerWaits, MutexWaits, SemWaits, Preemptible,
       MutexLabels, SemLabels
  <2>2. arg[t] \in TicksAbsolute
    BY <2>1, <1>o DEF Waits, TimerWaits, MutexWaits, SemWaits
  <2>3. Return(t) \/ Frame(t, AfterWait[pc[t]], obj[t], arg[t])
    BY <1>4 DEF WaitEnd
  <2>4. pc' \in [Tasks -> Labels] /\ obj' \in [Tasks -> Mutexes \cup Sems \cup {NoObject}]
        /\ arg' \in [Tasks -> TicksAbsolute \cup SemValue] /\ LocalsTypeOK'
    BY <2>1, <2>2, <2>3, <1>o, FrameTyped, ReturnTyped
  <2>5. timers' \in [TimerIds -> TimerRecord]
    <3>1. [timers[task_timers(t)] EXCEPT !.enabled = FALSE] \in TimerRecord
      BY <1>z DEF TimerTypeOK, TimerRecord
    <3>2. timers' = timers \/ timers' = [timers EXCEPT ![task_timers(t)] = [@ EXCEPT !.enabled = FALSE]]
      BY <1>4 DEF WaitEnd
    <3>3. QED
      BY <3>1, <3>2, <1>z DEF TimerTypeOK
  <2>6. SignalTypeOK'
    BY <1>4 DEF WaitEnd, signal_recv, SignalTypeOK
  <2>7. requested_signals' \in [Tasks -> SUBSET Signals] /\ blocker' \in [Tasks -> TaskIdOption]
    BY <1>4, <1>n DEF WaitEnd, FrameTypeOK
  <2>8. TaskPart'
    BY <1>4, <2>4, <2>5, <2>6, <2>7 DEF WaitEnd, TaskPart, SchedTypeOK, MutexTypeOK, SemTypeOK,
       FrameTypeOK, CpuTypeOK, mutexVars, semVars, cpuVars
  <2>9. QED
    BY <1>4, <2>8, TaskPartTyped DEF WaitEnd, cpuVars
<1>5. CASE PreemptDisable(t)
  <2>1. PICK label \in {"lock_timeout", "sem_timeout"} :
            /\ pc' = [pc EXCEPT ![t] = label]
            /\ label = "lock_timeout" => pc[t] \in MutexLabels
            /\ label = "sem_timeout" => pc[t] \in SemLabels
            /\ pc[t] # "max_init_call"
    BY <1>5 DEF PreemptDisable, RunningEnabled, Running, MutexLabels, SemLabels
  <2>2. Frame(t, label, obj[t], arg[t])
    BY <1>5, <2>1 DEF PreemptDisable, Frame, FrameTypeOK
  <2>3. /\ label \in Labels /\ label # "max_init_call"
        /\ label \in MutexLabels => label = "lock_timeout"
        /\ label \in SemLabels => label = "sem_timeout"
    BY DEF Labels, MutexLabels, SemLabels, MutexWaits, SemWaits
  <2>4. pc' \in [Tasks -> Labels] /\ obj' \in [Tasks -> Mutexes \cup Sems \cup {NoObject}]
        /\ arg' \in [Tasks -> TicksAbsolute \cup SemValue] /\ LocalsTypeOK'
    BY <2>1, <2>2, <2>3, <1>o, FrameTyped
  <2>5. TaskPart'
    BY <1>5, <2>4 DEF PreemptDisable, TaskPart, SchedTypeOK, SignalTypeOK, MutexTypeOK, SemTypeOK,
       FrameTypeOK, TimerTypeOK, CpuTypeOK, timerVars, mutexVars, semVars, waitVars, cpuVars
  <2>6. QED
    BY <1>5, <2>5, TaskPartTyped DEF PreemptDisable, cpuVars, timerVars
<1>6. CASE mutex_lock_loop(t)
  <2>1. obj[t] \in Mutexes /\ holder[obj[t]] \in TaskIdOption
    BY <1>6, <1>o DEF mutex_lock_loop, Running, MutexLabels
  <2>2. CASE mutex_take(obj[t], t) /\ Return(t) /\ UNCHANGED <<blocked_on, preempt_pending, waitVars, cpuVars>>
    <3>1. pc' \in [Tasks -> Labels] /\ obj' \in [Tasks -> Mutexes \cup Sems \cup {NoObject}]
          /\ arg' \in [Tasks -> TicksAbsolute \cup SemValue] /\ LocalsTypeOK'
      BY <2>2, ReturnTyped
    <3>2. MutexTypeOK'
      BY <2>1, <2>2 DEF mutex_take, MutexTypeOK, TaskIdOption
    <3>3. TaskPart'
      BY <1>6, <2>2, <3>1, <3>2 DEF mutex_lock_loop, TaskPart, SchedTypeOK, SignalTypeOK, SemTypeOK,
         FrameTypeOK, TimerTypeOK, CpuTypeOK, timerVars, semVars, waitVars, cpuVars
    <3>4. QED
      BY <1>6, <2>2, <3>3, TaskPartTyped DEF mutex_lock_loop, cpuVars, timerVars
  <2>3. CASE /\ mutex_wait(obj[t], t) /\ Frame(t, "lock_wait", obj[t], 0)
             /\ signal_wait_set_blocked_on(t, {TASK_TIMER}, holder[obj[t]])
    <3>1. /\ "lock_wait" \in Labels /\ "lock_wait" \notin SemLabels
      BY DEF Labels, Waits, TimerWaits, MutexWaits, SemLabels, SemWaits
    <3>2. pc' \in [Tasks -> Labels] /\ obj' \in [Tasks -> Mutexes \cup Sems \cup {NoObject}]
          /\ arg' \in [Tasks -> TicksAbsolute \cup SemValue] /\ LocalsTypeOK'
      BY <2>1, <2>3, <3>1, <1>z, FrameTyped
    <3>3. MutexTypeOK'
      BY <2>1, <2>3 DEF mutex_wait, MutexTypeOK
    <3>4. /\ SchedTypeOK'
          /\ requested_signals' \in [Tasks -> SUBSET Signals]
          /\ blocker' \in [Tasks -> TaskIdOption]
          /\ phase' \in Phases
          /\ UNCHANGED <<current_task, system_is_idle, preempt_pending>>
      BY <2>1, <2>3, <1>z, WaitTyped
    <3>5. TaskPart'
      BY <1>6, <3>2, <3>3, <3>4 DEF mutex_lock_loop, TaskPart, SignalTypeOK, SemTypeOK,
         FrameTypeOK, TimerTypeOK, CpuTypeOK, timerVars, semVars
    <3>6. QED
      BY <1>6, <3>4, <3>5, TaskPartTyped DEF mutex_lock_loop, timerVars
  <2>4. QED
    BY <1>6, <2>2, <2>3 DEF mutex_lock_loop
<1>r. Remaining(t) \in TicksRelative \/ pc[t] = "max_init_call"
  <2>1. TicksTimeoutMod \in Nat \ {0} /\ timer_current_ticks \in Int /\ \A a \in TicksAbsolute : a \in Int
    BY TimerAssumption DEF TimerTypeOK, TicksAbsolute
  <2>2. \A d \in Int : d % TicksTimeoutMod \in TicksRelative
    BY <2>1, ModRange DEF TicksRelative
  <2>3. pc[t] # "max_init_call" => arg[t] - timer_current_ticks \in Int
    BY <2>1, <1>o
  <2>4. QED
    BY <2>2, <2>3 DEF Remaining
<1>7. CASE mutex_lock_timeout_loop(t)
  <2>1. obj[t] \in Mutexes /\ arg[t] \in TicksAbsolute /\ Remaining(t) \in TicksRelative
    BY <1>7, <1>o, <1>r DEF mutex_lock_timeout_loop, Running, MutexLabels
  <2>2. "lock_timeout_block" \in Labels /\ "lock_timeout_block" \notin SemLabels
    BY DEF Labels, BlockLabels, SemLabels, SemWaits
  <2>3. Return(t) \/ Frame(t, "lock_timeout_block", obj[t], arg[t])
    BY <1>7 DEF mutex_lock_timeout_loop
  <2>4. pc' \in [Tasks -> Labels] /\ obj' \in [Tasks -> Mutexes \cup Sems \cup {NoObject}]
        /\ arg' \in [Tasks -> TicksAbsolute \cup SemValue] /\ LocalsTypeOK'
    BY <2>1, <2>2, <2>3, ReturnTyped, FrameTyped
  <2>5. MutexTypeOK'
    BY <1>7, <2>1 DEF mutex_lock_timeout_loop, mutex_take, mutex_wait, MutexTypeOK, TaskIdOption, mutexVars
  <2>6. /\ SchedTypeOK' /\ SignalTypeOK' /\ preempt_pending' \in BOOLEAN
        /\ timers' \in [TimerIds -> TimerRecord]
    <3>1. CASE timer_oneshot(task_timers(t), Remaining(t))
      BY <3>1, <2>1, <1>z, OneshotTyped DEF CpuTypeOK
    <3>2. CASE UNCHANGED <<blocked_on, PENDING_SIGNALS, preempt_pending, timers>>
      BY <3>2 DEF SchedTypeOK, SignalTypeOK, CpuTypeOK, TimerTypeOK
    <3>3. QED
      BY <1>7, <3>1, <3>2 DEF mutex_lock_timeout_loop
  <2>7. TaskPart'
    BY <1>7, <2>4, <2>5, <2>6 DEF mutex_lock_timeout_loop, TaskPart, SemTypeOK,
       FrameTypeOK, CpuTypeOK, semVars, waitVars, cpuVars
  <2>8. QED
    BY <1>7, <2>7, TaskPartTyped DEF mutex_lock_timeout_loop, cpuVars
<1>8. CASE sem_wait_loop(t)
  <2>1. obj[t] \in Sems
    BY <1>8, <1>o DEF sem_wait_loop, Running, SemLabels
  <2>2. CASE sem_take(obj[t]) /\ Return(t) /\ UNCHANGED <<blocked_on, preempt_pending, waitVars, cpuVars>>
    <3>1. pc' \in [Tasks -> Labels] /\ obj' \in [Tasks -> Mutexes \cup Sems \cup {NoObject}]
          /\ arg' \in [Tasks -> TicksAbsolute \cup SemValue] /\ LocalsTypeOK'
      BY <2>2, ReturnTyped
    <3>2. SemTypeOK'
      BY <2>1, <2>2, SemTakeTyped
    <3>3. TaskPart'
      BY <1>8, <2>2, <3>1, <3>2 DEF sem_wait_loop, TaskPart, SchedTypeOK, SignalTypeOK, MutexTypeOK,
         FrameTypeOK, TimerTypeOK, CpuTypeOK, timerVars, mutexVars, waitVars, cpuVars
    <3>4. QED
      BY <1>8, <2>2, <3>3, TaskPartTyped DEF sem_wait_loop, cpuVars, timerVars
  <2>3. CASE /\ sem_register(obj[t], t) /\ Frame(t, "sem_wait", obj[t], 0)
             /\ signal_wait_set_blocked_on(t, {TASK_TIMER}, TASK_ID_NONE)
    <3>1. /\ "sem_wait" \in Labels /\ "sem_wait" \notin MutexLabels
      BY DEF Labels, Waits, TimerWaits, SemWaits, MutexLabels, MutexWaits
    <3>2. pc' \in [Tasks -> Labels] /\ obj' \in [Tasks -> Mutexes \cup Sems \cup {NoObject}]
          /\ arg' \in [Tasks -> TicksAbsolute \cup SemValue] /\ LocalsTypeOK'
      BY <2>1, <2>3, <3>1, <1>z, FrameTyped
    <3>3. SemTypeOK'
      BY <2>1, <2>3 DEF sem_register, SemTypeOK
    <3>4. /\ SchedTypeOK'
          /\ requested_signals' \in [Tasks -> SUBSET Signals]
          /\ blocker' \in [Tasks -> TaskIdOption]
          /\ phase' \in Phases
          /\ UNCHANGED <<current_task, system_is_idle, preempt_pending>>
      BY <2>3, <1>z, <1>n, WaitTyped
    <3>5. TaskPart'
      BY <1>8, <3>2, <3>3, <3>4 DEF sem_wait_loop, TaskPart, SignalTypeOK, MutexTypeOK,
         FrameTypeOK, TimerTypeOK, CpuTypeOK, timerVars, mutexVars
    <3>6. QED
      BY <1>8, <3>4, <3>5, TaskPartTyped DEF sem_wait_loop, timerVars
  <2>4. QED
    BY <1>8, <2>2, <2>3 DEF sem_wait_loop
<1>9. CASE sem_wait_timeout_loop(t)
  <2>1. obj[t] \in Sems /\ arg[t] \in TicksAbsolute /\ Remaining(t) \in TicksRelative
    BY <1>9, <1>o, <1>r DEF sem_wait_timeout_loop, Running, SemLabels
  <2>2. "sem_timeout_block" \in Labels /\ "sem_timeout_block" \notin MutexLabels
    BY DEF Labels, BlockLabels, MutexLabels, MutexWaits
  <2>3. Return(t) \/ Frame(t, "sem_timeout_block", obj[t], arg[t])
    BY <1>9 DEF sem_wait_timeout_loop
  <2>4. pc' \in [Tasks -> Labels] /\ obj' \in [Tasks -> Mutexes \cup Sems \cup {NoObject}]
        /\ arg' \in [Tasks -> TicksAbsolute \cup SemValue] /\ LocalsTypeOK'
    BY <2>1, <2>2, <2>3, ReturnTyped, FrameTyped
  <2>5. SemTypeOK'
    <3>1. sem_take(obj[t]) \/ sem_register(obj[t], t) \/ UNCHANGED semVars
      BY <1>9 DEF sem_wait_timeout_loop
    <3>2. QED
      BY <3>1, <2>1, SemTakeTyped DEF sem_register, SemTypeOK, semVars
  <2>6. /\ SchedTypeOK' /\ SignalTypeOK' /\ preempt_pending' \in BOOLEAN
        /\ timers' \in [TimerIds -> TimerRecord]
    <3>1. CASE timer_oneshot(task_timers(t), Remaining(t))
      BY <3>1, <2>1, <1>z, OneshotTyped DEF CpuTypeOK
    <3>2. CASE UNCHANGED <<blocked_on, PENDING_SIGNALS, preempt_pending, timers>>
      BY <3>2 DEF SchedTypeOK, SignalTypeOK, CpuTypeOK, TimerTypeOK
    <3>3. QED
      BY <1>9, <3>1, <3>2 DEF sem_wait_timeout_loop
  <2>7. TaskPart'
    BY <1>9, <2>4, <2>5, <2>6 DEF sem_wait_timeout_loop, TaskPart, MutexTypeOK,
       FrameTypeOK, CpuTypeOK, mutexVars, waitVars, cpuVars
  <2>8. QED
    BY <1>9, <2>7, TaskPartTyped DEF sem_wait_timeout_loop, cpuVars
<1>10. CASE sem_max_init_store(t)
  <2>1. obj[t] \in Sems /\ arg[t] \in SemValue
    BY <1>10, <1>o DEF sem_max_init_store, RunningEnabled, Running, SemLabels
  <2>2. pc' \in [Tasks -> Labels] /\ obj' \in [Tasks -> Mutexes \cup Sems \cup {NoObject}]
        /\ arg' \in [Tasks -> TicksAbsolute \cup SemValue] /\ LocalsTypeOK'
    BY <1>10, ReturnTyped DEF sem_max_init_store
  <2>3. SemTypeOK'
    BY <1>10, <2>1 DEF sem_max_init_store, SemTypeOK
  <2>4. TaskPart'
    BY <1>10, <2>2, <2>3 DEF sem_max_init_store, TaskPart, SchedTypeOK, SignalTypeOK, MutexTypeOK,
       FrameTypeOK, TimerTypeOK, CpuTypeOK, timerVars, mutexVars, waitVars, cpuVars
  <2>5. QED
    BY <1>10, <2>4, TaskPartTyped DEF sem_max_init_store, cpuVars, timerVars
<1>11. QED
  BY <1>1, <1>2, <1>3, <1>4, <1>5, <1>6, <1>7, <1>8, <1>9, <1>10 DEF TaskStep

\* The calls that the application makes keep the types.
LEMMA AppStepTyped ==
  ASSUME TypeOK, NEW t \in Tasks, AppStep(t)
  PROVE  TypeOK'
<1>l. TimeLeftTypeOK'
  BY TimeLeftTask
<1> USE <1>l DEF TypeOK
<1>z. 0 \in TicksAbsolute /\ 0 \in TicksRelative /\ task_timers(t) \in TimerIds /\ UserTimers \subseteq TimerIds
  BY TimerAssumption, NAssumption DEF TicksAbsolute, TicksRelative, task_timers, TimerIds, UserTimers, Tasks
<1>n. TASK_ID_NONE \in TaskIdOption /\ AppSignals \subseteq Signals /\ {TASK_TIMER} \subseteq Signals
  BY DEF TaskIdOption, Signals
<1>a. \A timeout \in Timeouts : /\ timeout \in TicksRelative
                                /\ (timer_current_ticks + timeout) % TicksAbsoluteMod \in TicksAbsolute
  <2>1. SUFFICES ASSUME NEW timeout \in Timeouts
                 PROVE  /\ timeout \in TicksRelative
                        /\ (timer_current_ticks + timeout) % TicksAbsoluteMod \in TicksAbsolute
    OBVIOUS
  <2>2. timeout \in TicksRelative
    BY KochabAssumption
  <2>3. timer_current_ticks + timeout \in Int /\ TicksAbsoluteMod \in Nat \ {0}
    BY <2>2, TimerAssumption DEF TimerTypeOK, TicksAbsolute, TicksRelative
  <2>4. QED
    BY <2>2, <2>3, ModRange DEF TicksAbsolute
\* A call that only sets up its frame.
<1>f. ASSUME NEW label \in {"lock", "lock_timeout_call", "sem", "sem_timeout_call", "max_init_call"},
             NEW o \in Mutexes \cup Sems, NEW a,
             label \in MutexLabels => o \in Mutexes,
             label \in SemLabels => o \in Sems,
             a \in IF label = "max_init_call" THEN SemValue ELSE TicksAbsolute,
             Frame(t, label, o, a),
             UNCHANGED <<blocked_on, PENDING_SIGNALS, preempt_pending, interruptVars, timers, timer_current_ticks,
                         mutexVars, semVars, waitVars, cpuVars>>
      PROVE  TypeOK'
  <2>1. label \in Labels
    BY DEF Labels, Preemptible
  <2>2. pc' \in [Tasks -> Labels] /\ obj' \in [Tasks -> Mutexes \cup Sems \cup {NoObject}]
        /\ arg' \in [Tasks -> TicksAbsolute \cup SemValue] /\ LocalsTypeOK'
    BY <1>f, <2>1, FrameTyped
  <2>3. TaskPart'
    BY <1>f, <2>2 DEF TaskPart, SchedTypeOK, SignalTypeOK, MutexTypeOK, SemTypeOK,
       FrameTypeOK, TimerTypeOK, CpuTypeOK, timerVars, mutexVars, semVars, waitVars, cpuVars
  <2>4. QED
    BY <1>f, <2>3, TaskPartTyped DEF cpuVars, timerVars
<1>m. "lock" \notin SemLabels /\ "lock_timeout_call" \notin SemLabels /\ "sem" \notin MutexLabels
      /\ "sem_timeout_call" \notin MutexLabels /\ "max_init_call" \notin MutexLabels
  BY DEF MutexLabels, SemLabels, MutexWaits, SemWaits
<1>1. CASE mutex_lock(t)
  <2>1. PICK m \in Mutexes : Fatal \/ /\ Frame(t, "lock", m, 0)
                                      /\ UNCHANGED <<blocked_on, PENDING_SIGNALS, preempt_pending, interruptVars,
                                                     timerVars, mutexVars, semVars, waitVars, cpuVars>>
    BY <1>1 DEF mutex_lock
  <2>2. QED
    BY <2>1, <1>f, <1>m, <1>z, FatalTyped DEF timerVars
<1>2. CASE mutex_lock_timeout(t)
  <2>1. PICK m \in Mutexes, timeout \in Timeouts :
            Fatal \/ /\ Frame(t, "lock_timeout_call", m, (timer_current_ticks + timeout) % TicksAbsoluteMod)
                     /\ UNCHANGED <<blocked_on, PENDING_SIGNALS, preempt_pending, interruptVars,
                                    timers, timer_current_ticks, mutexVars, semVars, waitVars, cpuVars>>
    BY <1>2 DEF mutex_lock_timeout
  <2>2. QED
    BY <2>1, <1>f, <1>m, <1>a, FatalTyped
<1>3. CASE sem_wait(t)
  <2>1. PICK s \in Sems : /\ Frame(t, "sem", s, 0)
                          /\ UNCHANGED <<blocked_on, PENDING_SIGNALS, preempt_pending, interruptVars,
                                         timerVars, mutexVars, semVars, waitVars, cpuVars>>
    BY <1>3 DEF sem_wait
  <2>2. QED
    BY <2>1, <1>f, <1>m, <1>z DEF timerVars
<1>4. CASE sem_wait_timeout(t)
  <2>1. PICK s \in Sems, timeout \in Timeouts :
            /\ Frame(t, "sem_timeout_call", s, (timer_current_ticks + timeout) % TicksAbsoluteMod)
            /\ UNCHANGED <<blocked_on, PENDING_SIGNALS, preempt_pending, interruptVars,
                           timers, timer_current_ticks, mutexVars, semVars, waitVars, cpuVars>>
    BY <1>4 DEF sem_wait_timeout
  <2>2. QED
    BY <2>1, <1>f, <1>m, <1>a
<1>5. CASE sem_max_init(t)
  <2>1. PICK s \in Sems, max \in SemValue :
            Fatal \/ /\ Frame(t, "max_init_call", s, max)
                     /\ UNCHANGED <<blocked_on, PENDING_SIGNALS, preempt_pending, interruptVars,
                                    timerVars, mutexVars, semVars, waitVars, cpuVars>>
    BY <1>5 DEF sem_max_init
  <2>2. QED
    BY <2>1, <1>f, <1>m, FatalTyped DEF timerVars
\* A call that runs to its end in one step, and may send signals.
<1>g. ASSUME SchedTypeOK', SignalTypeOK', preempt_pending' \in BOOLEAN, MutexTypeOK', SemTypeOK',
             timers' \in [TimerIds -> TimerRecord],
             UNCHANGED <<timer_current_ticks, interruptVars, frameVars, waitVars, cpuVars>>
      PROVE  TypeOK'
  <2>1. TaskPart'
    BY <1>g DEF TaskPart, FrameTypeOK, LocalsTypeOK, CpuTypeOK, frameVars, waitVars, cpuVars
  <2>2. QED
    BY <1>g, <2>1, TaskPartTyped DEF cpuVars
<1>6. CASE mutex_unlock(t)
  <2>1. PICK m \in Mutexes :
          \/ Fatal
          \/ /\ signal_send_set(MutexWaiters(m), [u \in MutexWaiters(m) |-> {TASK_TIMER}])
             /\ mutex_release(m)
             /\ UNCHANGED <<interruptVars, timerVars, semVars, frameVars, waitVars, cpuVars>>
    BY <1>6 DEF mutex_unlock
  <2>2. CASE Fatal
    BY <2>2, FatalTyped
  <2>3. CASE ~Fatal
    <3>1. MutexWaiters(m) \in SUBSET Tasks
      BY DEF MutexWaiters
    <3>2. SchedTypeOK' /\ SignalTypeOK' /\ preempt_pending' \in BOOLEAN
      BY <2>1, <2>3, <3>1, <1>n, SendTyped DEF CpuTypeOK
    <3>3. MutexTypeOK'
      BY <2>1, <2>3, <1>n DEF mutex_release, MutexTypeOK
    <3>4. SemTypeOK' /\ timers' \in [TimerIds -> TimerRecord]
      BY <2>1, <2>3 DEF SemTypeOK, semVars, TimerTypeOK, timerVars
    <3>5. QED
      BY <2>1, <2>3, <3>2, <3>3, <3>4, <1>g DEF timerVars
  <2>4. QED
    BY <2>2, <2>3
<1>7. CASE mutex_try_lock(t)
  <2>1. MutexTypeOK'
    BY <1>7 DEF mutex_try_lock, mutex_take, MutexTypeOK, TaskIdOption
  <2>2. SchedTypeOK' /\ SignalTypeOK' /\ preempt_pending' \in BOOLEAN /\ SemTypeOK'
        /\ timers' \in [TimerIds -> TimerRecord]
    BY <1>7 DEF mutex_try_lock, SchedTypeOK, SignalTypeOK, CpuTypeOK, SemTypeOK, semVars, TimerTypeOK, timerVars
  <2>3. QED
    BY <1>7, <2>1, <2>2, <1>g DEF mutex_try_lock, timerVars
<1>8. CASE sem_post(t)
  <2>1. PICK s \in Sems :
          \/ Fatal
          \/ /\ signal_send_set(SemWoken(s), [u \in SemWoken(s) |-> {TASK_TIMER}])
             /\ sem_add(s)
             /\ UNCHANGED <<interruptVars, timerVars, mutexVars, frameVars, waitVars, cpuVars>>
    BY <1>8 DEF sem_post
  <2>2. CASE Fatal
    BY <2>2, FatalTyped
  <2>3. CASE ~Fatal
    <3>1. SemWoken(s) \in SUBSET Tasks
      BY DEF SemWoken
    <3>2. SchedTypeOK' /\ SignalTypeOK' /\ preempt_pending' \in BOOLEAN
      BY <2>1, <2>3, <3>1, <1>n, SendTyped DEF CpuTypeOK
    <3>3. SemTypeOK'
      BY <2>1, <2>3, SemTakeTyped
    <3>4. MutexTypeOK' /\ timers' \in [TimerIds -> TimerRecord]
      BY <2>1, <2>3 DEF MutexTypeOK, mutexVars, TimerTypeOK, timerVars
    <3>5. QED
      BY <2>1, <2>3, <3>2, <3>3, <3>4, <1>g DEF timerVars
  <2>4. QED
    BY <2>2, <2>3
<1>9. CASE sem_try_wait(t)
  <2>1. SemTypeOK'
    BY <1>9, SemTakeTyped DEF sem_try_wait
  <2>2. SchedTypeOK' /\ SignalTypeOK' /\ preempt_pending' \in BOOLEAN /\ MutexTypeOK'
        /\ timers' \in [TimerIds -> TimerRecord]
    BY <1>9 DEF sem_try_wait, SchedTypeOK, SignalTypeOK, CpuTypeOK, MutexTypeOK, mutexVars, TimerTypeOK, timerVars
  <2>3. QED
    BY <1>9, <2>1, <2>2, <1>g DEF sem_try_wait, timerVars
<1>10. CASE signal_wait_set(t)
  <2>1. PICK requested \in SUBSET AppSignals :
            /\ Frame(t, "signal_wait", NoObject, 0)
            /\ signal_wait_set_blocked_on(t, requested, TASK_ID_NONE)
            /\ UNCHANGED <<PENDING_SIGNALS, interruptVars, timerVars, mutexVars, semVars>>
    BY <1>10 DEF signal_wait_set
  <2>2. /\ SchedTypeOK'
        /\ requested_signals' \in [Tasks -> SUBSET Signals]
        /\ blocker' \in [Tasks -> TaskIdOption]
        /\ phase' \in Phases
        /\ UNCHANGED <<current_task, system_is_idle, preempt_pending>>
    BY <2>1, <1>n, WaitTyped
  <2>3. "signal_wait" \in Labels /\ "signal_wait" \notin MutexLabels /\ "signal_wait" \notin SemLabels
    BY DEF Labels, Waits, MutexLabels, SemLabels, MutexWaits, SemWaits
  <2>4. pc' \in [Tasks -> Labels] /\ obj' \in [Tasks -> Mutexes \cup Sems \cup {NoObject}]
        /\ arg' \in [Tasks -> TicksAbsolute \cup SemValue] /\ LocalsTypeOK'
    BY <2>1, <2>3, <1>z, FrameTyped
  <2>5. TaskPart'
    BY <2>1, <2>2, <2>4 DEF TaskPart, SignalTypeOK, MutexTypeOK, SemTypeOK, FrameTypeOK,
       TimerTypeOK, CpuTypeOK, timerVars, mutexVars, semVars
  <2>6. QED
    BY <2>1, <2>2, <2>5, TaskPartTyped DEF timerVars
<1>11. CASE signal_poll_set(t)
  <2>1. SignalTypeOK'
    BY <1>11 DEF signal_poll_set, signal_recv, SignalTypeOK
  <2>2. SchedTypeOK' /\ preempt_pending' \in BOOLEAN /\ MutexTypeOK' /\ SemTypeOK'
        /\ timers' \in [TimerIds -> TimerRecord]
    BY <1>11 DEF signal_poll_set, SchedTypeOK, CpuTypeOK, MutexTypeOK, mutexVars, SemTypeOK, semVars,
       TimerTypeOK, timerVars
  <2>3. QED
    BY <1>11, <2>1, <2>2, <1>g DEF signal_poll_set, timerVars
<1>12. CASE signal_send(t)
  <2>1. PICK task_id \in Tasks, sigs \in SUBSET AppSignals :
            /\ signal_send_set({task_id}, [u \in {task_id} |-> sigs])
            /\ UNCHANGED <<interruptVars, timerVars, mutexVars, semVars, frameVars, waitVars, cpuVars>>
    BY <1>12 DEF signal_send
  <2>2. SchedTypeOK' /\ SignalTypeOK' /\ preempt_pending' \in BOOLEAN
    BY <2>1, <1>n, SendTyped DEF CpuTypeOK
  <2>3. MutexTypeOK' /\ SemTypeOK' /\ timers' \in [TimerIds -> TimerRecord]
    BY <2>1 DEF MutexTypeOK, mutexVars, SemTypeOK, semVars, TimerTypeOK, timerVars
  <2>4. QED
    BY <2>1, <2>2, <2>3, <1>g DEF timerVars
<1>13. CASE sleep(t)
  <2>1. PICK ticks \in Timeouts :
            /\ timer_oneshot(task_timers(t), ticks)
            /\ Frame(t, "sleep_block", NoObject, 0)
            /\ UNCHANGED <<timer_current_ticks, interruptVars, mutexVars, semVars, waitVars, cpuVars>>
    BY <1>13 DEF sleep
  <2>2. /\ SchedTypeOK' /\ SignalTypeOK' /\ preempt_pending' \in BOOLEAN
        /\ timers' \in [TimerIds -> TimerRecord]
    BY <2>1, <1>a, <1>z, OneshotTyped DEF CpuTypeOK
  <2>3. "sleep_block" \in Labels /\ "sleep_block" \notin MutexLabels /\ "sleep_block" \notin SemLabels
    BY DEF Labels, BlockLabels, MutexLabels, SemLabels, MutexWaits, SemWaits
  <2>4. pc' \in [Tasks -> Labels] /\ obj' \in [Tasks -> Mutexes \cup Sems \cup {NoObject}]
        /\ arg' \in [Tasks -> TicksAbsolute \cup SemValue] /\ LocalsTypeOK'
    BY <2>1, <2>3, <1>z, FrameTyped
  <2>5. TaskPart'
    BY <2>1, <2>2, <2>4 DEF TaskPart, MutexTypeOK, SemTypeOK, FrameTypeOK,
       CpuTypeOK, mutexVars, semVars, waitVars, cpuVars
  <2>6. QED
    BY <2>1, <2>5, TaskPartTyped DEF cpuVars
\* The timer API rewrites one timer, or fires it at once.
<1>h. ASSUME SchedTypeOK', SignalTypeOK', preempt_pending' \in BOOLEAN,
             timers' \in [TimerIds -> TimerRecord], TimerApiFrame
      PROVE  TypeOK'
  BY <1>g, <1>h DEF TimerApiFrame, MutexTypeOK, mutexVars, SemTypeOK, semVars
<1>k. ASSUME NEW k \in UserTimers, NEW tm \in TimerRecord, SetTimer(k, tm), TimerApiFrame
      PROVE  TypeOK'
  <2>1. /\ SchedTypeOK' /\ SignalTypeOK' /\ preempt_pending' \in BOOLEAN
        /\ timers' \in [TimerIds -> TimerRecord]
    BY <1>k, <1>z DEF SetTimer, SchedTypeOK, SignalTypeOK, CpuTypeOK, TimerTypeOK
  <2>2. QED
    BY <1>k, <2>1, <1>h
<1>t. \A k \in UserTimers : timers[k] \in TimerRecord
  BY <1>z DEF TimerTypeOK
<1>14. CASE timer_enable_call(t)
  <2>1. PICK k \in UserTimers : Fatal \/ (timer_enable(k, timers[k]) /\ TimerApiFrame)
    BY <1>14 DEF timer_enable_call
  <2>2. QED
    BY <2>1, <1>t, <1>z, <1>h, FatalTyped, EnableTyped DEF CpuTypeOK
<1>15. CASE timer_oneshot_call(t)
  <2>1. PICK k \in UserTimers, timeout \in Timeouts : Fatal \/ (timer_oneshot(k, timeout) /\ TimerApiFrame)
    BY <1>15 DEF timer_oneshot_call
  <2>2. QED
    BY <2>1, <1>a, <1>z, <1>h, FatalTyped, OneshotTyped DEF CpuTypeOK
<1>16. CASE timer_disable(t) \/ timer_check_overflow(t) \/ timer_error_set(t)
  <2>1. PICK k \in UserTimers, b \in BOOLEAN :
            /\ \/ SetTimer(k, [timers[k] EXCEPT !.enabled = FALSE])
               \/ SetTimer(k, [timers[k] EXCEPT !.overflow = FALSE])
               \/ SetTimer(k, [timers[k] EXCEPT !.error = b])
            /\ TimerApiFrame
    BY <1>16 DEF timer_disable, timer_check_overflow, timer_error_set
  <2>2. /\ [timers[k] EXCEPT !.enabled = FALSE] \in TimerRecord
        /\ [timers[k] EXCEPT !.overflow = FALSE] \in TimerRecord
        /\ [timers[k] EXCEPT !.error = b] \in TimerRecord
    BY <1>t DEF TimerRecord
  <2>3. QED
    BY <2>1, <2>2, <1>k
<1>17. CASE timer_reload_set(t)
  <2>1. PICK k \in UserTimers, reload \in Timeouts :
            SetTimer(k, [timers[k] EXCEPT !.reload = reload]) /\ TimerApiFrame
    BY <1>17 DEF timer_reload_set
  <2>2. [timers[k] EXCEPT !.reload = reload] \in TimerRecord
    BY <1>t, <1>a DEF TimerRecord
  <2>3. QED
    BY <2>1, <2>2, <1>k
<1>18. CASE timer_signal_set(t)
  <2>1. PICK k \in UserTimers, task_id \in Tasks, sigs \in SUBSET AppSignals :
            /\ SetTimer(k, [timers[k] EXCEPT !.error = FALSE, !.task_id = task_id, !.signal_set = sigs])
            /\ TimerApiFrame
    BY <1>18 DEF timer_signal_set
  <2>2. [timers[k] EXCEPT !.error = FALSE, !.task_id = task_id, !.signal_set = sigs] \in TimerRecord
    BY <1>t, <1>n DEF TimerRecord
  <2>3. QED
    BY <2>1, <2>2, <1>k
<1>20. QED
  BY <1>1, <1>2, <1>3, <1>4, <1>5, <1>6, <1>7, <1>8, <1>9, <1>10, <1>11, <1>12, <1>13, <1>14,
     <1>15, <1>16, <1>17, <1>18 DEF AppStep

\* Only the tick counts, and it counts for every call.
LEMMA TimeLeftCpu ==
  ASSUME TypeOK, SchedStep \/ Interrupt
  PROVE  TimeLeftTypeOK'
<1>1. CASE timer_tick_process
  <2>1. \/ UNCHANGED time_left
        \/ CountTick((timer_current_ticks + 1) % TicksAbsoluteMod, {t \in Tasks : pc[t] \in TimedLabels})
    BY <1>1 DEF timer_tick_process, timerVars
  <2>2. QED
    BY <2>1, CountTickTyped DEF TypeOK, TimeLeftTypeOK
<1>2. CASE ~timer_tick_process
  <2>1. UNCHANGED time_left
    BY <1>2 DEF SchedStep, Interrupt, Preempt, interrupt_event_process, sched_pick, interrupt_event_wait,
       interrupt_event_raise, timer_tick, HandlerReturns, timerVars
  <2>2. QED
    BY <2>1 DEF TypeOK, TimeLeftTypeOK
<1>3. QED
  BY <1>1, <1>2

\* The scheduler's steps and the interrupt handlers keep the types.
LEMMA CpuStepTyped ==
  ASSUME TypeOK, SchedStep \/ Interrupt
  PROVE  TypeOK'
<1> USE DEF TypeOK
<1>l. TimeLeftTypeOK'
  BY TimeLeftCpu
<1> USE <1>l
<1>1. CASE Preempt
  BY <1>1 DEF Preempt, SchedTypeOK, SignalTypeOK, TimerTypeOK, MutexTypeOK, SemTypeOK, EventTypeOK,
     CpuTypeOK, FrameTypeOK, LocalsTypeOK, interruptVars, timerVars, mutexVars, semVars, frameVars,
     waitVars, Phases
<1>2. CASE interrupt_event_process
  <2>1. SchedTypeOK' /\ SignalTypeOK' /\ preempt_pending' \in BOOLEAN
    BY <1>2, EventsTyped, SendTyped DEF interrupt_event_process, EventTypeOK, CpuTypeOK
  <2>2. QED
    BY <1>2, <2>1 DEF interrupt_event_process, TimerTypeOK, MutexTypeOK, SemTypeOK, EventTypeOK,
       CpuTypeOK, FrameTypeOK, LocalsTypeOK, timerVars, mutexVars, semVars, frameVars, waitVars, Phases
<1>3. CASE timer_tick_process
  <2> DEFINE ticks == (timer_current_ticks + 1) % TicksAbsoluteMod
             K == Expired(ticks)
  <2>1. ticks \in TicksAbsolute
    <3>1. timer_current_ticks + 1 \in Int /\ TicksAbsoluteMod \in Nat \ {0}
      BY TimerAssumption DEF TimerTypeOK, TicksAbsolute
    <3>2. QED
      BY <3>1, ModRange DEF TicksAbsolute
  <2>2. K \in SUBSET TimerIds
    BY DEF Expired
  <2>3. \/ UNCHANGED <<blocked_on, PENDING_SIGNALS, preempt_pending, timerVars>>
        \/ timer_current_ticks' = ticks /\ UNCHANGED <<blocked_on, PENDING_SIGNALS, preempt_pending, timers>>
        \/ /\ timer_current_ticks' = ticks /\ timers' = TimersAfter(K)
           /\ signal_send_set(TimerTasks(K), TimerSignals(K))
    BY <1>3 DEF timer_tick_process
  <2> HIDE DEF ticks, K
  <2>4. /\ SchedTypeOK' /\ SignalTypeOK' /\ preempt_pending' \in BOOLEAN
        /\ timers' \in [TimerIds -> TimerRecord] /\ timer_current_ticks' \in TicksAbsolute
    <3>1. CASE UNCHANGED <<blocked_on, PENDING_SIGNALS, preempt_pending, timers>>
      BY <2>1, <2>3, <3>1 DEF SchedTypeOK, SignalTypeOK, CpuTypeOK, TimerTypeOK, timerVars
    <3>2. CASE /\ timer_current_ticks' = ticks /\ timers' = TimersAfter(K)
               /\ signal_send_set(TimerTasks(K), TimerSignals(K))
      BY <2>1, <2>2, <3>2, ExpiredTyped, SendTyped DEF CpuTypeOK
    <3>3. QED
      BY <2>3, <3>1, <3>2 DEF timerVars
  <2>5. phase' \in Phases /\ urgent' \subseteq urgent /\ timer_pending_ticks' = 0
    BY <1>3 DEF timer_tick_process, Phases
  <2>6. QED
    BY <1>3, <2>4, <2>5 DEF timer_tick_process, TimerTypeOK, MutexTypeOK, SemTypeOK, EventTypeOK,
       CpuTypeOK, FrameTypeOK, LocalsTypeOK, mutexVars, semVars, frameVars, waitVars
<1>4. CASE sched_pick
  <2>1. current_task' \in Tasks /\ phase' \in Phases /\ system_is_idle' \in BOOLEAN
    BY <1>4 DEF sched_pick, CpuTypeOK, Phases
  <2>2. QED
    BY <1>4, <2>1 DEF sched_pick, SchedTypeOK, SignalTypeOK, TimerTypeOK, MutexTypeOK, SemTypeOK,
       EventTypeOK, CpuTypeOK, FrameTypeOK, LocalsTypeOK, interruptVars, timerVars, mutexVars, semVars,
       frameVars, waitVars
<1>5. CASE interrupt_event_wait
  BY <1>5 DEF interrupt_event_wait, SchedTypeOK, SignalTypeOK, TimerTypeOK, MutexTypeOK, SemTypeOK,
     EventTypeOK, CpuTypeOK, FrameTypeOK, LocalsTypeOK, interruptVars, timerVars, mutexVars, semVars,
     frameVars, waitVars, Phases
\* What all handlers share.
<1>h. ASSUME NEW preempt \in BOOLEAN, HandlerReturns(preempt), EventTypeOK',
             timer_pending_ticks' \in 0 .. 2, urgent' \in SUBSET (Events \cup {TICK})
      PROVE  TypeOK'
  BY <1>h DEF HandlerReturns, SchedTypeOK, SignalTypeOK, TimerTypeOK, MutexTypeOK, SemTypeOK,
     CpuTypeOK, FrameTypeOK, LocalsTypeOK, timerVars, mutexVars, semVars, frameVars, waitVars, Phases
<1>6. ASSUME NEW preempt \in BOOLEAN, NEW e \in Events, interrupt_event_raise(e, preempt)
      PROVE  TypeOK'
  BY <1>6, <1>h DEF interrupt_event_raise, EventTypeOK, TimerTypeOK, CpuTypeOK
<1>7. ASSUME NEW preempt \in BOOLEAN, timer_tick(preempt)
      PROVE  TypeOK'
  BY <1>7, <1>h DEF timer_tick, EventTypeOK, TimerTypeOK, CpuTypeOK
<1>8. QED
  BY <1>1, <1>2, <1>3, <1>4, <1>5, <1>6, <1>7 DEF SchedStep, Interrupt

\* No step of Kochab breaks the types.
LEMMA TypeNext == TypeOK /\ [Next]_vars => TypeOK'
<1> SUFFICES ASSUME TypeOK, [Next]_vars PROVE TypeOK'
  OBVIOUS
<1>1. CASE UNCHANGED vars
  BY <1>1 DEF vars, TypeOK, SchedTypeOK, SignalTypeOK, TimerTypeOK, TimeLeftTypeOK, MutexTypeOK, SemTypeOK,
     EventTypeOK, CpuTypeOK, FrameTypeOK, LocalsTypeOK, interruptVars, timerVars, mutexVars, semVars,
     frameVars, waitVars, cpuVars
<1>2. CASE Next
  BY <1>1, <1>2, TaskStepTyped, AppStepTyped, CpuStepTyped DEF Next, Stopped
<1>3. QED
  BY <1>1, <1>2

\* Type correctness: no counter, identifier or local of the RTOS ever leaves
\* the range of its C type, whatever the tasks call and whenever interrupts come.
THEOREM TypeCorrect == Spec => []TypeOK
  BY TypeInit, TypeNext, PTL DEF Spec
=============================================================================

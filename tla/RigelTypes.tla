----------------------------- MODULE RigelTypes -----------------------------
(***************************************************************************)
(* Type correctness of Rigel, for any configuration: any number of tasks,  *)
(* mutexes, events and queues, any length of every queue, and any width of *)
(* the tick counters.                                                      *)
(***************************************************************************)
EXTENDS Rigel, TimerLemmas

\* The calls whose object is a queue, and those whose object is a mutex.
QueueLabels == PutWaits \cup GetWaits \cup
    {"put", "get", "put_timeout", "get_timeout", "put_timeout_block", "get_timeout_block"}
MutexLabels == {"lock", "lock_wait"}

\* The locals of the calls.
FrameTypeOK ==
    /\ pc \in [Tasks -> Labels]
    /\ obj \in [Tasks -> Mutexes \cup Queues \cup {NoObject}]
    /\ arg \in [Tasks -> TicksAbsolute]
    /\ message \in [Tasks -> Contents]
    /\ \A t \in Tasks : /\ pc[t] \in QueueLabels => obj[t] \in Queues
                        /\ pc[t] \in MutexLabels => obj[t] \in Mutexes

\* What the CPU runs, and what the tasks are told.
CpuTypeOK ==
    /\ phase \in Phases
    /\ current_task \in Tasks
    /\ event_task \in [Events -> Tasks]
    /\ received \in [Tasks -> Contents]
    /\ requested_signals \in [Tasks -> SUBSET Signals]

\* The type invariant, but for the history, together with the type of a call's
\* object, which depends on where the call is.
TypeInv ==
    /\ SchedTypeOK /\ SignalTypeOK /\ TimerTypeOK /\ MutexTypeOK /\ QueueTypeOK /\ EventTypeOK
    /\ CpuTypeOK /\ FrameTypeOK

\* The type invariant follows from it.
LEMMA TypeInvIsStronger == TypeInv /\ TimeLeftTypeOK => TypeOK
  BY DEF TypeInv, TypeOK, CpuTypeOK, FrameTypeOK

-----------------------------------------------------------------------------
(* The operators of the components. *)

\* The slot of the ring buffer of queue q that is i after its head.
LEMMA SlotWraps ==
  ASSUME QueueTypeOK, NEW q \in Queues, NEW i \in 0 .. QueueLength[q]
  PROVE  /\ Slot(q, i) \in Slots(q)
         /\ Slot(q, i) = IF head[q] + i < QueueLength[q] THEN head[q] + i
                         ELSE head[q] + i - QueueLength[q]
<1>1. /\ QueueLength[q] \in Nat \ {0} /\ head[q] \in Nat
      /\ head[q] < QueueLength[q]
  BY QueueAssumption DEF QueueTypeOK, Slots
<1>2. \A L \in Nat \ {0}, a \in Nat : a < 2 * L => a % L = IF a < L THEN a ELSE a - L
  <2>1. ASSUME NEW L \in Nat \ {0}, NEW a \in Nat, a < L
        PROVE  a % L = a
    BY <2>1, Z3
  <2>2. ASSUME NEW L \in Nat \ {0}, NEW a \in Nat, a >= L, a < 2 * L
        PROVE  a % L = a - L
    BY <2>2, Z3
  <2>3. \A L \in Nat \ {0}, a \in Nat : a < L \/ a >= L
    OBVIOUS
  <2>4. QED
    BY <2>1, <2>2, <2>3
<1>3. (head[q] + i) % QueueLength[q] = IF head[q] + i < QueueLength[q] THEN head[q] + i
                                       ELSE head[q] + i - QueueLength[q]
  BY <1>1, <1>2
<1>4. QED
  BY <1>1, <1>3 DEF Slot, Slots

\* The counters of a queue.
LEMMA QueueNumbers ==
  ASSUME QueueTypeOK, NEW q \in Queues
  PROVE  /\ QueueLength[q] \in Nat \ {0} /\ available[q] \in Nat
         /\ available[q] <= QueueLength[q]
<1>1. QueueLength[q] \in Nat \ {0}
  BY QueueAssumption
<1>2. available[q] \in Nat /\ available[q] <= QueueLength[q]
  BY DEF QueueTypeOK
<1>3. QED
  BY <1>1, <1>2

\* try_put and try_get keep the ring buffers well-formed.
LEMMA StoreTyped ==
  ASSUME QueueTypeOK, NEW q \in Queues, NEW m \in Contents, store(q, m)
  PROVE  QueueTypeOK'
<1>0. available[q] # QueueLength[q]
  BY DEF store, Full
<1>1. /\ available[q] \in Nat /\ QueueLength[q] \in Nat \ {0}
      /\ available[q] < QueueLength[q]
  BY <1>0, QueueNumbers
<1>2. Slot(q, available[q]) \in Slots(q)
  BY <1>1, SlotWraps
<1>3. available' = [available EXCEPT ![q] = @ + 1] /\ head' = head
  BY DEF store
<1>4. messages'[q] \in [Slots(q) -> Contents] /\ \A r \in Queues \ {q} : messages'[r] = messages[r]
  BY <1>2 DEF store, QueueTypeOK
<1>5. DOMAIN messages' = Queues /\ \A r \in Queues : messages'[r] \in [Slots(r) -> Contents]
  BY <1>4 DEF store, QueueTypeOK
<1>6. available' \in [Queues -> Nat] /\ \A r \in Queues : available'[r] <= QueueLength[r]
  <2>1. available \in [Queues -> Nat] /\ available[q] + 1 \in Nat
    BY <1>1 DEF QueueTypeOK
  <2>2. available' \in [Queues -> Nat]
    BY <1>3, <2>1
  <2>3. ASSUME NEW r \in Queues
        PROVE  available'[r] <= QueueLength[r]
    <3>1. CASE r = q
      BY <1>1, <1>3, <2>1, <3>1
    <3>2. CASE r # q
      BY <1>3, <2>1, <3>2, QueueNumbers
    <3>3. QED
      BY <3>1, <3>2
  <2>4. QED
    BY <2>2, <2>3
<1>7. message_queue_waiters' \in [Tasks -> Queues \cup {MESSAGE_QUEUE_ID_NONE}]
  BY DEF store, forget_waiters, QueueTypeOK
<1>8. QED
  BY <1>3, <1>5, <1>6, <1>7 DEF QueueTypeOK

LEMMA RemoveTyped ==
  ASSUME QueueTypeOK, NEW q \in Queues, remove(q)
  PROVE  QueueTypeOK' /\ Oldest(q) \in Contents
<1>0. available[q] # 0
  BY DEF remove, Empty
<1>1. /\ available[q] \in Nat /\ available[q] # 0 /\ QueueLength[q] \in Nat \ {0}
      /\ available[q] <= QueueLength[q]
  BY <1>0, QueueNumbers
<1>2. Slot(q, 1) \in Slots(q) /\ Slot(q, 1) \in Nat
  BY <1>1, SlotWraps DEF Slots
<1>3. /\ available' = [available EXCEPT ![q] = @ - 1]
      /\ head' = [head EXCEPT ![q] = Slot(q, 1)] /\ messages' = messages
  BY DEF remove
<1>4. head' \in [Queues -> Nat] /\ \A r \in Queues : head'[r] \in Slots(r)
  BY <1>2, <1>3 DEF QueueTypeOK
<1>5. available' \in [Queues -> Nat] /\ \A r \in Queues : available'[r] <= QueueLength[r]
  <2>1. available \in [Queues -> Nat] /\ available[q] - 1 \in Nat
    BY <1>1 DEF QueueTypeOK
  <2>2. available' \in [Queues -> Nat]
    BY <1>3, <2>1
  <2>3. ASSUME NEW r \in Queues
        PROVE  available'[r] <= QueueLength[r]
    <3>1. CASE r = q
      BY <1>1, <1>3, <2>1, <3>1
    <3>2. CASE r # q
      BY <1>3, <2>1, <3>2, QueueNumbers
    <3>3. QED
      BY <3>1, <3>2
  <2>4. QED
    BY <2>2, <2>3
<1>6. message_queue_waiters' \in [Tasks -> Queues \cup {MESSAGE_QUEUE_ID_NONE}]
  BY DEF remove, forget_waiters, QueueTypeOK
<1>7. Oldest(q) \in Contents
  BY DEF Oldest, QueueTypeOK
<1>8. QED
  BY <1>3, <1>4, <1>5, <1>6, <1>7 DEF QueueTypeOK

LEMMA RegisterTyped ==
  ASSUME QueueTypeOK, NEW q \in Queues \cup {MESSAGE_QUEUE_ID_NONE}, NEW t \in Tasks, register(q, t)
  PROVE  QueueTypeOK'
  BY DEF register, QueueTypeOK, Empty, Slots

\* The tasks that a put or a get wakes.
LEMMA WakesTyped ==
  ASSUME NEW q
  PROVE  PutWakes(q) \in SUBSET Tasks /\ GetWakes(q) \in SUBSET Tasks
  BY DEF PutWakes, GetWakes, Registered

\* signal_send_set writes well-formed signals and scheduler entries.
LEMMA SendTyped ==
  ASSUME SchedTypeOK, SignalTypeOK, cur' = cur,
         NEW T \in SUBSET Tasks, NEW sigs, \A t \in T : sigs[t] \subseteq Signals,
         signal_send_set(T, sigs)
  PROVE  SchedTypeOK' /\ SignalTypeOK'
  BY DEF signal_send_set, signal_set_pending, sched_set_runnable, SchedTypeOK, SignalTypeOK

LEMMA SendTaskTimerTyped ==
  ASSUME SchedTypeOK, SignalTypeOK, cur' = cur, NEW W \in SUBSET Tasks, send_task_timer(W)
  PROVE  SchedTypeOK' /\ SignalTypeOK'
<1>1. \A t \in W : [u \in W |-> {TASK_TIMER}][t] \subseteq Signals
  BY DEF Signals
<1>2. QED
  BY <1>1, SendTyped DEF send_task_timer

\* A new stack frame whose locals have the types of its call.
LEMMA FrameTyped ==
  ASSUME FrameTypeOK, NEW t \in Tasks, NEW label \in Labels,
         NEW o \in Mutexes \cup Queues \cup {NoObject}, NEW a \in TicksAbsolute, NEW m \in Contents,
         label \in QueueLabels => o \in Queues,
         label \in MutexLabels => o \in Mutexes,
         Frame(t, label, o, a, m)
  PROVE  FrameTypeOK'
  BY DEF Frame, FrameTypeOK

\* A return to the application leaves no locals behind.
LEMMA ReturnTyped ==
  ASSUME FrameTypeOK, NEW t \in Tasks, Return(t)
  PROVE  FrameTypeOK'
<1>1. "app" \in Labels /\ "app" \notin QueueLabels /\ "app" \notin MutexLabels
  BY DEF Labels, QueueLabels, MutexLabels, PutWaits, GetWaits
<1>2. 0 \in TicksAbsolute /\ NoMessage \in Contents
  BY TimerAssumption DEF TicksAbsolute, Contents
<1>3. QED
  BY <1>1, <1>2, FrameTyped DEF Return

\* A call that goes on keeps its object.
LEMMA GotoTyped ==
  ASSUME FrameTypeOK, NEW t \in Tasks, NEW label \in Labels, Goto(t, label),
         label \in QueueLabels => pc[t] \in QueueLabels,
         label \in MutexLabels => pc[t] \in MutexLabels
  PROVE  FrameTypeOK'
<1>1. /\ obj[t] \in Mutexes \cup Queues \cup {NoObject} /\ arg[t] \in TicksAbsolute
      /\ message[t] \in Contents
      /\ label \in QueueLabels => obj[t] \in Queues
      /\ label \in MutexLabels => obj[t] \in Mutexes
  BY DEF FrameTypeOK
<1>2. QED
  BY <1>1, FrameTyped DEF Goto

\* signal_wait_set writes well-formed locals and scheduler entries.
LEMMA WaitTyped ==
  ASSUME SchedTypeOK, CpuTypeOK, NEW t \in Tasks, NEW requested \in SUBSET Signals,
         signal_wait_set(t, requested), UNCHANGED <<event_task, received>>
  PROVE  SchedTypeOK' /\ CpuTypeOK'
  BY DEF signal_wait_set, block, yield, sched_set_blocked, SchedTypeOK, CpuTypeOK, Phases

\* The task timers are the only timers.
LEMMA TaskTimersOnly == TimerIds = Tasks /\ \A t \in Tasks : task_timers(t) = t
  BY RigelAssumption, NAssumption DEF TimerIds, Tasks, task_timers

\* timer_oneshot writes well-formed state.
LEMMA OneshotTyped ==
  ASSUME SchedTypeOK, SignalTypeOK, TimerTypeOK, UNCHANGED <<cur, timer_current_ticks, timer_pending_ticks>>,
         NEW t \in Tasks, NEW timeout \in TicksRelative, timer_oneshot(t, timeout)
  PROVE  SchedTypeOK' /\ SignalTypeOK' /\ TimerTypeOK'
<1>0. 0 \in TicksRelative /\ task_timers(t) \in TimerIds /\ timers[task_timers(t)] \in TimerRecord
  BY TimerAssumption, TaskTimersOnly DEF TicksRelative, TimerTypeOK
<1>1. CASE timeout = 0
  <2>1. [timers[task_timers(t)] EXCEPT !.reload = 0] \in TimerRecord
    BY <1>0, TimerOpsTyped
  <2>2. timer_process_one([timers[task_timers(t)] EXCEPT !.reload = 0], PENDING_SIGNALS[t]) \in TimerRecord
    BY <1>0, <2>1, TimerOpsTyped
  <2>3. TimerTypeOK'
    BY <1>0, <1>1, <2>2 DEF timer_oneshot, TimerTypeOK
  <2>4. send_task_timer({t})
    BY <1>1 DEF timer_oneshot
  <2>5. QED
    BY <2>3, <2>4, SendTaskTimerTyped
<1>2. CASE timeout # 0
  <2>1. timer_start_oneshot(timers[task_timers(t)], timeout) \in TimerRecord
    BY <1>0, TimerOpsTyped
  <2>2. QED
    BY <1>0, <1>2, <2>1 DEF timer_oneshot, TimerTypeOK, SchedTypeOK, SignalTypeOK
<1>3. QED
  BY <1>1, <1>2

-----------------------------------------------------------------------------
(* The steps. *)

\* The initial configuration is well-formed.
LEMMA TypeInit == Init => TypeInv
<1> SUFFICES ASSUME Init PROVE TypeInv
  OBVIOUS
<1>1. 0 \in Tasks /\ 0 \in TicksAbsolute /\ 0 \in TicksRelative /\ NoMessage \in Contents
  BY NAssumption, TimerAssumption DEF Tasks, TicksAbsolute, TicksRelative, Contents
<1>2. SchedTypeOK /\ SignalTypeOK /\ MutexTypeOK /\ EventTypeOK
  BY <1>1 DEF Init, SchedTypeOK, SignalTypeOK, MutexInit, MutexTypeOK, TaskIdOption, EventTypeOK
<1>3. TimerTypeOK
  <2>1. \A t \in Tasks : TaskTimer(t) \in TimerRecord
    BY <1>1 DEF TaskTimer, TimerRecord, Signals
  <2>2. QED
    BY <1>1, <2>1, TaskTimersOnly DEF Init, TimerTypeOK
<1>4. QueueTypeOK
  <2>1. \A q \in Queues : QueueLength[q] \in Nat \ {0} /\ 0 \in Slots(q)
    BY QueueAssumption DEF Slots
  <2>2. QED
    BY <1>1, <2>1 DEF Init, QueueInit, QueueTypeOK
<1>5. CpuTypeOK
  BY <1>1, EventAssumption DEF Init, CpuTypeOK, Phases
<1>6. FrameTypeOK
  BY <1>1 DEF Init, FrameTypeOK, Labels, QueueLabels, MutexLabels, PutWaits, GetWaits
<1>7. QED
  BY <1>2, <1>3, <1>4, <1>5, <1>6 DEF TypeInv

\* What a step leaves alone keeps its type.
LEMMA Kept ==
  ASSUME TypeInv
  PROVE  /\ UNCHANGED <<cur, runnable>> => SchedTypeOK'
         /\ UNCHANGED PENDING_SIGNALS => SignalTypeOK'
         /\ UNCHANGED <<timers, timer_current_ticks, timer_pending_ticks>> => TimerTypeOK'
         /\ UNCHANGED <<holder, mutex_waiters>> => MutexTypeOK'
         /\ UNCHANGED <<messages, head, available, message_queue_waiters>> => QueueTypeOK'
         /\ UNCHANGED interrupt_event => EventTypeOK'
         /\ UNCHANGED <<phase, current_task, event_task, received, requested_signals>> => CpuTypeOK'
         /\ UNCHANGED <<pc, obj, arg, message>> => FrameTypeOK'
<1> USE DEF TypeInv
<1>1. UNCHANGED <<cur, runnable>> => SchedTypeOK'
  BY DEF SchedTypeOK
<1>2. UNCHANGED PENDING_SIGNALS => SignalTypeOK'
  BY DEF SignalTypeOK
<1>3. UNCHANGED <<timers, timer_current_ticks, timer_pending_ticks>> => TimerTypeOK'
  BY DEF TimerTypeOK
<1>4. UNCHANGED <<holder, mutex_waiters>> => MutexTypeOK'
  BY DEF MutexTypeOK
<1>5. UNCHANGED <<messages, head, available, message_queue_waiters>> => QueueTypeOK'
  BY DEF QueueTypeOK
<1>6. UNCHANGED interrupt_event => EventTypeOK'
  BY DEF EventTypeOK
<1>7. UNCHANGED <<phase, current_task, event_task, received, requested_signals>> => CpuTypeOK'
  BY DEF CpuTypeOK
<1>8. UNCHANGED <<pc, obj, arg, message>> => FrameTypeOK'
  BY DEF FrameTypeOK
<1>9. QED
  BY <1>1, <1>2, <1>3, <1>4, <1>5, <1>6, <1>7, <1>8

\* A put or a get that succeeds within the call of t.
LEMMA PutTyped ==
  ASSUME TypeInv, NEW q \in Queues, NEW m \in Contents, put_message(q, m), TryCallFrame, FrameTypeOK'
  PROVE  TypeInv'
<1>1. QueueTypeOK'
  BY StoreTyped DEF TypeInv, put_message
<1>2. SchedTypeOK' /\ SignalTypeOK'
  BY WakesTyped, SendTaskTimerTyped DEF TypeInv, put_message, TryCallFrame, cpuVars
<1>3. QED
  BY <1>1, <1>2, Kept DEF put_message, TryCallFrame, cpuVars, interruptVars, timerVars, mutexVars, TypeInv

LEMMA GetTyped ==
  ASSUME TypeInv, NEW q \in Queues, NEW t \in Tasks, get_message(q, t), TryCallFrame, FrameTypeOK'
  PROVE  TypeInv'
<1>1. QueueTypeOK' /\ Oldest(q) \in Contents
  BY RemoveTyped DEF TypeInv, get_message
<1>2. SchedTypeOK' /\ SignalTypeOK'
  BY WakesTyped, SendTaskTimerTyped DEF TypeInv, get_message, TryCallFrame, cpuVars
<1>3. CpuTypeOK'
  BY <1>1 DEF get_message, TryCallFrame, cpuVars, TypeInv, CpuTypeOK
<1>4. QED
  BY <1>1, <1>2, <1>3, Kept DEF get_message, TryCallFrame, cpuVars, interruptVars, timerVars, mutexVars, TypeInv

\* A call that fails and waits for a queue, with and without a timeout.
LEMMA QueueWaitTyped ==
  ASSUME TypeInv, NEW t \in Tasks, NEW label \in PutWaits \cup GetWaits, pc[t] \in QueueLabels,
         message_queue_wait(t, label)
  PROVE  TypeInv'
<1>1. obj[t] \in Queues
  BY DEF TypeInv, FrameTypeOK
<1>2. label \in Labels /\ label \notin MutexLabels
  BY DEF Labels, Waits, TimerWaits, MutexLabels, PutWaits, GetWaits
<1>3. FrameTypeOK'
  BY <1>2, GotoTyped DEF message_queue_wait, TypeInv
<1>4. QueueTypeOK'
  BY <1>1, RegisterTyped DEF message_queue_wait, TypeInv
<1>5. SchedTypeOK' /\ CpuTypeOK'
  <2>1. {TASK_TIMER} \in SUBSET Signals
    BY DEF Signals
  <2>2. QED
    BY <2>1, WaitTyped DEF message_queue_wait, TypeInv
<1>6. QED
  BY <1>3, <1>4, <1>5, Kept DEF message_queue_wait, interruptVars, timerVars, mutexVars, TypeInv

LEMMA QueueWaitTimeoutTyped ==
  ASSUME TypeInv, NEW t \in Tasks, NEW label \in {"put_timeout_block", "get_timeout_block"},
         pc[t] \in QueueLabels, message_queue_wait_timeout(t, label)
  PROVE  TypeInv'
<1>1. obj[t] \in Queues
  BY DEF TypeInv, FrameTypeOK
<1>2. label \in Labels /\ label \notin MutexLabels
  BY DEF Labels, BlockLabels, MutexLabels
<1>3. FrameTypeOK'
  BY <1>2, GotoTyped DEF message_queue_wait_timeout, TypeInv
<1>4. QueueTypeOK'
  BY <1>1, RegisterTyped DEF message_queue_wait_timeout, TypeInv
<1>5. Remaining(t) \in TicksRelative
  <2>1. arg[t] - timer_current_ticks \in Int
    BY DEF TypeInv, FrameTypeOK, TimerTypeOK, TicksAbsolute
  <2>2. QED
    BY <2>1, TimerAssumption, ModRange DEF Remaining, TicksRelative
<1>6. SchedTypeOK' /\ SignalTypeOK' /\ TimerTypeOK'
  BY <1>5, OneshotTyped DEF message_queue_wait_timeout, TypeInv, cpuVars, interruptVars
<1>7. QED
  BY <1>3, <1>4, <1>6, Kept DEF message_queue_wait_timeout, interruptVars, mutexVars, cpuVars, TypeInv

\* A call enters its loop.
LEMMA EnterTyped ==
  ASSUME TypeInv, NEW t \in Tasks, NEW label \in Labels,
         NEW o \in Mutexes \cup Queues, NEW a \in TicksAbsolute, NEW m \in Contents,
         label \in QueueLabels => o \in Queues,
         label \in MutexLabels => o \in Mutexes,
         EnterLoop(t, label, o, a, m)
  PROVE  TypeInv'
<1>1. FrameTypeOK'
  BY FrameTyped DEF EnterLoop, TypeInv
<1>2. QED
  BY <1>1, Kept DEF EnterLoop, cpuVars, interruptVars, timerVars, mutexVars, queueVars, TypeInv

\* A fatal_error leaves everything but the phase alone.
LEMMA FatalTyped == TypeInv /\ Fatal => TypeInv'
<1> SUFFICES ASSUME TypeInv, Fatal PROVE TypeInv'
  OBVIOUS
<1>1. CpuTypeOK'
  BY DEF Fatal, TypeInv, CpuTypeOK, Phases
<1>2. QED
  BY <1>1, Kept DEF Fatal, cpuVars, interruptVars, timerVars, mutexVars, queueVars, frameVars, TypeInv

\* Waiting, resuming and the loops of the blocking calls keep the types.
LEMMA TaskStepTyped ==
  ASSUME TypeInv, NEW t \in Tasks, TaskStep(t)
  PROVE  TypeInv'
<1> USE DEF TypeInv
<1>s. {TASK_TIMER} \in SUBSET Signals /\ {RTOS_UTIL} \in SUBSET Signals
  BY RigelAssumption DEF Signals
<1>k. task_timers(t) \in TimerIds
  BY TaskTimersOnly
<1>o. /\ pc[t] \in QueueLabels => obj[t] \in Queues
      /\ pc[t] \in MutexLabels => obj[t] \in Mutexes
      /\ message[t] \in Contents
  BY DEF FrameTypeOK
<1>1. CASE Entry(t)
  <2>1. CASE Return(t) /\ yield /\ UNCHANGED <<runnable, requested_signals>>
    <3>1. FrameTypeOK'
      BY <2>1, ReturnTyped
    <3>2. CpuTypeOK'
      BY <1>1, <2>1 DEF Entry, yield, CpuTypeOK, Phases
    <3>3. QED
      BY <1>1, <2>1, <3>1, <3>2, Kept DEF Entry, yield, interruptVars, timerVars, mutexVars, queueVars
  <2>2. CASE Goto(t, "start_wait") /\ signal_wait_set(t, {RTOS_UTIL})
    <3>1. "start_wait" \in Labels /\ "start_wait" \notin QueueLabels \cup MutexLabels
      BY DEF Labels, Waits, QueueLabels, MutexLabels, PutWaits, GetWaits
    <3>2. FrameTypeOK'
      BY <2>2, <3>1, GotoTyped
    <3>3. SchedTypeOK' /\ CpuTypeOK'
      BY <1>1, <1>s, <2>2, WaitTyped DEF Entry
    <3>4. QED
      BY <1>1, <3>2, <3>3, Kept DEF Entry, interruptVars, timerVars, mutexVars, queueVars
  <2>3. QED
    BY <1>1, <2>1, <2>2 DEF Entry
<1>2. CASE BlockTimed(t)
  <2>1. /\ pc[t] \in BlockLabels /\ WaitOf[pc[t]] \in Labels
        /\ WaitOf[pc[t]] \in QueueLabels => pc[t] \in QueueLabels
        /\ WaitOf[pc[t]] \notin MutexLabels
    BY <1>2 DEF BlockTimed, BlockLabels, WaitOf, Labels, Waits, TimerWaits, PutWaits, GetWaits,
       QueueLabels, MutexLabels
  <2>2. FrameTypeOK'
    BY <1>2, <2>1, GotoTyped DEF BlockTimed
  <2>3. SchedTypeOK' /\ CpuTypeOK'
    BY <1>2, <1>s, WaitTyped DEF BlockTimed
  <2>4. QED
    BY <1>2, <2>2, <2>3, Kept DEF BlockTimed, interruptVars, timerVars, mutexVars, queueVars
<1>3. CASE WaitAgain(t)
  <2>1. SchedTypeOK' /\ CpuTypeOK'
    BY <1>3 DEF WaitAgain, block, yield, sched_set_blocked, SchedTypeOK, CpuTypeOK, Phases
  <2>2. QED
    BY <1>3, <2>1, Kept DEF WaitAgain, interruptVars, timerVars, mutexVars, queueVars, frameVars
<1>4. CASE WaitEnd(t)
  <2>1. /\ pc[t] \in Waits /\ AfterWait[pc[t]] \in Labels
        /\ AfterWait[pc[t]] \in QueueLabels => pc[t] \in QueueLabels
        /\ AfterWait[pc[t]] \in MutexLabels => pc[t] \in MutexLabels
    BY <1>4 DEF WaitEnd, Waits, TimerWaits, PutWaits, GetWaits, AfterWait, Labels, LoopLabels,
       QueueLabels, MutexLabels
  <2>2. FrameTypeOK'
    BY <1>4, <2>1, GotoTyped, ReturnTyped DEF WaitEnd
  <2>3. TimerTypeOK'
    <3>1. timers[task_timers(t)] \in TimerRecord
      BY <1>k DEF TimerTypeOK
    <3>2. [timers[task_timers(t)] EXCEPT !.enabled = FALSE] \in TimerRecord
      BY <3>1 DEF TimerRecord
    <3>3. \/ timers' = timers
          \/ timers' = [timers EXCEPT ![task_timers(t)] = [timers[task_timers(t)] EXCEPT !.enabled = FALSE]]
      BY <1>4 DEF WaitEnd
    <3>4. QED
      BY <1>4, <1>k, <3>2, <3>3 DEF WaitEnd, TimerTypeOK, interruptVars
  <2>4. QueueTypeOK'
    BY <1>4, RegisterTyped, Kept DEF WaitEnd, queueVars
  <2>5. SignalTypeOK'
    BY <1>4 DEF WaitEnd, signal_recv, SignalTypeOK
  <2>6. CpuTypeOK'
    BY <1>4 DEF WaitEnd, cpuVars, CpuTypeOK
  <2>7. QED
    BY <1>4, <2>2, <2>3, <2>4, <2>5, <2>6, Kept DEF WaitEnd, interruptVars, mutexVars, cpuVars
<1>5. CASE mutex_lock_loop(t)
  <2>1. obj[t] \in Mutexes /\ pc[t] \in MutexLabels
    BY <1>5, <1>o DEF mutex_lock_loop, Running, MutexLabels
  <2>2. CASE mutex_take(obj[t], t) /\ Return(t) /\ UNCHANGED <<runnable, cpuVars, requested_signals>>
    <3>1. FrameTypeOK'
      BY <2>2, ReturnTyped
    <3>2. MutexTypeOK'
      BY <2>1, <2>2 DEF mutex_take, MutexTypeOK, TaskIdOption
    <3>3. QED
      BY <1>5, <2>2, <3>1, <3>2, Kept DEF mutex_lock_loop, interruptVars, timerVars, queueVars, cpuVars
  <2>3. CASE mutex_wait(obj[t], t) /\ Goto(t, "lock_wait") /\ signal_wait_set(t, {TASK_TIMER})
    <3>1. "lock_wait" \in Labels /\ "lock_wait" \notin QueueLabels
      BY DEF Labels, Waits, TimerWaits, QueueLabels, PutWaits, GetWaits
    <3>2. FrameTypeOK'
      BY <2>1, <2>3, <3>1, GotoTyped
    <3>3. MutexTypeOK'
      BY <2>1, <2>3 DEF mutex_wait, MutexTypeOK
    <3>4. SchedTypeOK' /\ CpuTypeOK'
      BY <1>5, <1>s, <2>3, WaitTyped DEF mutex_lock_loop
    <3>5. QED
      BY <1>5, <3>2, <3>3, <3>4, Kept DEF mutex_lock_loop, interruptVars, timerVars, queueVars
  <2>4. QED
    BY <1>5, <2>2, <2>3 DEF mutex_lock_loop
<1>6. CASE message_queue_put_loop(t)
  <2>1. pc[t] \in QueueLabels /\ "put_wait" \in PutWaits
    BY <1>6 DEF message_queue_put_loop, Running, QueueLabels, PutWaits
  <2>2. QED
    BY <1>6, <1>o, <2>1, PutTyped, ReturnTyped, QueueWaitTyped DEF message_queue_put_loop
<1>7. CASE message_queue_get_loop(t)
  <2>1. pc[t] \in QueueLabels /\ "get_wait" \in GetWaits
    BY <1>7 DEF message_queue_get_loop, Running, QueueLabels, GetWaits
  <2>2. QED
    BY <1>7, <1>o, <2>1, GetTyped, ReturnTyped, QueueWaitTyped DEF message_queue_get_loop
<1>g. ASSUME GiveUp(t) PROVE TypeInv'
  BY <1>g, ReturnTyped, Kept DEF GiveUp, TryCallFrame, interruptVars, timerVars, mutexVars, queueVars, cpuVars
<1>8. CASE message_queue_put_timeout_loop(t)
  <2>1. pc[t] \in QueueLabels
    BY <1>8 DEF message_queue_put_timeout_loop, Running, QueueLabels
  <2>2. QED
    BY <1>8, <1>o, <1>g, <2>1, PutTyped, ReturnTyped, QueueWaitTimeoutTyped DEF message_queue_put_timeout_loop
<1>9. CASE message_queue_get_timeout_loop(t)
  <2>1. pc[t] \in QueueLabels
    BY <1>9 DEF message_queue_get_timeout_loop, Running, QueueLabels
  <2>2. QED
    BY <1>9, <1>o, <1>g, <2>1, GetTyped, ReturnTyped, QueueWaitTimeoutTyped DEF message_queue_get_timeout_loop
<1>10. QED
  BY <1>1, <1>2, <1>3, <1>4, <1>5, <1>6, <1>7, <1>8, <1>9 DEF TaskStep

\* The API calls of an application keep the types.
LEMMA AppStepTyped ==
  ASSUME TypeInv, NEW t \in Tasks, AppStep(t)
  PROVE  TypeInv'
<1> USE DEF TypeInv
<1>s. \A sigs \in SignalSets \cup {{RTOS_UTIL}} : sigs \in SUBSET Signals
  BY RigelAssumption DEF SignalSets, Signals
<1>q. \A q \in TaskQueues[t] : q \in Queues
  BY RigelAssumption
<1>m. \A m \in Messages \cup {NoMessage} : m \in Contents
  BY DEF Contents
<1>a. /\ 0 \in TicksAbsolute
      /\ \A timeout \in Timeouts : timeout \in TicksRelative /\ AbsoluteTimeout(timeout) \in TicksAbsolute
  <2>1. \A timeout \in Timeouts : timeout \in TicksRelative /\ timer_current_ticks + timeout \in Int
    BY RigelAssumption, TimerAssumption DEF TimerTypeOK, TicksAbsolute, TicksRelative
  <2>2. TicksAbsoluteMod \in Nat \ {0} /\ 0 \in TicksAbsolute
    BY TimerAssumption DEF TicksAbsolute
  <2>3. \A timeout \in Timeouts : AbsoluteTimeout(timeout) \in TicksAbsolute
    BY <2>1, <2>2, ModRange DEF AbsoluteTimeout, TicksAbsolute
  <2>4. QED
    BY <2>1, <2>2, <2>3
<1>l. /\ {"put", "get", "put_timeout", "get_timeout"} \subseteq Labels \ MutexLabels
      /\ "lock" \in Labels \ QueueLabels
  BY DEF Labels, LoopLabels, QueueLabels, MutexLabels, PutWaits, GetWaits
<1>1. CASE message_queue_try_put(t)
  <2>1. FrameTypeOK'
    BY <1>1, Kept DEF message_queue_try_put, frameVars
  <2>2. QED
    BY <1>1, <1>q, <1>m, <2>1, PutTyped DEF message_queue_try_put
<1>2. CASE message_queue_try_get(t)
  <2>1. FrameTypeOK'
    BY <1>2, Kept DEF message_queue_try_get, frameVars
  <2>2. QED
    BY <1>2, <1>q, <2>1, GetTyped DEF message_queue_try_get
<1>3. CASE message_queue_put(t)
  BY <1>3, <1>q, <1>m, <1>a, <1>l, EnterTyped DEF message_queue_put
<1>4. CASE message_queue_get(t)
  BY <1>4, <1>q, <1>m, <1>a, <1>l, EnterTyped DEF message_queue_get
<1>5. CASE message_queue_put_timeout(t)
  BY <1>5, <1>q, <1>m, <1>a, <1>l, EnterTyped, FatalTyped DEF message_queue_put_timeout
<1>6. CASE message_queue_get_timeout(t)
  BY <1>6, <1>q, <1>m, <1>a, <1>l, EnterTyped, FatalTyped DEF message_queue_get_timeout
<1>7. CASE mutex_lock(t)
  BY <1>7, <1>m, <1>a, <1>l, EnterTyped, FatalTyped DEF mutex_lock
<1>8. CASE mutex_unlock(t)
  <2>1. PICK m \in Mutexes :
            \/ Fatal
            \/ /\ send_task_timer(MutexWaiters(m)) /\ mutex_release(m)
               /\ UNCHANGED <<interruptVars, timerVars, queueVars, frameVars, cpuVars, event_task,
                              received, requested_signals>>
    BY <1>8 DEF mutex_unlock
  <2>2. CASE /\ send_task_timer(MutexWaiters(m)) /\ mutex_release(m)
             /\ UNCHANGED <<interruptVars, timerVars, queueVars, frameVars, cpuVars, event_task,
                            received, requested_signals>>
    <3>1. MutexWaiters(m) \in SUBSET Tasks
      BY DEF MutexWaiters
    <3>2. SchedTypeOK' /\ SignalTypeOK'
      BY <2>2, <3>1, SendTaskTimerTyped DEF cpuVars
    <3>3. MutexTypeOK'
      BY <2>2 DEF mutex_release, MutexTypeOK, TaskIdOption
    <3>4. QED
      BY <2>2, <3>2, <3>3, Kept DEF interruptVars, timerVars, queueVars, frameVars, cpuVars
  <2>3. QED
    BY <2>1, <2>2, FatalTyped
<1>9. CASE mutex_try_lock(t)
  <2>1. MutexTypeOK'
    BY <1>9 DEF mutex_try_lock, mutex_take, MutexTypeOK, TaskIdOption
  <2>2. QED
    BY <1>9, <2>1, Kept DEF mutex_try_lock, interruptVars, timerVars, queueVars, frameVars, cpuVars
<1>10. CASE signal_wait_set_call(t)
  <2>1. PICK requested \in SignalSets : signal_wait_set(t, requested)
    BY <1>10 DEF signal_wait_set_call
  <2>2. SchedTypeOK' /\ CpuTypeOK'
    BY <1>10, <1>s, <2>1, WaitTyped DEF signal_wait_set_call
  <2>3. "signal_wait" \in Labels /\ "signal_wait" \notin QueueLabels \cup MutexLabels
    BY DEF Labels, Waits, QueueLabels, MutexLabels, PutWaits, GetWaits
  <2>4. FrameTypeOK'
    BY <1>10, <2>3, GotoTyped DEF signal_wait_set_call
  <2>5. QED
    BY <1>10, <2>2, <2>4, Kept DEF signal_wait_set_call, interruptVars, timerVars, mutexVars, queueVars
<1>11. CASE signal_poll_set(t)
  <2>1. SignalTypeOK'
    BY <1>11 DEF signal_poll_set, signal_recv, SignalTypeOK
  <2>2. QED
    BY <1>11, <2>1, Kept DEF signal_poll_set, interruptVars, timerVars, mutexVars, queueVars, frameVars, cpuVars
<1>12. CASE signal_send(t)
  <2>1. PICK task_id \in Recipients, sigs \in SignalSets \cup {{RTOS_UTIL}} :
            signal_send_set({task_id}, [u \in {task_id} |-> sigs])
    BY <1>12 DEF signal_send
  <2>2. {task_id} \in SUBSET Tasks /\ \A u \in {task_id} : [v \in {task_id} |-> sigs][u] \subseteq Signals
    BY <1>s, RigelAssumption
  <2>3. SchedTypeOK' /\ SignalTypeOK'
    BY <1>12, <2>1, <2>2, SendTyped DEF signal_send, cpuVars
  <2>4. QED
    BY <1>12, <2>3, Kept DEF signal_send, interruptVars, timerVars, mutexVars, queueVars, frameVars, cpuVars
<1>13. CASE sleep(t)
  <2>1. SchedTypeOK' /\ SignalTypeOK' /\ TimerTypeOK'
    BY <1>13, <1>a, OneshotTyped DEF sleep, cpuVars, interruptVars
  <2>2. "sleep_block" \in Labels /\ "sleep_block" \notin QueueLabels \cup MutexLabels
    BY DEF Labels, BlockLabels, QueueLabels, MutexLabels, PutWaits, GetWaits
  <2>3. FrameTypeOK'
    BY <1>13, <2>2, GotoTyped DEF sleep
  <2>4. QED
    BY <1>13, <2>1, <2>3, Kept DEF sleep, interruptVars, mutexVars, queueVars, cpuVars
<1>14. CASE yield_call(t)
  <2>1. CpuTypeOK'
    BY <1>14 DEF yield_call, yield, CpuTypeOK, Phases
  <2>2. QED
    BY <1>14, <2>1, Kept DEF yield_call, yield, interruptVars, timerVars, mutexVars, queueVars, frameVars
<1>15. CASE interrupt_event_task_set(t)
  <2>1. CpuTypeOK'
    BY <1>15 DEF interrupt_event_task_set, cpuVars, CpuTypeOK
  <2>2. QED
    BY <1>15, <2>1, Kept DEF interrupt_event_task_set, interruptVars, timerVars, mutexVars, queueVars,
       frameVars, cpuVars
<1>16. QED
  BY <1>1, <1>2, <1>3, <1>4, <1>5, <1>6, <1>7, <1>8, <1>9, <1>10, <1>11, <1>12, <1>13, <1>14, <1>15 DEF AppStep

\* The recipients and the signals of interrupt events, whichever tasks the
\* application has assigned to them.
LEMMA EventsTyped ==
  ASSUME CpuTypeOK, EventTypeOK
  PROVE  /\ EventTasks(event_task, interrupt_event) \in SUBSET Tasks
         /\ \A t \in EventTasks(event_task, interrupt_event) :
                EventSends(event_task, interrupt_event)[t] \subseteq AppSignals
<1>1. EventTasks(event_task, interrupt_event) \in SUBSET Tasks
  BY DEF EventTasks, CpuTypeOK, EventTypeOK
<1>2. \A t \in Tasks : EventSends(event_task, interrupt_event)[t] \subseteq AppSignals
  BY EventAssumption DEF EventSends, EventTypeOK
<1>3. QED
  BY <1>1, <1>2

\* sched_get_next stops at the first runnable task after cur, if there is one.
LEMMA RoundRobin ==
  ASSUME SchedTypeOK
  PROVE  /\ sched_get_next \in TaskIdOption
         /\ sched_get_next = TASK_ID_NONE => \A u \in Tasks : ~runnable[u]
         /\ sched_get_next # TASK_ID_NONE =>
                /\ runnable[sched_get_next]
                /\ \A u \in Tasks : runnable[u] => Distance(sched_get_next) <= Distance(u)
<1>0. TASK_ID_NONE \notin Tasks
  BY NAssumption DEF TASK_ID_NONE, Tasks
<1>1. ASSUME NEW t \in Tasks, runnable[t]
      PROVE  /\ NextRunnable \in Tasks /\ runnable[NextRunnable]
             /\ \A u \in Tasks : runnable[u] => Distance(NextRunnable) <= Distance(u)
  <2>1. \A u \in Tasks : Distance(u) \in Nat
    <3>1. N \in Nat \ {0} /\ \A u \in Tasks : u - cur - 1 \in Int
      BY NAssumption DEF SchedTypeOK, Tasks
    <3>2. \A u \in Tasks : Distance(u) \in 0 .. (N - 1)
      BY <3>1, ModRange DEF Distance
    <3>3. QED
      BY <3>1, <3>2
  <2> DEFINE D == {Distance(u) : u \in {v \in Tasks : runnable[v]}}
  <2>2. D \in SUBSET Nat /\ D # {}
    BY <1>1, <2>1
  <2>3. PICK d \in D : \A e \in D : d <= e
    BY <2>2, LeastOf
  <2>4. \E u \in Tasks : runnable[u] /\ \A v \in Tasks : runnable[v] => Distance(u) <= Distance(v)
    BY <2>3
  <2>5. QED
    BY <2>4 DEF NextRunnable
<1>2. QED
  BY <1>0, <1>1 DEF sched_get_next, TaskIdOption

-----------------------------------------------------------------------------
\* The scheduler and the interrupt handlers keep the types.
LEMMA CpuStepTyped ==
  ASSUME TypeInv, SchedStep \/ Interrupt
  PROVE  TypeInv'
<1> USE DEF TypeInv
<1>1. CASE interrupt_event_process
  <2>1. /\ EventTasks(event_task, interrupt_event) \in SUBSET Tasks
        /\ \A t \in EventTasks(event_task, interrupt_event) :
               EventSends(event_task, interrupt_event)[t] \subseteq Signals
    BY EventsTyped DEF Signals
  <2>2. SchedTypeOK' /\ SignalTypeOK'
    BY <1>1, <2>1, SendTyped DEF interrupt_event_process
  <2>3. EventTypeOK' /\ CpuTypeOK'
    BY <1>1 DEF interrupt_event_process, EventTypeOK, CpuTypeOK, Phases
  <2>4. QED
    BY <1>1, <2>2, <2>3, Kept DEF interrupt_event_process, timerVars, mutexVars, queueVars, frameVars
<1>2. CASE timer_tick_process
  <2> DEFINE ticks == (timer_current_ticks + 1) % TicksAbsoluteMod
             K == Expired(ticks)
  <2>1. CpuTypeOK'
    BY <1>2 DEF timer_tick_process, CpuTypeOK, Phases
  <2>2. CASE UNCHANGED <<PENDING_SIGNALS, runnable, timerVars>>
    <3>1. TimerTypeOK'
      BY <1>2, <2>2 DEF timer_tick_process, TimerTypeOK, timerVars
    <3>2. QED
      BY <1>2, <2>1, <2>2, <3>1, Kept DEF timer_tick_process, mutexVars, queueVars, frameVars
  <2>3. CASE /\ timer_current_ticks' = ticks /\ timers' = TimersAfter(K)
             /\ signal_send_set(TimerTasks(K), TimerSignals(K))
    <3>1. ticks \in TicksAbsolute
      <4>1. timer_current_ticks + 1 \in Int /\ TicksAbsoluteMod \in Nat \ {0}
        BY TimerAssumption DEF TimerTypeOK, TicksAbsolute
      <4>2. QED
        BY <4>1, ModRange DEF TicksAbsolute
    <3>2. K \in SUBSET TimerIds
      BY DEF Expired
    <3> HIDE DEF ticks, K
    <3>3. TimerTypeOK'
      BY <1>2, <2>3, <3>1, <3>2, ExpiredTyped DEF timer_tick_process, TimerTypeOK
    <3>4. SchedTypeOK' /\ SignalTypeOK'
      BY <1>2, <2>3, <3>2, ExpiredTyped, SendTyped DEF timer_tick_process
    <3>5. QED
      BY <1>2, <2>1, <3>3, <3>4, Kept DEF timer_tick_process, mutexVars, queueVars, frameVars
  <2>4. QED
    BY <1>2, <2>2, <2>3 DEF timer_tick_process
<1>3. CASE sched_pick
  <2>1. sched_get_next \in TaskIdOption /\ N - 1 \in Tasks
    BY RoundRobin, NAssumption DEF Tasks
  <2>2. SchedTypeOK'
    BY <1>3, <2>1 DEF sched_pick, sched_set_cur_index, SchedTypeOK, TaskIdOption
  <2>3. CpuTypeOK'
    BY <1>3, <2>1 DEF sched_pick, CpuTypeOK, Phases, TaskIdOption
  <2>4. QED
    BY <1>3, <2>2, <2>3, Kept DEF sched_pick, interruptVars, timerVars, mutexVars, queueVars, frameVars
<1>4. CASE interrupt_event_wait
  <2>1. CpuTypeOK'
    BY <1>4 DEF interrupt_event_wait, CpuTypeOK, Phases
  <2>2. QED
    BY <1>4, <2>1, Kept DEF interrupt_event_wait, interruptVars, timerVars, mutexVars, queueVars, frameVars
<1>h. ASSUME HandlerReturns
      PROVE  CpuTypeOK'
  BY <1>h DEF HandlerReturns, CpuTypeOK, Phases
<1>5. CASE timer_tick
  <2>1. TimerTypeOK'
    BY <1>5 DEF timer_tick, HandlerReturns, timerVars, TimerTypeOK
  <2>2. QED
    BY <1>5, <1>h, <2>1, Kept DEF timer_tick, HandlerReturns, timerVars, mutexVars, queueVars, frameVars
<1>6. CASE \E e \in Events : interrupt_event_raise(e)
  <2>1. EventTypeOK'
    BY <1>6 DEF interrupt_event_raise, EventTypeOK
  <2>2. QED
    BY <1>6, <1>h, <2>1, Kept DEF interrupt_event_raise, HandlerReturns, timerVars, mutexVars, queueVars, frameVars
<1>7. QED
  BY <1>1, <1>2, <1>3, <1>4, <1>5, <1>6 DEF SchedStep, Interrupt

\* No step of Rigel breaks the types.
LEMMA TypeNext == TypeInv /\ [Next]_vars => TypeInv'
<1> SUFFICES ASSUME TypeInv, [Next]_vars PROVE TypeInv'
  OBVIOUS
<1>1. CASE UNCHANGED vars
  BY <1>1, Kept DEF vars, interruptVars, timerVars, mutexVars, queueVars, frameVars, cpuVars, TypeInv
<1>2. CASE Next
  BY <1>1, <1>2, TaskStepTyped, AppStepTyped, CpuStepTyped DEF Next, Stopped
<1>3. QED
  BY <1>1, <1>2

-----------------------------------------------------------------------------
\* What is left of a timeout is changed by the ticks, and by the task itself
\* only where its call starts or ends.
LEMMA TimeLeftSteps ==
  ASSUME NEW t \in Tasks, TaskStep(t) \/ AppStep(t)
  PROVE  UNCHANGED time_left \/ EndTimeout(t) \/ \E timeout \in Timeouts : StartTimeout(t, timeout)
<1>1. CASE TaskStep(t)
  BY <1>1 DEF TaskStep, Entry, BlockTimed, WaitAgain, WaitEnd, mutex_lock_loop, message_queue_put_loop,
     message_queue_get_loop, message_queue_put_timeout_loop, message_queue_get_timeout_loop, GiveUp,
     message_queue_wait, message_queue_wait_timeout, timerVars
<1>2. CASE AppStep(t)
  BY <1>2 DEF AppStep, Fatal, message_queue_try_put, message_queue_try_get, message_queue_put,
     message_queue_get, message_queue_put_timeout, message_queue_get_timeout, mutex_lock, mutex_unlock,
     mutex_try_lock, signal_wait_set_call, signal_poll_set, signal_send, sleep, yield_call,
     interrupt_event_task_set, timerVars
<1>3. QED
  BY <1>1, <1>2

\* What is left of a timeout is a relative tick count.
LEMMA TimeLeftNext == TimeLeftTypeOK /\ [Next]_vars => TimeLeftTypeOK'
<1> SUFFICES ASSUME TimeLeftTypeOK, [Next]_vars PROVE TimeLeftTypeOK'
  OBVIOUS
<1>u. CASE UNCHANGED time_left
  BY <1>u DEF TimeLeftTypeOK
<1>1. ASSUME NEW t \in Tasks, TaskStep(t) \/ AppStep(t)
      PROVE  TimeLeftTypeOK'
  <2>1. Timeouts \subseteq TicksRelative
    BY RigelAssumption
  <2>2. QED
    BY <1>1, <2>1, TimeLeftSteps, TimeLeftTyped
<1>2. CASE timer_tick_process
  <2>1. \/ UNCHANGED time_left
        \/ CountTick((timer_current_ticks + 1) % TicksAbsoluteMod, {t \in Tasks : pc[t] \in TimedLabels})
    BY <1>2 DEF timer_tick_process, timerVars
  <2>2. QED
    BY <1>u, <2>1, CountTickTyped
<1>3. CASE (SchedStep /\ ~timer_tick_process) \/ Interrupt \/ Stopped \/ UNCHANGED vars
  BY <1>u, <1>3 DEF SchedStep, Interrupt, Stopped, interrupt_event_process, sched_pick,
     interrupt_event_wait, timer_tick, interrupt_event_raise, HandlerReturns, vars, timerVars
<1>4. QED
  BY <1>1, <1>2, <1>3 DEF Next, SchedStep

LEMMA TimeLeftInit == Init => TimeLeftTypeOK
  BY TimerAssumption DEF Init, TimeLeftTypeOK, TicksRelative

\* Type correctness: no counter, identifier or local of the RTOS ever leaves
\* the range of its C type: the head of a ring buffer stays inside it and no
\* queue holds more than its length.
THEOREM TypeCorrect == Spec => []TypeOK
<1>1. Spec => [](TypeInv /\ TimeLeftTypeOK)
  BY TypeInit, TypeNext, TimeLeftInit, TimeLeftNext, PTL DEF Spec
<1>2. QED
  BY <1>1, TypeInvIsStronger, PTL
=============================================================================
